----------------------------- MODULE RknnMemory -----------------------------
(***************************************************************************)
(* What the Tracker of rknnnanotrack holds of the RKNN runtime             *)
(* (src/nanotracker/gstrknnnanotrack.cpp: Model and the Tracker's          *)
(* constructor): three contexts, the tensor memories created on them, and  *)
(* the feature memories of the backbones imported into the head.           *)
(*                                                                         *)
(* `live` is what exists in the runtime.  The rest is what the program     *)
(* knows of it, its fields and locals: the destructors see only those, and *)
(* that they destroy all of `live` is for the properties to say.           *)
(***************************************************************************)
EXTENDS Naturals

VARIABLES
    live,   \* the contexts and memories that exist in the runtime
    ctx,    \* the Models whose field ctx is set
    owned,  \* the memories in the vector of their Model
    held,   \* the memory in a local of allocate or import, not yet in a vector
    built,  \* the Models whose constructor has returned
    made    \* how many of its calls the Tracker's constructor has behind it

memoryVars == <<live, ctx, owned, held, built, made>>

Models == {"template_net", "search_net", "head"}

\* The Model a memory is created by, on its context and into its vector.
Owner == [template_image |-> "template_net", template_feature |-> "template_net",
          search_image |-> "search_net", search_feature |-> "search_net",
          template_input |-> "head", search_input |-> "head",
          cls |-> "head", loc |-> "head"]

\* The memory that a memory is imported from.
Source == [template_input |-> "template_feature", search_input |-> "search_feature"]

Memories == DOMAIN Owner
Objects == Models \cup Memories
NoMemory == "none"

\* Mutant: the head is declared before the backbones, and dies after them.
DeclaredHeadFirst == [head |-> 1, template_net |-> 2, search_net |-> 3]

\* The order of the members of the Tracker, and so of their construction.
Declared == [template_net |-> 1, search_net |-> 2, head |-> 3]

\* The calls of the Tracker's constructor, in order.
Creation == [template_net |-> Declared["template_net"],
             search_net |-> Declared["search_net"],
             head |-> Declared["head"],
             template_image |-> 4, search_image |-> 5,
             template_feature |-> 6, template_input |-> 7,
             search_feature |-> 8, search_input |-> 9,
             cls |-> 10, loc |-> 11]

Due(o) == Creation[o] = made + 1
AllMade == made = 11

MemoryTypeOK ==
    /\ live \subseteq Objects
    /\ ctx \subseteq Models
    /\ owned \subseteq Memories
    /\ held \in Memories \cup {NoMemory}
    /\ built \subseteq Models
    /\ made \in 0..11

MemoryInit ==
    /\ live = {} /\ ctx = {} /\ owned = {} /\ built = {}
    /\ held = NoMemory
    /\ made = 0

-----------------------------------------------------------------------------
(* Construction, one call of the runtime or of the vector at a time.       *)

\* Model: rknn_init sets the field ctx,
Load(m) ==
    /\ Due(m) /\ m \notin ctx
    /\ live' = live \cup {m}
    /\ ctx' = ctx \cup {m}
    /\ UNCHANGED <<owned, held, built, made>>

\* and with the queries of its inputs and outputs the constructor returns.
Query(m) ==
    /\ Due(m) /\ m \in ctx
    /\ built' = built \cup {m}
    /\ made' = made + 1
    /\ UNCHANGED <<live, ctx, owned, held>>

\* Mutant: the constructor does not catch what its queries throw.
QueryUncaught(m) ==
    /\ Due(m) /\ m \in ctx
    /\ ctx' = ctx \ {m}
    /\ made' = 0
    /\ UNCHANGED <<live, owned, held, built>>

\* A query fails: no destructor runs for a Model half made, and so the
\* constructor releases the context itself.
QueryFails(m) ==
    /\ Due(m) /\ m \in ctx
    /\ live' = live \ {m}
    /\ ctx' = ctx \ {m}
    /\ made' = 0
    /\ UNCHANGED <<owned, held, built>>

\* allocate and import: rknn_create_mem or rknn_create_mem_from_fd,
CreateMemory(o) ==
    /\ Due(o) /\ held = NoMemory /\ o \notin owned
    /\ live' = live \cup {o}
    /\ held' = o
    /\ UNCHANGED <<ctx, owned, built, made>>

\* own: the vector has it from now on,
Own ==
    /\ held # NoMemory
    /\ owned' = owned \cup {held}
    /\ held' = NoMemory
    /\ UNCHANGED <<live, ctx, built, made>>

\* unless the vector cannot grow,
OwnFails ==
    /\ held # NoMemory
    /\ live' = live \ {held}
    /\ held' = NoMemory
    /\ made' = 0
    /\ UNCHANGED <<ctx, owned, built>>

\* and it is bound to its tensor.
Bind(o) ==
    /\ Due(o) /\ o \in owned
    /\ made' = made + 1
    /\ UNCHANGED <<live, ctx, owned, held, built>>

\* A name, a file, rknn_init, a shape, the creation of a memory, its mapping
\* or its binding fails: there is nothing to undo at that place.
ElseFails ==
    /\ ctx = built /\ held = NoMemory
    /\ made' = 0
    /\ UNCHANGED <<live, ctx, owned, held, built>>

-----------------------------------------------------------------------------
(* ~Tracker, or what C++ destroys of a Tracker whose constructor throws:   *)
(* the members that were built, last declared first.                       *)

Dying(m) == m \in built /\ \A other \in built : Declared[other] <= Declared[m]

\* ~Model releases its memories in the order of its vector,
ReleaseMemory(o) ==
    /\ o \in owned
    /\ Dying(Owner[o])
    /\ \A other \in owned : Owner[other] = Owner[o] => Creation[o] <= Creation[other]
    /\ live' = live \ {o}
    /\ owned' = owned \ {o}
    /\ UNCHANGED <<ctx, held, built, made>>

\* and then its context.
ReleaseContext(m) ==
    /\ Dying(m)
    /\ \A o \in owned : Owner[o] # m
    /\ live' = live \ (ctx \cap {m})
    /\ ctx' = ctx \ {m}
    /\ built' = built \ {m}
    /\ UNCHANGED <<owned, held, made>>

-----------------------------------------------------------------------------
\* Nothing is used after it was destroyed: a memory's context exists, and so
\* does the memory it was imported from (gstrknnnanotrack.cpp:170, 334).
NothingDangling ==
    \A m \in live \cap Memories :
        /\ Owner[m] \in live
        /\ m \in DOMAIN Source => Source[m] \in live
=============================================================================
