--------------------------- MODULE ProvidersProofs --------------------------
(***************************************************************************)
(* Proofs about Providers, for every set of workers and every number of    *)
(* calls: what settles stays, and a call that begins after an object has   *)
(* settled works with it; and, for every reply an upstream may give, what  *)
(* a score's label and an empty result say.                                *)
(*                                                                         *)
(* LateCallersShare is not inductive.  What it rests on is Kept: what a    *)
(* call saw settled is still in its cell, and nobody who could replace it  *)
(* is under way; and on Ordered: a call takes its provider before it takes *)
(* what belongs to that provider, so that the cell a held object came from *)
(* is still the one CellOf names.                                          *)
(***************************************************************************)
EXTENDS Providers, TLAPS

Stages == Cached \cup Attributes

Functions ==
    /\ cells \in [Cells -> Workers \cup {None, Engine}]
    /\ \A s \in Cached : cells[<<s, None>>] \in Workers \cup {None}
    /\ job \in [Workers -> Cached]
    /\ stage \in [Workers -> Stages \cup {"post", "read", "retrieve", "request"}]
    /\ pc \in [Workers -> {"idle", "look", "build", "store", "return"}]
    /\ held \in [Workers -> [Stages -> Workers \cup {None, Engine}]]
    /\ seen \in [Workers -> [Cells -> Workers \cup {None, Engine}]]

\* A call that is inside a stage is in one that hands out an object, and its
\* cell exists.
Placed ==
    \A w \in Workers :
        /\ stage[w] = "client" => held[w]["llm"] \in Workers
        /\ stage[w] = "module" => held[w]["rag"] \in Workers
        /\ pc[w] \in {"build", "store"} => stage[w] \in Stages
        /\ pc[w] = "return" => stage[w] \in Attributes

Ordered ==
    \A w \in Workers :
        /\ held[w]["client"] # None => stage[w] = "post"
        /\ held[w]["module"] # None => stage[w] = "retrieve"

Kept ==
    \A w \in Workers, c \in Cells :
        seen[w][c] # None =>
            /\ cells[c] = seen[w][c]
            /\ ~Filling(w, c)
            /\ c[1] \notin Cached => \A v \in Workers : ~Filling(v, c)

IInv == Functions /\ Placed /\ Ordered /\ Kept /\ LateCallersShare

-----------------------------------------------------------------------------
(* Cells                                                                   *)

\* The first part of a cell's name is the stage it serves.
LEMMA CellNames ==
  ASSUME NEW w, NEW s
  PROVE  CellOf(w, s)[1] = s
  BY DEF CellOf

\* A call inside a stage looks into a cell that exists.
LEMMA CellExists ==
  ASSUME Functions, Placed, NEW w \in Workers, stage[w] \in Stages
  PROVE  Cell(w) \in Cells
  BY DEF Functions, Placed, Stages, Cached, Attributes, Cells, Cell, CellOf

\* What a stage hands out has the type of an object, and a provider is one
\* that a worker has built.
LEMMA FoundObject ==
  ASSUME Functions, Placed, NEW w \in Workers, stage[w] \in Stages,
         cells[Cell(w)] # None
  PROVE  /\ cells[Cell(w)] \in Workers \cup {None, Engine}
         /\ stage[w] \in Cached => cells[Cell(w)] \in Workers
  <1>1. Cell(w) \in Cells
    BY CellExists
  <1>2. stage[w] \in Cached => Cell(w) = <<stage[w], None>>
    BY DEF Cell, CellOf, Cached
  <1> QED
    BY <1>1, <1>2 DEF Functions

-----------------------------------------------------------------------------
(* The steps                                                               *)

LEMMA Initially == Init => IInv
  <1> SUFFICES ASSUME Init PROVE IInv
    OBVIOUS
  <1>1. Functions
    BY ProvidersAssumption
    DEF Init, Functions, Cells, Stages, Cached, Attributes, Nothing
  <1>2. Placed /\ Ordered
    BY DEF Init, Placed, Ordered, Nothing, Stages, Cached, Attributes
  <1>3. Kept /\ LateCallersShare
    BY DEF Init, Kept, LateCallersShare, Nothing, Cached, Attributes
  <1> QED
    BY <1>1, <1>2, <1>3 DEF IInv

\* A worker that moves on to the next stage with an object.  The object is the
\* one it saw settled when its call began, if it saw one.
LEMMA TakeKeepsIInv ==
  ASSUME IInv, NEW w \in Workers, NEW object \in Workers \cup {None, Engine},
         stage[w] \in Stages, Take(w, object),
         stage[w] \in Cached => object \in Workers,
         seen[w][Cell(w)] # None => object = seen[w][Cell(w)],
         cells' \in [Cells -> Workers \cup {None, Engine}],
         \A s \in Cached : cells'[<<s, None>>] \in Workers \cup {None},
         \A c \in Cells : \A v \in Workers : seen[v][c] # None => cells'[c] = cells[c]
  PROVE  IInv'
  <1> USE DEF Take
  <1>1. Functions'
    <2>1. After(w) \in Stages \cup {"post", "read", "retrieve", "request"}
      BY DEF IInv, Functions, After, Stages, Cached, Attributes
    <2> QED
      BY <2>1 DEF IInv, Functions
  <1>2. Placed'
    <2>1. ASSUME NEW v \in Workers, v # w
          PROVE  /\ stage'[v] = "client" => held'[v]["llm"] \in Workers
                 /\ stage'[v] = "module" => held'[v]["rag"] \in Workers
                 /\ pc'[v] \in {"build", "store"} => stage'[v] \in Stages
                 /\ pc'[v] = "return" => stage'[v] \in Attributes
      BY <2>1 DEF IInv, Functions, Placed
    <2>2. stage'[w] = After(w) /\ pc'[w] = "look"
      BY DEF IInv, Functions
    <2>3. After(w) = "client" => stage[w] = "llm"
      BY DEF IInv, Functions, After, Stages, Cached, Attributes
    <2>4. After(w) = "module" => stage[w] = "rag"
      BY DEF IInv, Functions, After, Stages, Cached, Attributes
    <2>5. held'[w][stage[w]] = object
      BY DEF IInv, Functions
    <2> QED
      BY <2>1, <2>2, <2>3, <2>4, <2>5 DEF Placed, Cached
  <1>3. Ordered'
    <2>1. ASSUME NEW v \in Workers, v # w
          PROVE  held'[v] = held[v] /\ stage'[v] = stage[v]
      BY <2>1 DEF IInv, Functions
    <2>2. stage'[w] = After(w)
      BY DEF IInv, Functions
    <2>3. stage[w] = "client" => After(w) = "post"
      BY DEF After
    <2>4. stage[w] = "module" => After(w) = "retrieve"
      BY DEF After
    <2>5. \A s \in Stages : s # stage[w] => held'[w][s] = held[w][s]
      BY DEF IInv, Functions
    <2>6. stage[w] \notin {"post", "retrieve"}
      BY DEF Stages, Cached, Attributes
    <2> QED
      BY <2>1, <2>2, <2>3, <2>4, <2>5, <2>6
      DEF IInv, Ordered, Stages, Attributes
  <1>4. Kept'
    <2>1. ASSUME NEW v \in Workers, NEW c \in Cells, Filling(v, c)'
          PROVE  Filling(v, c)
      <3>1. v # w
        BY <2>1 DEF IInv, Functions, Filling
      <3> QED
        BY <2>1, <3>1 DEF IInv, Functions, Filling, Cell, CellOf
    <2> QED
      BY <2>1 DEF IInv, Kept
  <1>5. LateCallersShare'
    <2> SUFFICES ASSUME NEW v \in Workers, NEW s \in Cached \cup Attributes,
                        held'[v][s] # None, CellOf(v, s)' \in Cells,
                        seen[v][CellOf(v, s)'] # None
                 PROVE  held'[v][s] = seen[v][CellOf(v, s)']
      BY DEF LateCallersShare
    <2>1. CASE v # w
      <3>1. held'[v] = held[v]
        BY <2>1 DEF IInv, Functions
      <3>2. CellOf(v, s)' = CellOf(v, s)
        BY <3>1 DEF CellOf
      <3> QED
        BY <3>1, <3>2 DEF IInv, LateCallersShare
    <2>2. CASE v = w /\ s = stage[w]
      <3>1. held'[w][s] = object
        BY <2>2 DEF IInv, Functions
      <3>2. stage[w] = "client" => held'[w]["llm"] = held[w]["llm"]
        BY DEF IInv, Functions, Stages, Cached, Attributes
      <3>3. stage[w] = "module" => held'[w]["rag"] = held[w]["rag"]
        BY DEF IInv, Functions, Stages, Cached, Attributes
      <3>4. CellOf(v, s)' = Cell(w)
        BY <2>2, <3>2, <3>3 DEF Cell, CellOf
      <3> QED
        BY <2>2, <3>1, <3>4
    <2>3. CASE v = w /\ s # stage[w]
      <3>1. held'[w][s] = held[w][s]
        BY <2>3 DEF IInv, Functions, Stages
      <3>2. stage[w] \notin {"post", "retrieve"}
        BY DEF Stages, Cached, Attributes
      <3>3. s \notin {"client", "module"}
        BY <2>3, <3>1, <3>2 DEF IInv, Ordered
      <3>4. CellOf(v, s)' = CellOf(v, s)
        BY <3>3 DEF CellOf
      <3> QED
        BY <2>3, <3>1, <3>4 DEF IInv, LateCallersShare
    <2> QED
      BY <2>1, <2>2, <2>3
  <1> QED
    BY <1>1, <1>2, <1>3, <1>4, <1>5 DEF IInv

\* A step of a worker inside its stage: only where it stands may change.
LEMMA StandKeepsIInv ==
  ASSUME IInv, NEW w \in Workers,
         UNCHANGED <<cells, job, stage, held, seen>>,
         pc' \in [Workers -> {"idle", "look", "build", "store", "return"}],
         \A v \in Workers : v # w => pc'[v] = pc[v],
         pc'[w] \in {"build", "store"} => stage[w] \in Stages,
         pc'[w] = "return" => stage[w] \in Attributes,
         pc'[w] \in {"build", "store"} =>
            cells[Cell(w)] = None \/ pc[w] \in {"build", "store"}
  PROVE  IInv'
  <1>1. Functions' /\ Placed' /\ Ordered'
    BY DEF IInv, Functions, Placed, Ordered
  <1>2. Kept'
    <2>1. ASSUME NEW v \in Workers, NEW c \in Cells, Filling(v, c)', ~Filling(v, c)
          PROVE  cells[c] = None
      BY <2>1 DEF Filling, Cell, CellOf
    <2> QED
      BY <2>1 DEF IInv, Kept
  <1>3. LateCallersShare'
    BY DEF IInv, LateCallersShare, CellOf
  <1> QED
    BY <1>1, <1>2, <1>3 DEF IInv

\* A call begins, having seen what had settled.
LEMMA BeginKeepsIInv ==
  ASSUME IInv, NEW w \in Workers, NEW j \in Cached, Begin(w, j)
  PROVE  IInv'
  <1> USE DEF Begin
  <1>1. Functions'
    BY ProvidersAssumption
    DEF IInv, Functions, Nothing, Settled, Stages, Cached, Attributes
  <1>2. Placed' /\ Ordered'
    BY DEF IInv, Functions, Placed, Ordered, Nothing, Stages, Cached, Attributes
  <1>3. ASSUME NEW v \in Workers, NEW c \in Cells, Filling(v, c)'
        PROVE  v # w /\ Filling(v, c)
    <2>1. v # w
      BY <1>3 DEF IInv, Functions, Filling
    <2> QED
      BY <1>3, <2>1 DEF IInv, Functions, Filling, Cell, CellOf
  <1>4. Kept'
    <2> SUFFICES ASSUME NEW v \in Workers, NEW c \in Cells, seen'[v][c] # None
                 PROVE  /\ cells[c] = seen'[v][c]
                        /\ ~Filling(v, c)'
                        /\ c[1] \notin Cached => \A u \in Workers : ~Filling(u, c)'
      BY DEF Kept
    <2>1. CASE v = w
      <3>1. seen'[w][c] = Settled(c)
        BY DEF IInv, Functions
      <3> QED
        BY <1>3, <2>1, <3>1 DEF Settled
    <2>2. CASE v # w
      <3>1. seen'[v] = seen[v]
        BY <2>2 DEF IInv, Functions
      <3> QED
        BY <1>3, <3>1 DEF IInv, Kept
    <2> QED
      BY <2>1, <2>2
  <1>5. LateCallersShare'
    <2> SUFFICES ASSUME NEW v \in Workers, NEW s \in Cached \cup Attributes,
                        held'[v][s] # None, CellOf(v, s)' \in Cells,
                        seen'[v][CellOf(v, s)'] # None
                 PROVE  held'[v][s] = seen'[v][CellOf(v, s)']
      BY DEF LateCallersShare
    <2>1. v # w
      BY DEF IInv, Functions, Nothing
    <2>2. held'[v] = held[v] /\ seen'[v] = seen[v]
      BY <2>1 DEF IInv, Functions
    <2> QED
      BY <2>2 DEF IInv, LateCallersShare, CellOf
  <1> QED
    BY <1>1, <1>2, <1>4, <1>5 DEF IInv

LEMMA FoundKeepsIInv ==
  ASSUME IInv, NEW w \in Workers, Found(w)
  PROVE  IInv'
  <1>1. stage[w] \in Stages /\ cells[Cell(w)] # None
    BY DEF Found, Vacant, Stages
  <1>2. Cell(w) \in Cells
    BY <1>1, CellExists DEF IInv
  <1>3. CASE stage[w] \in Cached
    <2>1. cells[Cell(w)] \in Workers
      BY <1>1, <1>3, FoundObject DEF IInv
    <2>2. Take(w, cells[Cell(w)]) /\ UNCHANGED cells
      BY <1>3 DEF Found
    <2>3. seen[w][Cell(w)] # None => cells[Cell(w)] = seen[w][Cell(w)]
      BY <1>2 DEF IInv, Kept
    <2> QED
      BY <1>1, <2>1, <2>2, <2>3, TakeKeepsIInv DEF IInv, Functions
  <1>4. CASE stage[w] \notin Cached
    <2>1. /\ pc' = [pc EXCEPT ![w] = "return"]
          /\ UNCHANGED <<cells, job, stage, held, seen>>
      BY <1>4 DEF Found
    <2>2. /\ pc' \in [Workers -> {"idle", "look", "build", "store", "return"}]
          /\ \A v \in Workers : v # w => pc'[v] = pc[v]
          /\ pc'[w] = "return"
          /\ stage[w] \in Attributes
      BY <1>1, <1>4, <2>1 DEF IInv, Functions, Stages
    <2> QED
      BY <1>1, <2>1, <2>2, StandKeepsIInv
  <1> QED
    BY <1>3, <1>4

LEMMA MissingKeepsIInv ==
  ASSUME IInv, NEW w \in Workers, Missing(w)
  PROVE  IInv'
  <1>1. /\ stage[w] \in Stages /\ cells[Cell(w)] = None
        /\ pc' = [pc EXCEPT ![w] = "build"]
        /\ UNCHANGED <<cells, job, stage, held, seen>>
    BY DEF Missing, Vacant, Stages
  <1>2. /\ pc' \in [Workers -> {"idle", "look", "build", "store", "return"}]
        /\ \A v \in Workers : v # w => pc'[v] = pc[v]
    BY <1>1 DEF IInv, Functions
  <1> QED
    BY <1>1, <1>2, StandKeepsIInv

LEMMA BuildKeepsIInv ==
  ASSUME IInv, NEW w \in Workers, Build(w)
  PROVE  IInv'
  <1>1. /\ pc[w] = "build"
        /\ pc' = [pc EXCEPT ![w] = "store"]
        /\ UNCHANGED <<cells, job, stage, held, seen>>
    BY DEF Build
  <1>2. /\ pc' \in [Workers -> {"idle", "look", "build", "store", "return"}]
        /\ \A v \in Workers : v # w => pc'[v] = pc[v]
        /\ stage[w] \in Stages
    BY <1>1 DEF IInv, Functions, Placed
  <1> QED
    BY <1>1, <1>2, StandKeepsIInv

\* A call that ends keeps what it holds until the next one begins.
LEMMA EndKeepsIInv ==
  ASSUME IInv, NEW w \in Workers, NEW r, End(w, r)
  PROVE  IInv'
  <1>1. /\ pc' = [pc EXCEPT ![w] = "idle"]
        /\ UNCHANGED <<cells, job, stage, held, seen>>
    BY DEF End
  <1>2. /\ pc' \in [Workers -> {"idle", "look", "build", "store", "return"}]
        /\ \A v \in Workers : v # w => pc'[v] = pc[v]
        /\ pc'[w] = "idle"
    BY <1>1 DEF IInv, Functions
  <1> QED
    BY <1>1, <1>2, StandKeepsIInv

LEMMA KeepKeepsIInv ==
  ASSUME IInv, NEW w \in Workers, Keep(w)
  PROVE  IInv'
  <1>1. /\ pc[w] = "store" /\ stage[w] \in Cached /\ stage[w] \in Stages
        /\ Take(w, w)
        /\ cells' = [cells EXCEPT ![Cell(w)] = IF @ = None THEN w ELSE @]
    BY DEF Keep, Stages
  <1>2. Cell(w) \in Cells
    BY <1>1, CellExists DEF IInv
  <1>3. cells' \in [Cells -> Workers \cup {None, Engine}]
    BY <1>1, <1>2 DEF IInv, Functions
  <1>4. ASSUME NEW s \in Cached
        PROVE  cells'[<<s, None>>] \in Workers \cup {None}
    <2>1. <<s, None>> \in Cells
      BY DEF Cells
    <2> QED
      BY <1>1, <1>2, <2>1 DEF IInv, Functions
  <1>5. ASSUME NEW c \in Cells, NEW v \in Workers, seen[v][c] # None
        PROVE  cells'[c] = cells[c]
    <2>1. seen[v][c] = cells[c]
      BY <1>5 DEF IInv, Kept
    <2> QED
      BY <1>1, <1>2, <1>5, <2>1 DEF IInv, Functions
  <1>6. seen[w][Cell(w)] = None
    BY <1>1, <1>2 DEF IInv, Kept, Filling
  <1> QED
    BY <1>1, <1>3, <1>4, <1>5, <1>6, TakeKeepsIInv

\* An assignment replaces no object that somebody saw settled.
LEMMA AssignKeepsIInv ==
  ASSUME IInv, NEW w \in Workers, Assign(w)
  PROVE  IInv'
  <1>1. /\ pc[w] = "store" /\ stage[w] \in Attributes /\ stage[w] \in Stages
        /\ UNCHANGED <<job, stage, held, seen>>
        /\ pc' = [pc EXCEPT ![w] = "return"]
    BY DEF Assign, Stages
  <1>2. Cell(w) \in Cells /\ Cell(w)[1] \notin Cached
    BY <1>1, CellExists, CellNames DEF IInv, Cell, Attributes, Cached
  <1>3. PICK object \in Workers \cup {Engine} :
            cells' = [cells EXCEPT ![Cell(w)] = object]
    BY DEF Assign
  <1>4. Functions'
    <2>1. ASSUME NEW s \in Cached
          PROVE  cells'[<<s, None>>] = cells[<<s, None>>]
      <3>1. <<s, None>> # Cell(w) /\ <<s, None>> \in Cells
        BY <1>2 DEF Cells
      <3> QED
        BY <1>3, <3>1 DEF IInv, Functions
    <2> QED
      BY <1>1, <1>2, <1>3, <2>1 DEF IInv, Functions
  <1>5. Placed' /\ Ordered'
    BY <1>1 DEF IInv, Functions, Placed, Ordered
  <1>6. Kept'
    <2>1. ASSUME NEW v \in Workers, NEW c \in Cells, Filling(v, c)'
          PROVE  Filling(v, c)
      BY <1>1, <2>1 DEF IInv, Functions, Filling, Cell, CellOf
    <2>2. ASSUME NEW v \in Workers, NEW c \in Cells, seen[v][c] # None
          PROVE  cells'[c] = cells[c]
      <3>1. c # Cell(w)
        BY <1>1, <1>2, <2>2 DEF IInv, Kept, Filling
      <3> QED
        BY <1>3, <3>1 DEF IInv, Functions
    <2> QED
      BY <1>1, <2>1, <2>2 DEF IInv, Kept
  <1>7. LateCallersShare'
    BY <1>1 DEF IInv, LateCallersShare, CellOf
  <1> QED
    BY <1>4, <1>5, <1>6, <1>7 DEF IInv

LEMMA ReturnKeepsIInv ==
  ASSUME IInv, NEW w \in Workers, Return(w)
  PROVE  IInv'
  <1>1. /\ stage[w] \in Attributes /\ stage[w] \in Stages
        /\ stage[w] \notin Cached
        /\ Take(w, cells[Cell(w)]) /\ UNCHANGED cells
    BY DEF Return, IInv, Placed, Stages, Attributes, Cached
  <1>2. Cell(w) \in Cells
    BY <1>1, CellExists DEF IInv
  <1>3. cells[Cell(w)] \in Workers \cup {None, Engine}
    BY <1>2 DEF IInv, Functions
  <1>4. seen[w][Cell(w)] # None => cells[Cell(w)] = seen[w][Cell(w)]
    BY <1>2 DEF IInv, Kept
  <1> QED
    BY <1>1, <1>3, <1>4, TakeKeepsIInv DEF IInv, Functions

LEMMA StepsKeepIInv == IInv /\ [Next]_vars => IInv'
  <1> SUFFICES ASSUME IInv, [Next]_vars PROVE IInv'
    OBVIOUS
  <1>1. CASE UNCHANGED vars
    <2>1. UNCHANGED <<cells, job, stage, pc, held, seen>>
      BY <1>1 DEF vars
    <2>2. Functions' /\ Placed' /\ Ordered'
      BY <2>1 DEF IInv, Functions, Placed, Ordered
    <2>3. Kept'
      BY <2>1 DEF IInv, Kept, Filling, Cell, CellOf
    <2>4. LateCallersShare'
      BY <2>1 DEF IInv, LateCallersShare, CellOf
    <2> QED
      BY <2>2, <2>3, <2>4 DEF IInv
  <1>2. CASE Next
    <2> SUFFICES ASSUME NEW w \in Workers,
                        \/ \E j \in Cached : Begin(w, j)
                        \/ Found(w) \/ Missing(w) \/ Build(w) \/ BuildFails(w)
                        \/ Keep(w) \/ Assign(w) \/ Return(w)
                        \/ Post(w) \/ Retrieve(w) \/ Request(w) \/ Read(w)
                 PROVE  IInv'
      BY <1>2 DEF Next
    <2>1. CASE \E j \in Cached : Begin(w, j)
      BY <2>1, BeginKeepsIInv
    <2>2. CASE Found(w)
      BY <2>2, FoundKeepsIInv
    <2>3. CASE Missing(w)
      BY <2>3, MissingKeepsIInv
    <2>4. CASE Build(w)
      BY <2>4, BuildKeepsIInv
    <2>5. CASE BuildFails(w)
      BY <2>5, EndKeepsIInv DEF BuildFails
    <2>6. CASE Keep(w)
      BY <2>6, KeepKeepsIInv
    <2>7. CASE Assign(w)
      BY <2>7, AssignKeepsIInv
    <2>8. CASE Return(w)
      BY <2>8, ReturnKeepsIInv
    <2>9. CASE Post(w) \/ Retrieve(w) \/ Request(w) \/ Read(w)
      BY <2>9, EndKeepsIInv DEF Post, Retrieve, Request, Read
    <2> QED
      BY <2>1, <2>2, <2>3, <2>4, <2>5, <2>6, <2>7, <2>8, <2>9
  <1> QED
    BY <1>1, <1>2

-----------------------------------------------------------------------------
(* The theorems                                                            *)

\* Whatever the racing first callers do, a call that begins when an object has
\* settled works with it: the service's clients, adapters and compiled graph
\* are one each, once they are there.
THEOREM LateCallersAreServed == Spec => []LateCallersShare
  <1>1. IInv => LateCallersShare
    BY DEF IInv
  <1> QED
    BY Initially, StepsKeepIInv, <1>1, PTL DEF Spec

\* A kept object is never exchanged, and an attribute only by a caller that had
\* found it empty.
LEMMA StepsSettle ==
  ASSUME IInv, [Next]_vars, NEW c \in Cells, cells[c] # None,
         c[1] \in Cached \/ \A w \in Workers : ~Filling(w, c)
  PROVE  cells'[c] = cells[c]
  <1>1. CASE cells' = cells
    BY <1>1
  <1>2. CASE \E w \in Workers : Keep(w)
    <2>1. PICK w \in Workers : Keep(w)
      BY <1>2
    <2> QED
      BY <2>1 DEF Keep, IInv, Functions
  <1>3. CASE \E w \in Workers : Assign(w)
    <2>1. PICK w \in Workers : Assign(w)
      BY <1>3
    <2>2. Cell(w)[1] \notin Cached
      BY <2>1, CellNames DEF Assign, Cell, Attributes, Cached
    <2>3. Filling(w, Cell(w))
      BY <2>1 DEF Assign, Filling
    <2>4. c # Cell(w)
      BY <2>2, <2>3
    <2> QED
      BY <2>1, <2>4 DEF Assign, IInv, Functions
  <1> QED
    BY <1>1, <1>2, <1>3
    DEF Next, vars, Begin, Found, Take, Missing, Build, BuildFails, End, Return,
        Post, Retrieve, Request, Read

THEOREM SharedObjectsAreKept == Spec => SharedObjectsSettle
  <1>1. ASSUME IInv, [Next]_vars
        PROVE  [\A c \in Cells :
                  (cells[c] # None
                   /\ (c[1] \in Cached \/ \A w \in Workers : ~Filling(w, c)))
                      => cells'[c] = cells[c]]_vars
    BY <1>1, StepsSettle
  <1> QED
    BY Initially, StepsKeepIInv, <1>1, PTL DEF Spec, SharedObjectsSettle

-----------------------------------------------------------------------------
(* Types                                                                   *)

Counts(r) ==
    r.kind = "completed" =>
        /\ r.prompt_tokens \in Nat \cup {None}
        /\ r.completion_tokens \in Nat \cup {None}

\* The conjuncts of TypeOK that IInv does not give.
Reported ==
    /\ config \in Config
    /\ calls \in 0..CallLimit
    /\ DOMAIN result = Workers
    /\ \A w \in Workers : result[w] # None => Counts(result[w])

\* A count is believed only when it is a natural number.
LEMMA TokenCount ==
  ASSUME NEW value \in RawCounts
  PROVE  _token_count(value) \in Nat \cup {None}
  BY ProvidersAssumption DEF _token_count

LEMMA CompletionCounts ==
  ASSUME NEW r \in ModelReplies
  PROVE  Counts(Completion(r))
  <1>1. CASE r.kind = "text"
    <2>1. r.prompt \in RawCounts /\ r.completion \in RawCounts
      BY <1>1 DEF ModelReplies
    <2>2. Completion(r) =
            [kind |-> "completed",
             prompt_tokens |-> IF r.usage THEN _token_count(r.prompt) ELSE None,
             completion_tokens |->
                IF r.usage THEN _token_count(r.completion) ELSE None]
      BY <1>1 DEF Completion
    <2>3. /\ Completion(r).prompt_tokens \in Nat \cup {None}
          /\ Completion(r).completion_tokens \in Nat \cup {None}
      BY <2>1, <2>2, TokenCount
    <2> QED
      BY <2>3 DEF Counts
  <1>2. CASE r.kind # "text"
    BY <1>2 DEF Completion, Counts
  <1> QED
    BY <1>1, <1>2

\* A search is no completion, and reports no count.
LEMMA SearchCounts ==
  ASSUME NEW r
  PROVE  /\ Counts(LocalSearch(r))
         /\ Counts(HttpSearch(r))
         /\ Counts(Outage(r))
  BY DEF Counts, LocalSearch, HttpSearch, Outage, Search

LEMMA EndKeepsReported ==
  ASSUME Reported, NEW w \in Workers, NEW r, End(w, r), Counts(r)
  PROVE  Reported'
  <1>1. /\ result' = [result EXCEPT ![w] = r]
        /\ UNCHANGED <<config, calls>>
    BY DEF End
  <1>2. DOMAIN result' = Workers
    BY <1>1 DEF Reported
  <1>3. ASSUME NEW v \in Workers, result'[v] # None
        PROVE  Counts(result'[v])
    BY <1>1, <1>3 DEF Reported
  <1> QED
    BY <1>1, <1>2, <1>3 DEF Reported

LEMMA StepsKeepReported ==
  ASSUME Reported, [Next]_vars
  PROVE  Reported'
  <1>1. CASE UNCHANGED <<config, calls, result>>
    BY <1>1 DEF Reported
  <1>2. ASSUME NEW w \in Workers, NEW j \in Cached, Begin(w, j)
        PROVE  Reported'
    <2>1. /\ result' = [result EXCEPT ![w] = None]
          /\ config' = config
          /\ calls' \in 0..CallLimit
      BY <1>2, ProvidersAssumption DEF Begin, Reported
    <2>2. DOMAIN result' = Workers
      BY <2>1 DEF Reported
    <2>3. ASSUME NEW v \in Workers, result'[v] # None
          PROVE  Counts(result'[v])
      BY <2>1, <2>3 DEF Reported
    <2> QED
      BY <2>1, <2>2, <2>3 DEF Reported
  <1>3. ASSUME NEW w \in Workers, NEW object, Take(w, object)
        PROVE  Reported'
    BY <1>1, <1>3 DEF Take
  <1>4. ASSUME NEW w \in Workers, Build(w)
        PROVE  Reported'
    BY <1>1, <1>4 DEF Build
  <1>5. ASSUME NEW w \in Workers, BuildFails(w)
        PROVE  Reported'
    <2>1. Counts([kind |-> "LLMProviderError"])
      BY DEF Counts
    <2> QED
      BY <1>5, <2>1, SearchCounts, EndKeepsReported DEF BuildFails
  <1>6. ASSUME NEW w \in Workers, Post(w) \/ Retrieve(w) \/ Request(w) \/ Read(w)
        PROVE  Reported'
    <2>1. Counts([kind |-> "read"])
      BY DEF Counts
    <2> QED
      BY <1>6, <2>1, CompletionCounts, SearchCounts, EndKeepsReported
      DEF Post, Retrieve, Request, Read
  <1>7. ASSUME NEW w \in Workers, Found(w) \/ Missing(w) \/ Assign(w)
        PROVE  Reported'
    <2>1. CASE UNCHANGED <<config, calls, result>>
      BY <2>1, <1>1
    <2>2. CASE \E object : Take(w, object)
      BY <2>2, <1>3
    <2> QED
      BY <1>7, <2>1, <2>2 DEF Found, Missing, Assign
  <1>8. ASSUME NEW w \in Workers, Keep(w) \/ Return(w)
        PROVE  Reported'
    BY <1>3, <1>8 DEF Keep, Return
  <1>9. CASE UNCHANGED vars
    BY <1>9, <1>1 DEF vars
  <1> QED
    BY <1>2, <1>4, <1>5, <1>6, <1>7, <1>8, <1>9 DEF Next

LEMMA TypesFollow == IInv /\ Reported => TypeOK
  BY DEF IInv, Functions, Reported, Counts, TypeOK, Stages

\* Every count of tokens that is reported is a natural number or nothing.
THEOREM ProvidersTypeCorrect == Spec => []TypeOK
  <1>1. Init => Reported
    BY ProvidersAssumption DEF Init, Reported
  <1>2. Reported /\ [Next]_vars => Reported'
    BY StepsKeepReported
  <1> QED
    BY Initially, StepsKeepIInv, <1>1, <1>2, TypesFollow, PTL DEF Spec

-----------------------------------------------------------------------------
(* What a search tells                                                     *)

\* A call reaches the retrieval module only when the settings choose it, and
\* the retrieval service only when they do not.
Routed ==
    \A w \in Workers :
        /\ stage[w] \in {"module", "retrieve"} => config.rag = "local"
        /\ stage[w] = "request" => config.rag # "local"

\* LabelsTellTheSide and EmptyIsUpstreams, of one result.
Labelled(r) ==
    \A h \in r.hits :
        LET known == /\ h.scored /\ config.backend \in {"light", "full"}
                     /\ ModeOf(r.reply, h) \in Modes
        IN  /\ ~known => h.label = None
            /\ known /\ Told(r.reply, h) => h.label = SideLabel(h.of)

Upstreams(r) ==
    (r.kind = "answered" /\ r.hits = {}) =>
        r.reply.kind \in {"refused", "nothing"} \cup NoSource

Truthful(r) ==
    r.kind \in {"answered", "outage", "raised"} => Labelled(r) /\ Upstreams(r)

TruthIInv ==
    /\ Functions
    /\ DOMAIN result = Workers
    /\ Routed
    /\ \A w \in Workers : result[w] # None => Truthful(result[w])

\* What describe_score makes of a fragment that was found in a mode.
LEMMA SideIsInferred ==
  ASSUME NEW f \in Fragments, NEW mode \in Modes, f \in FragmentsIn(mode),
         NEW candidate \in BOOLEAN, config.backend \in {"light", "full"},
         mode = "hybrid" => candidate /\ (f.source # "unlabelled" \/ f.ranked)
  PROVE  describe_score(mode, candidate /\ has_vector_component(f.source, f.ranked),
                        config.backend) = SideLabel(f)
  <1>1. f \in FragmentShape
    BY ProvidersAssumption
  <1>2. CASE mode \in {"lexical", "vector"}
    BY <1>1, <1>2 DEF FragmentsIn, describe_score, SideLabel, Modes
  <1>3. CASE mode = "hybrid"
    <2>1. candidate /\ has_vector_component(f.source, f.ranked) <=> f.side = "vector"
      BY <1>1, <1>3 DEF FragmentShape, has_vector_component
    <2> QED
      BY <1>3, <2>1 DEF describe_score, SideLabel, Modes
  <1> QED
    BY <1>2, <1>3 DEF Modes

\* A score of an unknown mode, or of an unknown backend, is not labelled.
LEMMA UnknownIsUnlabelled ==
  ASSUME NEW mode, NEW vector,
         mode \notin Modes \/ config.backend \notin {"light", "full"}
  PROVE  describe_score(mode, vector, config.backend) = None
  BY DEF describe_score

LEMMA OutageIsTruthful ==
  ASSUME NEW r
  PROVE  Truthful(Outage(r))
  BY DEF Truthful, Labelled, Upstreams, Outage, Search

LEMMA LocalSearchIsTruthful ==
  ASSUME NEW r \in EngineReplies, config.rag = "local"
  PROVE  Truthful(LocalSearch(r))
  <1>1. CASE r.kind = "raises"
    BY <1>1, OutageIsTruthful DEF LocalSearch
  <1>2. CASE r.kind \in {"nothing", "malformed"}
    BY <1>2 DEF LocalSearch, Truthful, Labelled, Upstreams, Search
  <1>3. CASE r.kind \notin {"raises", "nothing", "malformed"}
    <2> DEFINE hit == LocalHit(r.mode, r.of, r.candidate, r.scored)
               vector == r.candidate /\ has_vector_component(r.of.source, r.of.ranked)
    <2>1. /\ r.mode \in Modes \cup {"unknown"}
          /\ r.of \in FragmentsIn(r.mode) /\ r.of \in Fragments
          /\ r.scored \in BOOLEAN /\ r.candidate \in BOOLEAN
      BY <1>3 DEF EngineReplies, FragmentsIn
    <2>2. /\ LocalSearch(r).kind = "answered"
          /\ LocalSearch(r).hits = {hit}
          /\ LocalSearch(r).reply = r
      BY <1>3 DEF LocalSearch, Search
    <2>3. /\ hit.scored = r.scored /\ hit.of = r.of
          /\ r.scored => hit.label = describe_score(r.mode, vector, config.backend)
          /\ ~r.scored => hit.label = None
      BY DEF LocalHit, Hit
    <2>4. ModeOf(r, hit) = r.mode
      BY DEF ModeOf
    <2>5. ASSUME ~(/\ hit.scored /\ config.backend \in {"light", "full"}
                   /\ ModeOf(r, hit) \in Modes)
          PROVE  hit.label = None
      BY <2>1, <2>3, <2>4, <2>5, UnknownIsUnlabelled
    <2>6. ASSUME hit.scored, config.backend \in {"light", "full"},
                 ModeOf(r, hit) \in Modes, Told(r, hit)
          PROVE  hit.label = SideLabel(hit.of)
      <3>1. r.mode = "hybrid"
               => r.candidate /\ (r.of.source # "unlabelled" \/ r.of.ranked)
        BY <2>3, <2>4, <2>6 DEF Told
      <3>2. describe_score(r.mode, vector, config.backend) = SideLabel(r.of)
        BY <2>1, <2>4, <2>6, <3>1, SideIsInferred
      <3> QED
        BY <2>3, <2>6, <3>2
    <2> HIDE DEF hit, vector
    <2> QED
      BY <2>2, <2>5, <2>6 DEF Truthful, Labelled, Upstreams
  <1> QED
    BY <1>1, <1>2, <1>3

LEMMA HttpSearchIsTruthful ==
  ASSUME NEW r \in ServiceReplies, config.rag # "local"
  PROVE  Truthful(HttpSearch(r))
  <1>1. CASE r.kind \in {"other_error", "no_list"}
    BY <1>1 DEF HttpSearch, Truthful, Labelled, Upstreams, Search
  <1>2. CASE r.kind \in {"http_error", "bad_status", "no_json", "no_object"}
    BY <1>2, OutageIsTruthful DEF HttpSearch, NoSource
  <1>3. CASE r.kind \in {"refused"} \cup NoSource
    BY <1>3 DEF HttpSearch, NoSource, Truthful, Labelled, Upstreams, Search
  <1>4. CASE r.kind = "source"
    <2> DEFINE hit == HttpHit(r.of, r.scored)
               mode == _mode_from_retrieval_source(r.of.source)
               vector == has_vector_component(r.of.source, r.of.ranked)
    <2>1. /\ r.of \in Fragments /\ r.of \in FragmentShape /\ r.scored \in BOOLEAN
      BY <1>4, ProvidersAssumption DEF ServiceReplies
    <2>2. /\ HttpSearch(r).kind = "answered"
          /\ HttpSearch(r).hits = {hit}
          /\ HttpSearch(r).reply = r
      BY <1>4 DEF HttpSearch, NoSource, Search
    <2>3. /\ hit.scored = r.scored /\ hit.of = r.of
          /\ r.scored => hit.label = describe_score(mode, vector, config.backend)
          /\ ~r.scored => hit.label = None
      BY DEF HttpHit, Hit
    <2>4. ModeOf(r, hit) = mode
      BY <2>3 DEF ModeOf
    <2>5. ASSUME ~(/\ hit.scored /\ config.backend \in {"light", "full"}
                   /\ ModeOf(r, hit) \in Modes)
          PROVE  hit.label = None
      <3>1. ~r.scored \/ mode \notin Modes \/ config.backend \notin {"light", "full"}
        BY <2>3, <2>4, <2>5
      <3> HIDE DEF mode, vector, hit
      <3> QED
        BY <2>1, <2>3, <3>1, UnknownIsUnlabelled
    <2>6. ASSUME hit.scored, config.backend \in {"light", "full"},
                 ModeOf(r, hit) \in Modes
          PROVE  hit.label = SideLabel(hit.of)
      <3>1. r.of.source \in Modes /\ mode = r.of.source
        BY <2>4, <2>6 DEF _mode_from_retrieval_source, Modes
      <3>2. r.of \in FragmentsIn(mode) /\ r.of.source # "unlabelled"
        BY <2>1, <3>1 DEF FragmentShape, FragmentsIn, Modes
      <3>3. vector \in BOOLEAN
        BY <2>1 DEF has_vector_component, FragmentShape
      <3>4. describe_score(mode, TRUE /\ vector, config.backend) = SideLabel(r.of)
        BY <2>1, <2>6, <3>1, <3>2, SideIsInferred
      <3>5. (TRUE /\ vector) = vector
        BY <3>3
      <3> QED
        BY <2>3, <2>6, <3>4, <3>5
    <2> HIDE DEF hit, mode, vector
    <2> QED
      BY <2>2, <2>5, <2>6 DEF Truthful, Labelled, Upstreams
  <1>5. r.kind \in {"http_error", "other_error", "bad_status", "no_json",
                    "no_object", "refused", "source", "no_list"} \cup NoSource
    BY DEF ServiceReplies, NoSource
  <1> QED
    BY <1>1, <1>2, <1>3, <1>4, <1>5

\* A completion is no search.
LEMMA CompletionIsTruthful ==
  ASSUME NEW r
  PROVE  Truthful(Completion(r))
  BY DEF Truthful, Completion

LEMMA EndKeepsTruth ==
  ASSUME TruthIInv, Functions', NEW w \in Workers, NEW r, End(w, r), Truthful(r)
  PROVE  TruthIInv'
  <1>1. /\ result' = [result EXCEPT ![w] = r]
        /\ UNCHANGED <<config, stage>>
    BY DEF End
  <1>2. DOMAIN result' = Workers /\ Routed'
    BY <1>1 DEF TruthIInv, Routed
  <1>3. ASSUME NEW v \in Workers, result'[v] # None
        PROVE  Truthful(result'[v])
    BY <1>1, <1>3 DEF TruthIInv
  <1>4. \A x : Truthful(x)' <=> Truthful(x)
    BY <1>1
       DEF Truthful, Labelled, Upstreams, ModeOf, Told, SideLabel
  <1> QED
    BY <1>1, <1>2, <1>3, <1>4
       DEF TruthIInv, Truthful, Labelled, Upstreams, ModeOf, Told, SideLabel

LEMMA TakeKeepsTruth ==
  ASSUME TruthIInv, Functions', NEW w \in Workers, NEW object, Take(w, object),
         stage[w] \in Cached \cup Attributes
  PROVE  TruthIInv'
  <1>1. /\ UNCHANGED <<config, result>>
        /\ stage' = [stage EXCEPT ![w] = After(w)]
    BY DEF Take
  <1>2. /\ After(w) \in {"module", "retrieve"} => config.rag = "local"
        /\ After(w) = "request" => config.rag # "local"
    BY DEF After, TruthIInv, Functions, Routed, Cached, Attributes
  <1>3. Routed'
    BY <1>1, <1>2 DEF Routed, TruthIInv, Functions
  <1> QED
    BY <1>1, <1>3
       DEF TruthIInv, Truthful, Labelled, Upstreams, ModeOf, Told, SideLabel

LEMMA StepsKeepTruth ==
  ASSUME TruthIInv, Functions', Placed, [Next]_vars
  PROVE  TruthIInv'
  <1>1. CASE UNCHANGED <<config, stage, result>>
    BY <1>1
       DEF TruthIInv, Routed, Truthful, Labelled, Upstreams, ModeOf, Told, SideLabel
  <1>2. ASSUME NEW w \in Workers, NEW j \in Cached, Begin(w, j)
        PROVE  TruthIInv'
    <2>1. /\ result' = [result EXCEPT ![w] = None]
          /\ stage' = [stage EXCEPT ![w] = "graph"]
          /\ config' = config
      BY <1>2 DEF Begin
    <2>2. DOMAIN result' = Workers /\ Routed'
      BY <2>1 DEF TruthIInv, Functions, Routed
    <2>3. ASSUME NEW v \in Workers, result'[v] # None
          PROVE  Truthful(result'[v])
      BY <2>1, <2>3 DEF TruthIInv
    <2> QED
      BY <2>1, <2>2, <2>3
         DEF TruthIInv, Truthful, Labelled, Upstreams, ModeOf, Told, SideLabel
  <1>3. ASSUME NEW w \in Workers, BuildFails(w)
        PROVE  TruthIInv'
    <2>1. Truthful([kind |-> "LLMProviderError"])
      BY DEF Truthful
    <2> QED
      BY <1>3, <2>1, OutageIsTruthful, EndKeepsTruth DEF BuildFails
  <1>4. ASSUME NEW w \in Workers, Post(w) \/ Retrieve(w) \/ Request(w) \/ Read(w)
        PROVE  TruthIInv'
    <2>1. CASE Post(w)
      BY <2>1, CompletionIsTruthful, EndKeepsTruth DEF Post
    <2>2. CASE Retrieve(w)
      <3>1. config.rag = "local"
        BY <2>2 DEF Retrieve, Ready, TruthIInv, Routed
      <3> QED
        BY <2>2, <3>1, LocalSearchIsTruthful, EndKeepsTruth DEF Retrieve
    <2>3. CASE Request(w)
      <3>1. config.rag # "local"
        BY <2>3 DEF Request, Ready, TruthIInv, Routed
      <3> QED
        BY <2>3, <3>1, HttpSearchIsTruthful, EndKeepsTruth DEF Request
    <2>4. CASE Read(w)
      <3>1. Truthful([kind |-> "read"])
        BY DEF Truthful
      <3> QED
        BY <2>4, <3>1, EndKeepsTruth DEF Read
    <2> QED
      BY <1>4, <2>1, <2>2, <2>3, <2>4
  <1>5. ASSUME NEW w \in Workers,
               Found(w) \/ Missing(w) \/ Build(w) \/ Keep(w) \/ Assign(w) \/ Return(w)
        PROVE  TruthIInv'
    <2>1. CASE UNCHANGED <<config, stage, result>>
      BY <2>1, <1>1
    <2>2. CASE \E object : Take(w, object) /\ stage[w] \in Cached \cup Attributes
      BY <2>2, TakeKeepsTruth
    <2>3. pc[w] = "return" => stage[w] \in Attributes
      BY DEF Placed
    <2> QED
      BY <1>5, <2>1, <2>2, <2>3 DEF Found, Missing, Build, Keep, Assign, Return
  <1>6. CASE UNCHANGED vars
    BY <1>6, <1>1 DEF vars
  <1> QED
    BY <1>2, <1>3, <1>4, <1>5, <1>6 DEF Next

LEMMA TruthInvariant == Spec => []TruthIInv
  <1>1. Init => TruthIInv
    <2> SUFFICES ASSUME Init PROVE TruthIInv
      OBVIOUS
    <2>1. Functions
      BY Initially DEF IInv
    <2> QED
      BY <2>1 DEF Init, TruthIInv, Routed
  <1>2. IInv /\ IInv' /\ TruthIInv /\ [Next]_vars => TruthIInv'
    BY StepsKeepTruth DEF IInv
  <1> QED
    BY Initially, StepsKeepIInv, <1>1, <1>2, PTL DEF Spec

\* Whatever the retrieval engine or the service replies, for every set of
\* fragments: the label of a score names the side the score came from, wherever
\* mode or fragment tell it, and what is not told of mode or backend is not
\* labelled.
THEOREM LabelsNameTheSide == Spec => []LabelsTellTheSide
  <1>1. TruthIInv => LabelsTellTheSide
    BY DEF TruthIInv, LabelsTellTheSide, Searched, Truthful, Labelled
  <1> QED
    BY <1>1, TruthInvariant, PTL

\* No outage reads as an empty answer: settings that describe no provider, a
\* missing module, an error status, a body that is no JSON object.
THEOREM EmptyAnswersAreUpstreams == Spec => []EmptyIsUpstreams
  <1>1. TruthIInv => EmptyIsUpstreams
    BY DEF TruthIInv, EmptyIsUpstreams, Searched, Truthful, Upstreams
  <1> QED
    BY <1>1, TruthInvariant, PTL

=============================================================================
