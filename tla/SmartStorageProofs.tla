-------------------------- MODULE SmartStorageProofs --------------------------
(***************************************************************************)
(* For every number of workers, slots, ranks and objects, and any number   *)
(* of generations: no thread uses an object that was deleted, and every    *)
(* object that is not deleted is still referred to.  The heart of it is    *)
(* that a count is the number of the pointers that hold the object, plus   *)
(* the threads that have counted it and not yet stored its address.        *)
(***************************************************************************)
EXTENDS SmartStorage, FiniteSetTheorems, TLAPS

Kinds == {"copy", "assign", "destroy", "make", "check"}
OperationSet == [what : Kinds, lhs : Pointer, rhs : Pointer]

(***************************************************************************)
(* The pointers a thread writes while it runs, and those it copies.        *)
(***************************************************************************)
Own(t) == {Argument(t), Child(t)}
Buffer == {InBuffer(s) : s \in Slot}
Ranked == {InPopulation(r) : r \in Rank}
Writable(t) ==
    Own(t) \cup IF t = Control THEN Buffer \cup Ranked \cup {Best}
                ELSE {InBuffer(s) : s \in Share[t]}
Readable(t) == Own(t) \cup {NullPtr} \cup Ranked \cup IF t = Control THEN Buffer ELSE {}

LEMMA PointersApart ==
    /\ \A r : InPopulation(r) = <<"population", r>>
    /\ \A s : InBuffer(s) = <<"buffer", s>>
    /\ \A t : Argument(t) = <<"argument", t>> /\ Child(t) = <<"child", t>>
    /\ Best = <<"best", None>> /\ NullPtr = <<"null", None>>
  BY DEF InPopulation, InBuffer, Argument, Child, Best, NullPtr

LEMMA PointerTypes ==
    /\ \A r \in Rank : InPopulation(r) \in Pointer
    /\ \A s \in Slot : InBuffer(s) \in Pointer
    /\ Best \in Pointer /\ NullPtr \in Pointer
    /\ \A t \in Thread : Argument(t) \in Pointer /\ Child(t) \in Pointer
  BY DEF Pointer

LEMMA ThreadTypes ==
    /\ \A t \in Thread : Writable(t) \subseteq Pointer /\ Readable(t) \subseteq Pointer
    /\ Control \in Thread /\ Worker \subseteq Thread /\ Control \notin Worker
    /\ \A w \in Worker : Share[w] \subseteq Slot
  <1>1. /\ Control \in Thread /\ Worker \subseteq Thread /\ Control \notin Worker
        /\ \A w \in Worker : Share[w] \subseteq Slot
    BY ThreadAssumption, ShareAssumption DEF Thread
  <1>2. ASSUME NEW t \in Thread PROVE Own(t) \subseteq Pointer
    BY PointerTypes DEF Own
  <1>3. Buffer \subseteq Pointer /\ Ranked \subseteq Pointer
    BY PointerTypes DEF Buffer, Ranked
  <1>4. ASSUME NEW t \in Thread PROVE Writable(t) \subseteq Pointer
    <2>1. CASE t = Control
      BY <2>1, <1>2, <1>3, PointerTypes DEF Writable
    <2>2. CASE t # Control
      <3>1. t \in Worker
        BY <2>2 DEF Thread
      <3>2. {InBuffer(s) : s \in Share[t]} \subseteq Pointer
        BY <3>1, <1>1, PointerTypes
      <3> QED
        BY <2>2, <3>2, <1>2 DEF Writable
    <2> QED
      BY <2>1, <2>2
  <1>5. ASSUME NEW t \in Thread PROVE Readable(t) \subseteq Pointer
    BY <1>2, <1>3, PointerTypes DEF Readable
  <1> QED
    BY <1>1, <1>4, <1>5

\* A worker writes nothing that another worker writes or copies.
LEMMA WorkersApart ==
    ASSUME NEW v \in Worker, NEW w \in Worker, v # w, NEW p \in Writable(v)
    PROVE  p \notin Writable(w) /\ p \notin Readable(w)
  <1>1. v # Control /\ w # Control
    BY ThreadTypes
  <1>2. Share[v] \cap Share[w] = {}
    BY ShareAssumption
  <1>3. p \in {<<"argument", v>>, <<"child", v>>} \/ \E s \in Share[v] : p = <<"buffer", s>>
    BY <1>1, PointersApart DEF Writable, Own
  <1>4. Writable(w) = {<<"argument", w>>, <<"child", w>>} \cup {<<"buffer", s>> : s \in Share[w]}
    BY <1>1, PointersApart DEF Writable, Own
  <1>5. Readable(w) = {<<"argument", w>>, <<"child", w>>, <<"null", None>>} \cup {<<"population", r>> : r \in Rank}
    BY <1>1, PointersApart DEF Readable, Own, Ranked
  <1> QED
    BY <1>2, <1>3, <1>4, <1>5

\* The two variables of a thread are written and copied by no other.
LEMMA OwnApart ==
    ASSUME NEW t \in Thread, NEW u \in Thread, t # u, NEW p \in Own(t)
    PROVE  p \notin Writable(u)
  <1>1. p \in {<<"argument", t>>, <<"child", t>>}
    BY PointersApart DEF Own
  <1>2. ASSUME NEW x \in Writable(u)
        PROVE  \/ x \in {<<"argument", u>>, <<"child", u>>, <<"best", None>>}
               \/ \E s : x = <<"buffer", s>>
               \/ \E r : x = <<"population", r>>
    BY PointersApart DEF Writable, Own, Buffer, Ranked
  <1> QED
    BY <1>1, <1>2

-----------------------------------------------------------------------------
(***************************************************************************)
(* Programs.  What a thread has still to do, with the own variables that   *)
(* hold nothing before each of the operations; at its end both do.  A      *)
(* pointer that is constructed holds nothing, and no operation that counts *)
(* copies a pointer to itself.                                             *)
(***************************************************************************)
Sound(t, op, before, after) ==
    /\ op.lhs \in Writable(t) /\ op.rhs \in Readable(t)
    /\ after \subseteq IF op.what = "destroy" THEN before \cup {op.lhs} ELSE before
    /\ op.what \in {"copy", "make"} => op.lhs \in before
    /\ op.what \in {"copy", "make", "assign"} => op.lhs \notin after /\ op.lhs # op.rhs
    /\ op.what = "check" => t \in Worker

Program(t, S, E) ==
    /\ S \in Seq(OperationSet)
    /\ E \in [1 .. Len(S) + 1 -> SUBSET Own(t)]
    /\ E[Len(S) + 1] = Own(t)
    /\ \A k \in 1 .. Len(S) : Sound(t, S[k], E[k], E[k + 1])

LEMMA EmptyProgram ==
    ASSUME NEW t
    PROVE  \E E : Program(t, <<>>, E) /\ E[1] = Own(t)
  <1>1. Program(t, <<>>, [k \in 1 .. 1 |-> Own(t)])
    BY DEF Program
  <1> QED
    BY <1>1

LEMMA ProgramHead ==
    ASSUME NEW t, NEW S, NEW E, Program(t, S, E), S # <<>>
    PROVE  /\ Head(S) \in OperationSet
           /\ Sound(t, Head(S), E[1], E[2])
           /\ E[1] \subseteq Own(t) /\ E[2] \subseteq Own(t)
  <1>1. S \in Seq(OperationSet) /\ Len(S) \in Nat \ {0} /\ Head(S) = S[1]
    BY DEF Program
  <1>2. 1 \in 1 .. Len(S) /\ 1 \in 1 .. Len(S) + 1 /\ 2 \in 1 .. Len(S) + 1
    BY <1>1
  <1>3. Sound(t, S[1], E[1], E[1 + 1])
    BY <1>2 DEF Program
  <1>4. E[1] \in SUBSET Own(t) /\ E[2] \in SUBSET Own(t)
    BY <1>2 DEF Program
  <1> QED
    BY <1>1, <1>2, <1>3, <1>4

LEMMA ProgramTail ==
    ASSUME NEW t, NEW S, NEW E, Program(t, S, E), S # <<>>
    PROVE  LET F == [k \in 1 .. Len(Tail(S)) + 1 |-> E[k + 1]] IN
           Program(t, Tail(S), F) /\ F[1] = E[2]
  <1> DEFINE n == Len(S)
             F == [k \in 1 .. Len(Tail(S)) + 1 |-> E[k + 1]]
  <1>1. S \in Seq(OperationSet) /\ n \in Nat \ {0}
    BY DEF Program
  <1>2. /\ Tail(S) \in Seq(OperationSet) /\ Len(Tail(S)) = n - 1
        /\ \A k \in 1 .. n - 1 : Tail(S)[k] = S[k + 1]
    BY <1>1
  <1>3. F = [k \in 1 .. n |-> E[k + 1]]
    BY <1>1, <1>2
  <1>4. /\ E \in [1 .. n + 1 -> SUBSET Own(t)] /\ E[n + 1] = Own(t)
        /\ \A k \in 1 .. n : Sound(t, S[k], E[k], E[k + 1])
    BY DEF Program
  <1> HIDE DEF n, F
  <1>5. F \in [1 .. n -> SUBSET Own(t)] /\ F[n] = Own(t) /\ F[1] = E[2]
    BY <1>1, <1>3, <1>4
  <1>6. ASSUME NEW k \in 1 .. n - 1 PROVE Sound(t, Tail(S)[k], F[k], F[k + 1])
    <2>1. k + 1 \in 1 .. n /\ F[k] = E[k + 1] /\ F[k + 1] = E[(k + 1) + 1] /\ Tail(S)[k] = S[k + 1]
      BY <1>1, <1>2, <1>3
    <2>2. Sound(t, S[k + 1], E[k + 1], E[(k + 1) + 1])
      BY <2>1, <1>4
    <2> QED
      BY <2>1, <2>2
  <1>7. (n - 1) + 1 = n
    BY <1>1
  <1> QED
    BY <1>2, <1>5, <1>6, <1>7 DEF Program, F

\* The four scripts are programs.
LEMMA OperationTypes ==
    ASSUME NEW t \in Thread, NEW lhs \in Writable(t), NEW rhs \in Readable(t)
    PROVE  /\ CopyConstructor(lhs, rhs) \in OperationSet
           /\ Assign(lhs, rhs) \in OperationSet
           /\ Operation("make", lhs, rhs) \in OperationSet
           /\ Operation("check", lhs, rhs) \in OperationSet
           /\ Destructor(lhs) \in OperationSet
  <1>1. lhs \in Pointer /\ rhs \in Pointer /\ NullPtr \in Pointer
    BY ThreadTypes, PointerTypes
  <1> QED
    BY <1>1 DEF CopyConstructor, Assign, Destructor, Operation, OperationSet, Kinds

LEMMA OwnUse ==
    ASSUME NEW t \in Thread
    PROVE  /\ Argument(t) \in Writable(t) /\ Argument(t) \in Readable(t)
           /\ Child(t) \in Writable(t) /\ Child(t) \in Readable(t)
           /\ NullPtr \in Readable(t)
           /\ \A r \in Rank : InPopulation(r) \in Readable(t)
           /\ Argument(t) # Child(t)
           /\ Own(t) = {Argument(t), Child(t)}
           /\ \A s, r : /\ InBuffer(s) \notin Own(t) /\ InPopulation(r) \notin Own(t)
                        /\ InBuffer(s) # NullPtr /\ InBuffer(s) # InPopulation(r)
           /\ Best \notin Own(t)
           /\ \A r : Best # InPopulation(r)
           /\ Argument(t) # NullPtr /\ Child(t) # NullPtr
  BY PointersApart DEF Writable, Readable, Own, Ranked

LEMMA WorkerProgram ==
    ASSUME NEW w \in Worker, NEW r \in Rank, NEW s \in Share[w], NEW duplicate \in BOOLEAN
    PROVE  \E E : Program(w, ProduceOffspring(w, r, s, duplicate), E) /\ E[1] = Own(w)
  <1> DEFINE S == ProduceOffspring(w, r, s, duplicate)
             rhs == IF duplicate THEN NullPtr ELSE Child(w)
             E == <<Own(w), {Child(w)}, {}, {Argument(w)}, {Argument(w)}, {Argument(w)}, Own(w)>>
  <1>1. w \in Thread /\ w # Control
    BY ThreadTypes
  <1>2. InBuffer(s) \in Writable(w)
    BY <1>1 DEF Writable
  <1>3. rhs \in Readable(w) /\ InBuffer(s) # rhs
    BY <1>1, OwnUse
  <1> HIDE DEF rhs
  <1>4. S = << CopyConstructor(Argument(w), InPopulation(r)),
               Operation("make", Child(w), Argument(w)),
               Destructor(Argument(w)),
               Operation("check", Child(w), Child(w)),
               Assign(InBuffer(s), rhs),
               Destructor(Child(w)) >>
    BY DEF ProduceOffspring, rhs
  <1> HIDE DEF S
  <1>5. S \in Seq(OperationSet) /\ Len(S) = 6
    <2>1. /\ CopyConstructor(Argument(w), InPopulation(r)) \in OperationSet
          /\ Operation("make", Child(w), Argument(w)) \in OperationSet
          /\ Destructor(Argument(w)) \in OperationSet
          /\ Operation("check", Child(w), Child(w)) \in OperationSet
          /\ Destructor(Child(w)) \in OperationSet
      BY <1>1, OwnUse, OperationTypes
    <2>2. Assign(InBuffer(s), rhs) \in OperationSet
      BY <1>1, <1>2, <1>3, OperationTypes
    <2> QED
      BY <2>1, <2>2, <1>4
  <1>6. E \in [1 .. 7 -> SUBSET Own(w)] /\ E[7] = Own(w) /\ E[1] = Own(w)
    BY <1>1, OwnUse
  <1>7. /\ Sound(w, CopyConstructor(Argument(w), InPopulation(r)), Own(w), {Child(w)})
        /\ Sound(w, Operation("make", Child(w), Argument(w)), {Child(w)}, {})
        /\ Sound(w, Destructor(Argument(w)), {}, {Argument(w)})
        /\ Sound(w, Operation("check", Child(w), Child(w)), {Argument(w)}, {Argument(w)})
        /\ Sound(w, Destructor(Child(w)), {Argument(w)}, Own(w))
    BY <1>1, OwnUse DEF Sound, CopyConstructor, Destructor, Operation
  <1>8. Sound(w, Assign(InBuffer(s), rhs), {Argument(w)}, {Argument(w)})
    BY <1>1, <1>2, <1>3, OwnUse DEF Sound, Assign, Operation
  <1>9. ASSUME NEW k \in 1 .. 6 PROVE Sound(w, S[k], E[k], E[k + 1])
    <2>1. k \in {1, 2, 3, 4, 5, 6}
      OBVIOUS
    <2> QED
      BY <2>1, <1>4, <1>7, <1>8
  <1>10. Program(w, S, E)
    BY <1>5, <1>6, <1>9 DEF Program
  <1> QED
    BY <1>6, <1>10 DEF S

LEMMA ControlCopies ==
    ASSUME NEW rhs \in Readable(Control), NEW lhs \in Writable(Control), NEW source \in Readable(Control),
           rhs # Argument(Control), lhs \notin Own(Control), lhs # source
    PROVE  \E E : /\ Program(Control, << CopyConstructor(Argument(Control), rhs),
                                         Assign(lhs, source), Destructor(Argument(Control)) >>, E)
                  /\ E[1] = Own(Control)
  <1> DEFINE t == Control
             S == << CopyConstructor(Argument(t), rhs), Assign(lhs, source), Destructor(Argument(t)) >>
             E == <<Own(t), {Child(t)}, {Child(t)}, Own(t)>>
  <1>1. t \in Thread
    BY ThreadTypes
  <1>2. S \in Seq(OperationSet) /\ Len(S) = 3
    <2>1. CopyConstructor(Argument(t), rhs) \in OperationSet /\ Destructor(Argument(t)) \in OperationSet
      BY <1>1, OwnUse, OperationTypes
    <2>2. Assign(lhs, source) \in OperationSet
      BY <1>1, OperationTypes
    <2> QED
      BY <2>1, <2>2
  <1>3. E \in [1 .. 4 -> SUBSET Own(t)] /\ E[4] = Own(t) /\ E[1] = Own(t)
    BY <1>1, OwnUse
  <1>4. /\ Sound(t, CopyConstructor(Argument(t), rhs), Own(t), {Child(t)})
        /\ Sound(t, Assign(lhs, source), {Child(t)}, {Child(t)})
        /\ Sound(t, Destructor(Argument(t)), {Child(t)}, Own(t))
    BY <1>1, OwnUse DEF Sound, CopyConstructor, Assign, Destructor, Operation
  <1>5. ASSUME NEW k \in 1 .. 3 PROVE Sound(t, S[k], E[k], E[k + 1])
    <2>1. k = 1 \/ k = 2 \/ k = 3
      OBVIOUS
    <2>2. CASE k = 1
      BY <2>2, <1>4
    <2>3. CASE k = 2
      BY <2>3, <1>4
    <2>4. CASE k = 3
      BY <2>4, <1>4
    <2> QED
      BY <2>1, <2>2, <2>3, <2>4
  <1> HIDE DEF S, E
  <1>6. Program(t, S, E)
    BY <1>2, <1>3, <1>5 DEF Program
  <1> QED
    BY <1>3, <1>6 DEF S

LEMMA DuplicateProgram ==
    ASSUME NEW s \in Slot
    PROVE  \E E : Program(Control, RemoveDuplicate(s), E) /\ E[1] = Own(Control)
  <1>1. /\ InBuffer(s) \in Readable(Control) /\ InBuffer(s) \in Writable(Control)
        /\ InBuffer(s) \notin Own(Control) /\ InBuffer(s) # Argument(Control)
        /\ InBuffer(s) # NullPtr /\ NullPtr \in Readable(Control)
    BY ThreadTypes, OwnUse DEF Readable, Writable, Buffer
  <1> QED
    BY <1>1, ControlCopies DEF RemoveDuplicate

LEMMA ReplaceProgram ==
    ASSUME NEW s \in Slot, NEW r \in Rank
    PROVE  \E E : Program(Control, Replace(r, s), E) /\ E[1] = Own(Control)
  <1>1. /\ InBuffer(s) \in Readable(Control) /\ InPopulation(r) \in Writable(Control)
        /\ InPopulation(r) \notin Own(Control) /\ InBuffer(s) # Argument(Control)
        /\ InPopulation(r) # Argument(Control) /\ Argument(Control) \in Readable(Control)
    BY ThreadTypes, OwnUse DEF Readable, Writable, Buffer, Ranked
  <1> QED
    BY <1>1, ControlCopies DEF Replace

LEMMA BestProgram ==
    ASSUME NEW r \in Rank
    PROVE  \E E : Program(Control, <<Assign(Best, InPopulation(r))>>, E) /\ E[1] = Own(Control)
  <1> DEFINE t == Control
             S == <<Assign(Best, InPopulation(r))>>
             E == <<Own(t), Own(t)>>
  <1>1. t \in Thread
    BY ThreadTypes
  <1>2. InPopulation(r) \in Readable(t) /\ Best \in Writable(t)
    BY <1>1, OwnUse DEF Writable
  <1>3. S \in Seq(OperationSet) /\ Len(S) = 1
    BY <1>1, <1>2, OperationTypes
  <1>4. E \in [1 .. 2 -> SUBSET Own(t)] /\ E[2] = Own(t) /\ E[1] = Own(t)
    OBVIOUS
  <1>5. Sound(t, Assign(Best, InPopulation(r)), Own(t), Own(t))
    BY <1>1, <1>2, OwnUse DEF Sound, Assign, Operation
  <1>6. ASSUME NEW k \in 1 .. 1 PROVE Sound(t, S[k], E[k], E[k + 1])
    <2>1. k = 1
      OBVIOUS
    <2> QED
      BY <2>1, <1>5
  <1> HIDE DEF S, E
  <1>7. Program(t, S, E)
    BY <1>3, <1>4, <1>6 DEF Program
  <1> QED
    BY <1>4, <1>7 DEF S

-----------------------------------------------------------------------------
(***************************************************************************)
(* The invariant.                                                          *)
(***************************************************************************)
TypeInv ==
    /\ location \in [Pointer -> Object \cup {None}]
    /\ count \in [Object -> Int]
    /\ live \subseteq Object
    /\ DOMAIN todo = Thread /\ DOMAIN at = Thread
    /\ left \in [Worker -> SUBSET Slot] /\ \A w \in Worker : left[w] \subseteq Share[w]
    /\ working \in BOOLEAN
    /\ plan \in [duplicates : SUBSET Slot, ranks : [Slot -> Rank \cup {None}], best : Rank \cup {None}]

\* Control and the workers do not run together.
RoundInv ==
    /\ working => Idle(Control)
    /\ ~working => \A w \in Worker : Idle(w)

\* Every thread runs a program, and the own variables it counts on hold nothing.
ProgramInv ==
    \A t \in Thread : \E E : Program(t, todo[t], E) /\ \A p \in E[1] : location[p] = None

StageInv ==
    \A t \in Thread :
        \/ at[t] = "start"
        \/ Doing(t, "copy", "counted")
        \/ \E stage \in {"differs", "released", "counted"} : Doing(t, "assign", stage)
        \/ Doing(t, "destroy", "released")

\* The pointers that count for o: those that refer to it, but not the one a
\* thread has released and not yet written, and the one a thread will write.
Changing(t, p) == ~Idle(t) /\ Now(t).lhs = p /\ at[t] \in {"released", "counted"}
Taking(t, p, o) == Stores(t) /\ Now(t).lhs = p /\ New(t) = o
Holders(o) ==
    {p \in Pointer : \/ location[p] = o /\ \A t \in Thread : ~Changing(t, p)
                     \/ \E t \in Thread : Taking(t, p, o)}

CountInv ==
    \A o \in Object :
        /\ count[o] = Cardinality(Holders(o))
        /\ o \in live <=> Holders(o) # {}

StorageInv == TypeInv /\ RoundInv /\ ProgramInv /\ StageInv /\ CountInv

-----------------------------------------------------------------------------
\* What a thread that runs is doing.
LEMMA Running ==
    ASSUME ProgramInv, NEW t \in Thread, ~Idle(t)
    PROVE  /\ Now(t).lhs \in Pointer /\ Now(t).rhs \in Pointer
           /\ Now(t).lhs \in Writable(t) /\ Now(t).rhs \in Readable(t)
           /\ Now(t).what \in Kinds
           /\ Now(t).what \in {"copy", "make"} => location[Now(t).lhs] = None
           /\ Now(t).what \in {"copy", "make", "assign"} => Now(t).lhs # Now(t).rhs
           /\ Now(t).what = "check" => t \in Worker
  <1>1. PICK E : Program(t, todo[t], E) /\ \A p \in E[1] : location[p] = None
    BY DEF ProgramInv
  <1>2. todo[t] # <<>> /\ Now(t) = Head(todo[t])
    BY DEF Idle, Now
  <1>3. Now(t) \in OperationSet /\ Sound(t, Now(t), E[1], E[2])
    BY <1>1, <1>2, ProgramHead
  <1>4. Now(t).what \in Kinds
    BY <1>3 DEF OperationSet
  <1>5. Now(t).lhs \in Pointer /\ Now(t).rhs \in Pointer
    BY <1>3 DEF OperationSet
  <1> QED
    BY <1>1, <1>3, <1>4, <1>5 DEF Sound

\* Two threads that run are both workers: what one writes, the other leaves alone.
LEMMA Apart ==
    ASSUME RoundInv, ProgramInv, NEW t \in Thread, NEW u \in Thread, t # u, ~Idle(t), ~Idle(u)
    PROVE  Now(t).lhs # Now(u).lhs /\ Now(t).lhs # Now(u).rhs
  <1>1. t \in Worker /\ u \in Worker
    BY DEF RoundInv, Thread
  <1>2. Now(t).lhs \notin Writable(u) /\ Now(t).lhs \notin Readable(u)
    BY <1>1, Running, WorkersApart
  <1> QED
    BY <1>2, Running

\* Who changes the pointer that t is working on: t alone.
LEMMA Alone ==
    ASSUME RoundInv, ProgramInv, NEW t \in Thread, ~Idle(t), NEW p \in Pointer, NEW o
    PROVE  /\ p = Now(t).lhs =>
                (p \in Holders(o) <=> \/ location[p] = o /\ at[t] \notin {"released", "counted"}
                                      \/ at[t] = "counted" /\ New(t) = o)
           /\ p = Now(t).rhs /\ p # Now(t).lhs => (location[p] = o => p \in Holders(o))
  <1>1. ASSUME NEW u \in Thread, u # t, ~Idle(u) PROVE Now(u).lhs # Now(t).lhs /\ Now(u).lhs # Now(t).rhs
    BY <1>1, Apart
  <1>2. ASSUME p = Now(t).lhs
        PROVE  p \in Holders(o) <=> \/ location[p] = o /\ at[t] \notin {"released", "counted"}
                                    \/ at[t] = "counted" /\ New(t) = o
    <2>1. \A u \in Thread : Changing(u, p) <=> u = t /\ at[t] \in {"released", "counted"}
      BY <1>1, <1>2 DEF Changing
    <2>2. \A u \in Thread : Taking(u, p, o) <=> u = t /\ at[t] = "counted" /\ New(t) = o
      BY <1>1, <1>2 DEF Taking, Stores
    <2> QED
      BY <2>1, <2>2 DEF Holders
  <1>3. ASSUME p = Now(t).rhs, p # Now(t).lhs, location[p] = o PROVE p \in Holders(o)
    <2>1. \A u \in Thread : ~Changing(u, p)
      BY <1>1, <1>3 DEF Changing
    <2> QED
      BY <2>1, <1>3 DEF Holders
  <1> QED
    BY <1>2, <1>3

-----------------------------------------------------------------------------
(***************************************************************************)
(* What the invariant is for.                                              *)
(***************************************************************************)
LEMMA HeldIsLive ==
    ASSUME StorageInv, NEW p \in Pointer,
           location[p] # None => p \in Holders(location[p])
    PROVE  location[p] \in live \cup {None}
  <1>1. location[p] \in Object \cup {None}
    BY DEF StorageInv, TypeInv
  <1> QED
    BY <1>1 DEF StorageInv, CountInv

LEMMA UsedIsLive ==
    ASSUME StorageInv, NEW t \in Thread
    PROVE  Used(t) \subseteq live \cup {None}
  <1>0. CASE Idle(t)
    BY <1>0 DEF Used, Doing, Releases, Acquires, Stores
  <1> SUFFICES ASSUME ~Idle(t) PROVE Used(t) \subseteq live \cup {None}
    BY <1>0
  <1> DEFINE lhs == Now(t).lhs
             rhs == Now(t).rhs
             what == Now(t).what
  <1>1. /\ lhs \in Pointer /\ rhs \in Pointer /\ what \in Kinds
        /\ what \in {"copy", "make", "assign"} => lhs # rhs
        /\ what = "check" => t \in Worker
    BY Running DEF StorageInv
  <1>2. Old(t) = location[lhs] /\ New(t) = location[rhs]
    BY DEF Old, New
  <1>3. ASSUME at[t] \notin {"released", "counted"} PROVE Old(t) \in live \cup {None}
    <2>1. lhs \in Holders(location[lhs])
      BY <1>1, <1>3, Alone DEF StorageInv
    <2> QED
      BY <1>1, <1>2, <2>1, HeldIsLive
  <1>4. ASSUME what \in {"copy", "make", "assign"} PROVE New(t) \in live \cup {None}
    <2>1. rhs \in Holders(location[rhs])
      BY <1>1, <1>4, Alone DEF StorageInv
    <2> QED
      BY <1>1, <1>2, <2>1, HeldIsLive
  <1>5. ASSUME what = "check", at[t] = "start"
        PROVE  /\ New(t) \in live \cup {None}
               /\ \A r \in Rank : location[InPopulation(r)] \in live \cup {None}
    <2>1. ASSUME NEW r \in Rank PROVE location[InPopulation(r)] \in live \cup {None}
      <3> DEFINE p == InPopulation(r)
      <3>1. p \in Pointer
        BY PointerTypes
      <3>2. ASSUME NEW u \in Thread PROVE ~Changing(u, p)
        <4>1. SUFFICES ASSUME ~Idle(u) PROVE Now(u).lhs # p
          BY DEF Changing
        <4>2. u \in Worker
          BY <4>1, <1>1, <1>5 DEF StorageInv, RoundInv, Thread
        <4>3. Now(u).lhs \in Writable(u)
          BY <4>1, Running DEF StorageInv
        <4>4. p \notin Writable(u)
          BY <4>2, ThreadTypes, PointersApart DEF Writable, Own
        <4> QED
          BY <4>3, <4>4
      <3>3. p \in Holders(location[p])
        BY <3>1, <3>2 DEF Holders
      <3> QED
        BY <3>1, <3>3, HeldIsLive
    <2>2. New(t) \in live \cup {None}
      <3>1. CASE lhs = rhs
        BY <3>1, <1>2, <1>3, <1>5
      <3>2. CASE lhs # rhs
        <4>1. rhs \in Holders(location[rhs])
          BY <3>2, <1>1, Alone DEF StorageInv
        <4> QED
          BY <1>1, <1>2, <4>1, HeldIsLive
      <3> QED
        BY <3>1, <3>2
    <2> QED
      BY <2>1, <2>2
  <1>6. CASE Doing(t, "assign", "start") \/ Releases(t)
    <2>1. at[t] \notin {"released", "counted"}
      BY <1>6 DEF Doing, Releases
    <2>2. ~(Acquires(t) \/ Stores(t) \/ Doing(t, "make", "start")) /\ ~Doing(t, "check", "start")
      BY <1>6 DEF Acquires, Stores, Doing, Releases
    <2>3. Used(t) = {Old(t)}
      BY <1>6, <2>2 DEF Used
    <2> QED
      BY <2>1, <2>3, <1>3
  <1>7. CASE Acquires(t) \/ Stores(t) \/ Doing(t, "make", "start")
    <2>1. what \in {"copy", "make", "assign"}
      BY <1>7 DEF Acquires, Stores, Doing, StorageInv, StageInv
    <2>2. ~(Doing(t, "assign", "start") \/ Releases(t)) /\ ~Doing(t, "check", "start")
      BY <1>7 DEF Acquires, Stores, Doing, Releases
    <2> QED
      BY <2>1, <2>2, <1>4, <1>7 DEF Used
  <1>8. CASE Doing(t, "check", "start")
    <2>1. what = "check" /\ at[t] = "start"
      BY <1>8 DEF Doing
    <2>2. ~(Doing(t, "assign", "start") \/ Releases(t)) /\ ~(Acquires(t) \/ Stores(t) \/ Doing(t, "make", "start"))
      BY <1>8 DEF Acquires, Stores, Doing, Releases
    <2>3. Used(t) = {New(t)} \cup {location[InPopulation(r)] : r \in Rank}
      BY <2>2, <1>8 DEF Used
    <2> QED
      BY <2>1, <2>3, <1>5
  <1>9. CASE ~(\/ Doing(t, "assign", "start") \/ Releases(t)
               \/ Acquires(t) \/ Stores(t) \/ Doing(t, "make", "start")
               \/ Doing(t, "check", "start"))
    BY <1>9 DEF Used
  <1> QED
    BY <1>6, <1>7, <1>8, <1>9

LEMMA InvGivesNoUseAfterFree ==
    ASSUME StorageInv
    PROVE  NoUseAfterFree
  <1>1. ASSUME NEW p \in Pointer \ BeingChanged PROVE location[p] \in live \cup {None}
    <2>1. \A t \in Thread : ~Changing(t, p)
      BY DEF Changing, BeingChanged
    <2>2. p \in Holders(location[p])
      BY <2>1 DEF Holders
    <2> QED
      BY <2>2, HeldIsLive
  <1> QED
    BY <1>1, UsedIsLive DEF NoUseAfterFree

LEMMA InvGivesFreedWhenUnused ==
    ASSUME StorageInv
    PROVE  FreedWhenUnused
  <1>1. ASSUME NEW o \in live PROVE \E p \in Pointer : location[p] = o
    <2>1. PICK p \in Pointer : p \in Holders(o)
      BY DEF StorageInv, TypeInv, CountInv, Holders
    <2>2. CASE location[p] = o
      BY <2>2
    <2>3. CASE \E t \in Thread : Taking(t, p, o)
      <3>1. PICK t \in Thread : Stores(t) /\ New(t) = o
        BY <2>3 DEF Taking
      <3>2. ~Idle(t) /\ location[Now(t).rhs] = o
        BY <3>1 DEF Stores, New
      <3> QED
        BY <3>2, Running DEF StorageInv
    <2> QED
      BY <2>1, <2>2, <2>3 DEF Holders
  <1> QED
    BY <1>1 DEF FreedWhenUnused

-----------------------------------------------------------------------------
(***************************************************************************)
(* A step of one thread: the other threads stay where they are, and no     *)
(* pointer is written but the one of its operation.                        *)
(***************************************************************************)
Moves(t) ==
    /\ \A u \in Thread \ {t} : todo'[u] = todo[u] /\ at'[u] = at[u]
    /\ \A p \in Pointer \ {Now(t).lhs} : location'[p] = location[p]
    /\ \/ todo'[t] = todo[t]
       \/ todo'[t] = Tail(todo[t]) /\ at'[t] = "start"

LEMMA HoldersElsewhere ==
    ASSUME RoundInv, ProgramInv, NEW t \in Thread, ~Idle(t), Moves(t),
           NEW p \in Pointer, p # Now(t).lhs, NEW o
    PROVE  p \in Holders(o)' <=> p \in Holders(o)
  <1>1. location'[p] = location[p]
    BY DEF Moves
  <1>2. ASSUME NEW u \in Thread
        PROVE  (Changing(u, p)' <=> Changing(u, p)) /\ (Taking(u, p, o)' <=> Taking(u, p, o))
    <2>1. CASE u = t
      <3>1. ~Changing(t, p) /\ ~Taking(t, p, o)
        BY DEF Changing, Taking
      <3>2. ~Changing(t, p)' /\ ~Taking(t, p, o)'
        BY DEF Changing, Taking, Stores, Moves, Now, Idle
      <3> QED
        BY <2>1, <3>1, <3>2
    <2>2. CASE u # t
      <3>1. todo'[u] = todo[u] /\ at'[u] = at[u]
        BY <2>2 DEF Moves
      <3>2. (Changing(u, p)' <=> Changing(u, p)) /\ (Stores(u)' <=> Stores(u)) /\ Now(u)' = Now(u)
        BY <3>1 DEF Changing, Stores, Idle, Now
      <3>3. ASSUME Stores(u) PROVE New(u)' = New(u)
        <4>1. Now(u).rhs \in Pointer \ {Now(t).lhs}
          BY <2>2, <3>3, Apart, Running DEF Stores
        <4>2. location'[Now(u).rhs] = location[Now(u).rhs]
          BY <4>1 DEF Moves
        <4> QED
          BY <3>2, <4>2 DEF New
      <3> QED
        BY <3>2, <3>3 DEF Taking
    <2> QED
      BY <2>1, <2>2
  <1> QED
    BY <1>1, <1>2 DEF Holders

LEMMA HoldersHere ==
    ASSUME RoundInv, ProgramInv, NEW t \in Thread, ~Idle(t), Moves(t), NEW o
    PROVE  /\ at'[t] \in {"start", "differs"} =>
                (Now(t).lhs \in Holders(o)' <=> location'[Now(t).lhs] = o)
           /\ at'[t] = "released" => Now(t).lhs \notin Holders(o)'
           /\ at'[t] = "counted" =>
                (Now(t).lhs \in Holders(o)' <=> location'[Now(t).rhs] = o)
  <1>0. PICK p \in Pointer : p = Now(t).lhs
    BY Running
  <1>1. ASSUME NEW u \in Thread, u # t PROVE ~Changing(u, p)' /\ ~Taking(u, p, o)'
    <2>1. todo'[u] = todo[u] /\ at'[u] = at[u]
      BY <1>1 DEF Moves
    <2>2. ~Idle(u) => Now(u).lhs # p
      BY <1>0, <1>1, Apart
    <2> QED
      BY <2>1, <2>2 DEF Changing, Taking, Stores, Idle, Now
  <1>2. ASSUME at'[t] \in {"start", "differs"} PROVE p \in Holders(o)' <=> location'[p] = o
    <2>1. ~Changing(t, p)' /\ ~Taking(t, p, o)'
      BY <1>2 DEF Changing, Taking, Stores
    <2>2. \A u \in Thread : ~Changing(u, p)' /\ ~Taking(u, p, o)'
      BY <1>1, <2>1
    <2> QED
      BY <1>0, <2>2 DEF Holders
  <1>3. ASSUME at'[t] \in {"released", "counted"} PROVE todo'[t] = todo[t] /\ Changing(t, p)'
    <2>1. todo'[t] = todo[t]
      BY <1>3 DEF Moves
    <2> QED
      BY <1>0, <1>3, <2>1 DEF Changing, Idle, Now
  <1>4. ASSUME at'[t] = "released" PROVE p \notin Holders(o)'
    <2>1. Changing(t, p)' /\ ~Taking(t, p, o)'
      BY <1>3, <1>4 DEF Taking, Stores
    <2>2. \A u \in Thread : ~Taking(u, p, o)'
      BY <1>1, <2>1
    <2> QED
      BY <2>1, <2>2 DEF Holders
  <1>5. ASSUME at'[t] = "counted" PROVE p \in Holders(o)' <=> location'[Now(t).rhs] = o
    <2>1. Changing(t, p)' /\ todo'[t] = todo[t]
      BY <1>3, <1>5
    <2>2. Now(t)' = Now(t) /\ Stores(t)'
      BY <1>5, <2>1 DEF Now, Stores, Idle
    <2>3. Taking(t, p, o)' <=> location'[Now(t).rhs] = o
      BY <1>0, <2>2 DEF Taking, New
    <2>4. \A u \in Thread : Taking(u, p, o)' <=> u = t /\ location'[Now(t).rhs] = o
      BY <1>1, <2>3
    <2> QED
      BY <1>0, <2>1, <2>4 DEF Holders
  <1> QED
    BY <1>0, <1>2, <1>4, <1>5

LEMMA ProgramMoves ==
    ASSUME RoundInv, ProgramInv, NEW t \in Thread, ~Idle(t), Moves(t),
           \/ todo'[t] = todo[t] /\ location' = location
           \/ /\ todo'[t] = Tail(todo[t])
              /\ \/ Now(t).what \in {"copy", "make", "assign"}
                 \/ Now(t).what = "destroy" /\ location'[Now(t).lhs] = None
                 \/ Now(t).what = "check" /\ location' = location
    PROVE  ProgramInv'
  <1>1. SUFFICES ASSUME NEW u \in Thread
                 PROVE  \E E : Program(u, todo'[u], E) /\ \A p \in E[1] : location'[p] = None
    BY DEF ProgramInv
  <1>2. PICK E : Program(u, todo[u], E) /\ \A p \in E[1] : location[p] = None
    BY DEF ProgramInv
  <1>3. Now(t).lhs \in Writable(t) /\ Own(u) \subseteq Pointer
    BY Running, PointerTypes DEF Own
  <1>4. CASE u # t
    <2>1. todo'[u] = todo[u]
      BY <1>4 DEF Moves
    <2>2. E[1] \subseteq Own(u)
      <3>1. 1 \in 1 .. Len(todo[u]) + 1
        BY <1>2 DEF Program
      <3> QED
        BY <3>1, <1>2 DEF Program
    <2>3. ASSUME NEW p \in E[1] PROVE location'[p] = None
      <3>1. p \in Pointer /\ p # Now(t).lhs
        BY <2>2, <1>3, <1>4, OwnApart
      <3> QED
        BY <3>1, <1>2 DEF Moves
    <2> QED
      BY <1>2, <2>1, <2>3
  <1>5. CASE u = t /\ todo'[t] = todo[t] /\ location' = location
    BY <1>2, <1>5
  <1>6. CASE u = t /\ todo'[t] = Tail(todo[t])
             /\ ~(todo'[t] = todo[t] /\ location' = location)
    <2>1. todo[t] # <<>> /\ Head(todo[t]) = Now(t)
      BY DEF Idle, Now
    <2> DEFINE F == [k \in 1 .. Len(Tail(todo[t])) + 1 |-> E[k + 1]]
    <2>2. Program(t, Tail(todo[t]), F) /\ F[1] = E[2]
      BY <1>2, <1>6, <2>1, ProgramTail
    <2>3. Sound(t, Now(t), E[1], E[2]) /\ E[2] \subseteq Own(t)
      BY <1>2, <1>6, <2>1, ProgramHead
    <2> HIDE DEF F
    <2>4. ASSUME NEW p \in E[2] PROVE location'[p] = None
      <3>1. p \in Pointer
        BY <1>3, <1>6, <2>3
      <3>2. CASE p = Now(t).lhs
        <4>1. Now(t).what \notin {"copy", "make", "assign"}
          BY <2>3, <3>2 DEF Sound
        <4>2. CASE Now(t).what = "destroy" /\ location'[Now(t).lhs] = None
          BY <3>2, <4>2
        <4>3. CASE Now(t).what = "check" /\ location' = location
          BY <4>3, <1>2, <2>3 DEF Sound
        <4> QED
          BY <4>1, <4>2, <4>3, <1>6
      <3>3. CASE p # Now(t).lhs
        <4>1. p \in E[1]
          BY <3>3, <2>3 DEF Sound
        <4> QED
          BY <4>1, <3>1, <3>3, <1>2 DEF Moves
      <3> QED
        BY <3>2, <3>3
    <2> QED
      BY <1>6, <2>2, <2>4
  <1> QED
    BY <1>4, <1>5, <1>6

LEMMA RoundMoves ==
    ASSUME RoundInv, NEW t \in Thread, ~Idle(t), Moves(t), working' = working
    PROVE  RoundInv'
  <1>1. \A u \in Thread \ {t} : Idle(u)' <=> Idle(u)
    BY DEF Moves, Idle
  <1>2. Control \in Thread /\ Worker \subseteq Thread /\ Control \notin Worker
    BY ThreadTypes
  <1>3. CASE t = Control
    BY <1>1, <1>2, <1>3 DEF RoundInv
  <1>4. CASE t # Control
    <2>1. t \in Worker
      BY <1>4 DEF Thread
    <2> QED
      BY <1>1, <1>2, <1>4, <2>1 DEF RoundInv
  <1> QED
    BY <1>3, <1>4

LEMMA StageMoves ==
    ASSUME StageInv, NEW t \in Thread, Moves(t),
           \/ at'[t] = "start"
           \/ /\ todo'[t] = todo[t] /\ ~Idle(t)
              /\ \/ Now(t).what = "copy" /\ at'[t] = "counted"
                 \/ Now(t).what = "assign" /\ at'[t] \in {"differs", "released", "counted"}
                 \/ Now(t).what = "destroy" /\ at'[t] = "released"
    PROVE  StageInv'
  <1>1. ASSUME NEW u \in Thread, u # t
        PROVE  /\ at'[u] = at[u]
               /\ \A what, stage : Doing(u, what, stage)' <=> Doing(u, what, stage)
    BY <1>1 DEF Moves, Doing, Idle, Now
  <1>2. \/ at'[t] = "start"
        \/ Doing(t, "copy", "counted")'
        \/ \E stage \in {"differs", "released", "counted"} : Doing(t, "assign", stage)'
        \/ Doing(t, "destroy", "released")'
    BY DEF Doing, Idle, Now
  <1> QED
    BY <1>1, <1>2 DEF StageInv

-----------------------------------------------------------------------------
(***************************************************************************)
(* Every step keeps the invariant.                                         *)
(***************************************************************************)
LEMMA ImageFinite ==
    ASSUME NEW S, IsFiniteSet(S), NEW f, DOMAIN f = S
    PROVE  IsFiniteSet({f[x] : x \in S})
  <1> DEFINE g == [x \in S |-> f[x]]
             T == {f[x] : x \in S}
  <1>1. g \in [S -> T] /\ \A y \in T : \E x \in S : g[x] = y
    OBVIOUS
  <1>2. g \in Surjection(S, T)
    BY <1>1 DEF Surjection
  <1> QED
    BY <1>2, FS_Surjection

LEMMA PointersFinite == IsFiniteSet(Pointer)
  <1>1. IsFiniteSet(Thread)
    <2>1. IsFiniteSet({Control})
      BY FS_Singleton
    <2>2. IsFiniteSet(Worker)
      BY SizesAssumption
    <2>3. IsFiniteSet(Worker \cup {Control})
      BY <2>1, <2>2, FS_Union
    <2> QED
      BY <2>3 DEF Thread
  <1>2. IsFiniteSet(Ranked) /\ IsFiniteSet(Buffer)
    <2> DEFINE f == [r \in Rank |-> InPopulation(r)]
               g == [s \in Slot |-> InBuffer(s)]
    <2>1. Ranked = {f[r] : r \in Rank} /\ Buffer = {g[s] : s \in Slot}
      BY DEF Ranked, Buffer
    <2>2. DOMAIN f = Rank /\ DOMAIN g = Slot
      OBVIOUS
    <2> HIDE DEF f, g
    <2>3. IsFiniteSet({f[r] : r \in Rank}) /\ IsFiniteSet({g[s] : s \in Slot})
      BY <2>2, SizesAssumption, ImageFinite
    <2> QED
      BY <2>1, <2>3
  <1> DEFINE Arguments == {Argument(t) : t \in Thread}
             Children == {Child(t) : t \in Thread}
  <1>3. IsFiniteSet(Arguments) /\ IsFiniteSet(Children)
    <2> DEFINE f == [t \in Thread |-> Argument(t)]
               g == [t \in Thread |-> Child(t)]
    <2>1. Arguments = {f[t] : t \in Thread} /\ Children = {g[t] : t \in Thread}
      OBVIOUS
    <2>2. DOMAIN f = Thread /\ DOMAIN g = Thread
      OBVIOUS
    <2> HIDE DEF f, g, Arguments, Children
    <2>3. IsFiniteSet({f[t] : t \in Thread}) /\ IsFiniteSet({g[t] : t \in Thread})
      BY <1>1, <2>2, ImageFinite
    <2> QED
      BY <2>1, <2>3
  <1>4. UNION {{Argument(t), Child(t)} : t \in Thread} = Arguments \cup Children
    OBVIOUS
  <1> HIDE DEF Arguments, Children
  <1>5. IsFiniteSet(UNION {{Argument(t), Child(t)} : t \in Thread})
    <2>1. IsFiniteSet(Arguments \cup Children)
      BY <1>3, FS_Union
    <2> QED
      BY <1>4, <2>1, Zenon
  <1>6. IsFiniteSet({Best, NullPtr})
    <2>1. IsFiniteSet({Best}) /\ IsFiniteSet({NullPtr}) /\ {Best, NullPtr} = {Best} \cup {NullPtr}
      BY FS_Singleton
    <2> QED
      BY <2>1, FS_Union
  <1>7. IsFiniteSet(Ranked \cup Buffer)
    BY <1>2, FS_Union
  <1>8. IsFiniteSet((Ranked \cup Buffer) \cup {Best, NullPtr})
    BY <1>6, <1>7, FS_Union
  <1> QED
    BY <1>5, <1>8, FS_Union DEF Pointer, Ranked, Buffer

LEMMA HoldersFinite ==
    ASSUME NEW o
    PROVE  /\ Holders(o) \subseteq Pointer /\ IsFiniteSet(Holders(o))
           /\ Holders(o)' \subseteq Pointer /\ IsFiniteSet(Holders(o)')
  <1>1. Holders(o) \subseteq Pointer /\ Holders(o)' \subseteq Pointer
    BY DEF Holders
  <1> QED
    BY <1>1, PointersFinite, FS_Subset

LEMMA GoesOn ==
    ASSUME TypeInv, NEW t \in Thread, NEW stage, GoOn(t, stage), location' = location
    PROVE  /\ Moves(t) /\ at'[t] = stage /\ todo'[t] = todo[t]
           /\ DOMAIN todo' = Thread /\ DOMAIN at' = Thread
  BY DEF GoOn, TypeInv, Moves

LEMMA Finishes ==
    ASSUME TypeInv, NEW t \in Thread, Finish(t),
           \A p \in Pointer \ {Now(t).lhs} : location'[p] = location[p]
    PROVE  /\ Moves(t) /\ at'[t] = "start" /\ todo'[t] = Tail(todo[t])
           /\ DOMAIN todo' = Thread /\ DOMAIN at' = Thread
  BY DEF Finish, TypeInv, Moves

\* What the invariant needs of a step apart from the counts.
LEMMA MovesKeep ==
    ASSUME StorageInv, NEW t \in Thread, ~Idle(t), Moves(t),
           DOMAIN todo' = Thread /\ DOMAIN at' = Thread,
           left' = left, working' = working, plan' = plan,
           location' \in [Pointer -> Object \cup {None}],
           count' \in [Object -> Int], live' \subseteq Object,
           \/ at'[t] = "start"
           \/ /\ todo'[t] = todo[t]
              /\ \/ Now(t).what = "copy" /\ at'[t] = "counted"
                 \/ Now(t).what = "assign" /\ at'[t] \in {"differs", "released", "counted"}
                 \/ Now(t).what = "destroy" /\ at'[t] = "released",
           \/ todo'[t] = todo[t] /\ location' = location
           \/ /\ todo'[t] = Tail(todo[t])
              /\ \/ Now(t).what \in {"copy", "make", "assign"}
                 \/ Now(t).what = "destroy" /\ location'[Now(t).lhs] = None
                 \/ Now(t).what = "check" /\ location' = location,
           CountInv'
    PROVE  StorageInv'
  <1>1. TypeInv'
    BY DEF StorageInv, TypeInv
  <1>2. RoundInv'
    BY RoundMoves DEF StorageInv
  <1>3. ProgramInv'
    BY ProgramMoves DEF StorageInv
  <1>4. StageInv'
    BY StageMoves DEF StorageInv
  <1> QED
    BY <1>1, <1>2, <1>3, <1>4 DEF StorageInv

\* What the counts need: a step that leaves them alone leaves the holders alone;
\* one that changes the holders of o has the counts follow.
LEMMA CountsAsBefore ==
    ASSUME StorageInv, NEW t \in Thread, ~Idle(t), Moves(t), count' = count, live' = live,
           \A o \in Object : Now(t).lhs \in Holders(o)' <=> Now(t).lhs \in Holders(o)
    PROVE  CountInv'
  <1>1. ASSUME NEW o \in Object PROVE Holders(o)' = Holders(o)
    BY HoldersElsewhere, HoldersFinite DEF StorageInv
  <1> QED
    BY <1>1 DEF StorageInv, CountInv

LEMMA CountFollows ==
    ASSUME StorageInv, NEW t \in Thread, ~Idle(t), Moves(t), NEW n \in Object,
           \A o \in Object \ {n} : Now(t).lhs \in Holders(o)' <=> Now(t).lhs \in Holders(o),
           \A o \in Object \ {n} : count'[o] = count[o] /\ (o \in live' <=> o \in live),
           count'[n] = Cardinality(Holders(n)'),
           n \in live' <=> Holders(n)' # {}
    PROVE  CountInv'
  <1>1. ASSUME NEW o \in Object \ {n} PROVE Holders(o)' = Holders(o)
    BY HoldersElsewhere, HoldersFinite DEF StorageInv
  <1> QED
    BY <1>1 DEF StorageInv, CountInv

LEMMA HoldersGain ==
    ASSUME StorageInv, NEW t \in Thread, ~Idle(t), Moves(t), NEW n \in Object,
           Now(t).lhs \notin Holders(n), Now(t).lhs \in Holders(n)'
    PROVE  Cardinality(Holders(n)') = Cardinality(Holders(n)) + 1 /\ Holders(n)' # {}
  <1>1. Holders(n)' = Holders(n) \cup {Now(t).lhs}
    BY HoldersElsewhere, HoldersFinite DEF StorageInv
  <1> QED
    BY <1>1, HoldersFinite, FS_AddElement

LEMMA HoldersLose ==
    ASSUME StorageInv, NEW t \in Thread, ~Idle(t), Moves(t), NEW n \in Object,
           Now(t).lhs \in Holders(n), Now(t).lhs \notin Holders(n)'
    PROVE  /\ Cardinality(Holders(n)') = Cardinality(Holders(n)) - 1
           /\ Holders(n)' # {} <=> Cardinality(Holders(n)) - 1 # 0
  <1>1. Holders(n)' = Holders(n) \ {Now(t).lhs}
    BY HoldersElsewhere, HoldersFinite DEF StorageInv
  <1>2. Cardinality(Holders(n)') = Cardinality(Holders(n)) - 1
    BY <1>1, HoldersFinite, FS_RemoveElement
  <1> QED
    BY <1>2, HoldersFinite, FS_EmptySet

LEMMA CompareKeeps ==
    ASSUME StorageInv, NEW t \in Thread, Compare(t)
    PROVE  StorageInv'
  <1>1. ~Idle(t) /\ Now(t).what = "assign" /\ at[t] = "start"
    BY DEF Compare, Doing
  <1>2. UNCHANGED <<location, count, live, left, working, plan>>
    BY DEF Compare
  <1>3. /\ Moves(t) /\ DOMAIN todo' = Thread /\ DOMAIN at' = Thread
        /\ \/ at'[t] = "differs" /\ todo'[t] = todo[t]
           \/ at'[t] = "start" /\ todo'[t] = Tail(todo[t])
    BY <1>2, GoesOn, Finishes DEF Compare, StorageInv
  <1>4. ASSUME NEW o \in Object PROVE Now(t).lhs \in Holders(o)' <=> Now(t).lhs \in Holders(o)
    <2>1. Now(t).lhs \in Holders(o) <=> location[Now(t).lhs] = o
      BY <1>1, Running, Alone DEF StorageInv
    <2>2. Now(t).lhs \in Holders(o)' <=> location'[Now(t).lhs] = o
      BY <1>1, <1>3, HoldersHere DEF StorageInv
    <2> QED
      BY <1>2, <2>1, <2>2
  <1>5. CountInv'
    BY <1>1, <1>2, <1>3, <1>4, CountsAsBefore
  <1>6. location' \in [Pointer -> Object \cup {None}] /\ count' \in [Object -> Int] /\ live' \subseteq Object
    BY <1>2 DEF StorageInv, TypeInv
  <1> QED
    BY <1>1, <1>2, <1>3, <1>5, <1>6, MovesKeep

LEMMA CheckKeeps ==
    ASSUME StorageInv, NEW t \in Thread, Check(t)
    PROVE  StorageInv'
  <1>1. ~Idle(t) /\ Now(t).what = "check" /\ at[t] = "start"
    BY DEF Check, Doing
  <1>2. UNCHANGED <<location, count, live, left, working, plan>>
    BY DEF Check
  <1>3. /\ Moves(t) /\ DOMAIN todo' = Thread /\ DOMAIN at' = Thread
        /\ at'[t] = "start" /\ todo'[t] = Tail(todo[t])
    BY <1>2, Finishes DEF Check, StorageInv
  <1>4. ASSUME NEW o \in Object PROVE Now(t).lhs \in Holders(o)' <=> Now(t).lhs \in Holders(o)
    <2>1. Now(t).lhs \in Holders(o) <=> location[Now(t).lhs] = o
      BY <1>1, Running, Alone DEF StorageInv
    <2>2. Now(t).lhs \in Holders(o)' <=> location'[Now(t).lhs] = o
      BY <1>1, <1>3, HoldersHere DEF StorageInv
    <2> QED
      BY <1>2, <2>1, <2>2
  <1>5. CountInv'
    BY <1>1, <1>2, <1>3, <1>4, CountsAsBefore
  <1>6. location' \in [Pointer -> Object \cup {None}] /\ count' \in [Object -> Int] /\ live' \subseteq Object
    BY <1>2 DEF StorageInv, TypeInv
  <1> QED
    BY <1>1, <1>2, <1>3, <1>5, <1>6, MovesKeep

LEMMA StoreKeeps ==
    ASSUME StorageInv, NEW t \in Thread, Store(t)
    PROVE  StorageInv'
  <1>1. ~Idle(t) /\ at[t] = "counted"
    BY DEF Store, Stores
  <1>2. Now(t).what \in {"copy", "assign"}
    BY <1>1 DEF StorageInv, StageInv, Doing
  <1>3. UNCHANGED <<count, live, left, working, plan>> /\ Finish(t)
    BY DEF Store
  <1>4. Now(t).lhs \in Pointer /\ Now(t).rhs \in Pointer /\ Now(t).lhs # Now(t).rhs
    BY <1>1, <1>2, Running DEF StorageInv
  <1>5. location' = [location EXCEPT ![Now(t).lhs] = location[Now(t).rhs]]
    BY DEF Store, New
  <1>6. /\ \A p \in Pointer \ {Now(t).lhs} : location'[p] = location[p]
        /\ location'[Now(t).lhs] = location[Now(t).rhs]
        /\ location' \in [Pointer -> Object \cup {None}]
    BY <1>4, <1>5 DEF StorageInv, TypeInv
  <1>7. /\ Moves(t) /\ DOMAIN todo' = Thread /\ DOMAIN at' = Thread
        /\ at'[t] = "start" /\ todo'[t] = Tail(todo[t])
    BY <1>3, <1>6, Finishes DEF StorageInv
  <1>8. ASSUME NEW o \in Object PROVE Now(t).lhs \in Holders(o)' <=> Now(t).lhs \in Holders(o)
    <2>1. Now(t).lhs \in Holders(o) <=> location[Now(t).rhs] = o
      BY <1>1, <1>4, Alone DEF StorageInv, New
    <2>2. Now(t).lhs \in Holders(o)' <=> location'[Now(t).lhs] = o
      BY <1>1, <1>7, HoldersHere DEF StorageInv
    <2> QED
      BY <1>6, <2>1, <2>2
  <1>9. CountInv'
    BY <1>1, <1>3, <1>7, <1>8, CountsAsBefore
  <1>10. count' \in [Object -> Int] /\ live' \subseteq Object
    BY <1>3 DEF StorageInv, TypeInv
  <1> QED
    BY <1>1, <1>2, <1>3, <1>6, <1>7, <1>9, <1>10, MovesKeep

LEMMA LeaveKeeps ==
    ASSUME StorageInv, NEW t \in Thread, Leave(t)
    PROVE  StorageInv'
  <1>1. ~Idle(t) /\ at[t] = "released" /\ Now(t).what = "destroy"
    BY DEF Leave, Doing
  <1>2. UNCHANGED <<count, live, left, working, plan>> /\ Finish(t)
    BY DEF Leave
  <1>3. Now(t).lhs \in Pointer
    BY <1>1, Running DEF StorageInv
  <1>4. location' = [location EXCEPT ![Now(t).lhs] = None]
    BY DEF Leave
  <1>5. /\ \A p \in Pointer \ {Now(t).lhs} : location'[p] = location[p]
        /\ location'[Now(t).lhs] = None
        /\ location' \in [Pointer -> Object \cup {None}]
    BY <1>3, <1>4 DEF StorageInv, TypeInv
  <1>6. /\ Moves(t) /\ DOMAIN todo' = Thread /\ DOMAIN at' = Thread
        /\ at'[t] = "start" /\ todo'[t] = Tail(todo[t])
    BY <1>2, <1>5, Finishes DEF StorageInv
  <1>7. ASSUME NEW o \in Object PROVE Now(t).lhs \in Holders(o)' <=> Now(t).lhs \in Holders(o)
    <2>1. Now(t).lhs \notin Holders(o)
      BY <1>1, <1>3, Alone DEF StorageInv
    <2>2. Now(t).lhs \in Holders(o)' <=> location'[Now(t).lhs] = o
      BY <1>1, <1>6, HoldersHere DEF StorageInv
    <2>3. o # None
      BY ThreadAssumption
    <2> QED
      BY <1>5, <2>1, <2>2, <2>3
  <1>8. CountInv'
    BY <1>1, <1>2, <1>6, <1>7, CountsAsBefore
  <1>9. count' \in [Object -> Int] /\ live' \subseteq Object
    BY <1>2 DEF StorageInv, TypeInv
  <1> QED
    BY <1>1, <1>2, <1>5, <1>6, <1>8, <1>9, MovesKeep

LEMMA ReleaseKeeps ==
    ASSUME StorageInv, NEW t \in Thread, Release(t)
    PROVE  StorageInv'
  <1>1. /\ ~Idle(t)
        /\ \/ Now(t).what = "assign" /\ at[t] = "differs"
           \/ Now(t).what = "destroy" /\ at[t] = "start"
    BY DEF Release, Releases, Doing
  <1>2. UNCHANGED <<location, left, working, plan>> /\ GoOn(t, "released")
    BY DEF Release
  <1>3. /\ Moves(t) /\ DOMAIN todo' = Thread /\ DOMAIN at' = Thread
        /\ at'[t] = "released" /\ todo'[t] = todo[t]
    BY <1>2, GoesOn DEF StorageInv
  <1>4. PICK n : n = Old(t)
    OBVIOUS
  <1>5. Now(t).lhs \in Pointer /\ n = location[Now(t).lhs]
    BY <1>1, <1>4, Running DEF StorageInv, Old
  <1>6. n \in Object \cup {None}
    BY <1>5 DEF StorageInv, TypeInv
  <1>7. ASSUME NEW o PROVE /\ Now(t).lhs \notin Holders(o)'
                           /\ Now(t).lhs \in Holders(o) <=> o = n
    <2>1. Now(t).lhs \in Holders(o) <=> location[Now(t).lhs] = o
      BY <1>1, <1>5, Alone DEF StorageInv
    <2>2. Now(t).lhs \notin Holders(o)'
      BY <1>1, <1>3, HoldersHere DEF StorageInv
    <2> QED
      BY <1>5, <2>1, <2>2
  <1>8. CASE n = None
    <2>1. count' = count /\ live' = live
      BY <1>4, <1>8 DEF Release
    <2>2. \A o \in Object : Now(t).lhs \in Holders(o)' <=> Now(t).lhs \in Holders(o)
      BY <1>7, <1>8, ThreadAssumption
    <2>3. CountInv'
      BY <1>1, <1>3, <2>1, <2>2, CountsAsBefore
    <2>4. location' \in [Pointer -> Object \cup {None}] /\ count' \in [Object -> Int] /\ live' \subseteq Object
      BY <1>2, <2>1 DEF StorageInv, TypeInv
    <2> QED
      BY <1>1, <1>2, <1>3, <2>3, <2>4, MovesKeep
  <1>9. CASE n # None
    <2>1. n \in Object
      BY <1>6, <1>9
    <2>2. /\ count' = [count EXCEPT ![n] = @ - 1]
          /\ live' = IF count'[n] = 0 THEN live \ {n} ELSE live
      BY <1>4, <1>9 DEF Release
    <2>3. count \in [Object -> Int] /\ live \subseteq Object /\ location \in [Pointer -> Object \cup {None}]
      BY DEF StorageInv, TypeInv
    <2>4. /\ count' \in [Object -> Int] /\ count'[n] = count[n] - 1
          /\ \A o \in Object \ {n} : count'[o] = count[o]
      BY <2>1, <2>2, <2>3
    <2>5. /\ Cardinality(Holders(n)') = Cardinality(Holders(n)) - 1
          /\ Holders(n)' # {} <=> Cardinality(Holders(n)) - 1 # 0
      BY <1>1, <1>3, <1>7, <2>1, HoldersLose
    <2>6. count[n] = Cardinality(Holders(n)) /\ n \in live
      BY <1>5, <1>7, <2>1 DEF StorageInv, CountInv
    <2>7. count'[n] = Cardinality(Holders(n)')
      BY <2>4, <2>5, <2>6
    <2>8. n \in live' <=> Holders(n)' # {}
      BY <2>2, <2>4, <2>5, <2>6
    <2>9. \A o \in Object \ {n} : o \in live' <=> o \in live
      BY <2>2
    <2>10. \A o \in Object \ {n} : Now(t).lhs \in Holders(o)' <=> Now(t).lhs \in Holders(o)
      BY <1>7
    <2>11. CountInv'
      BY <1>1, <1>3, <2>1, <2>4, <2>7, <2>8, <2>9, <2>10, CountFollows
    <2>12. location' \in [Pointer -> Object \cup {None}] /\ live' \subseteq Object
      BY <1>2, <2>2, <2>3
    <2> QED
      BY <1>1, <1>2, <1>3, <2>4, <2>11, <2>12, MovesKeep
  <1> QED
    BY <1>8, <1>9

LEMMA AcquireKeeps ==
    ASSUME StorageInv, NEW t \in Thread, Acquire(t)
    PROVE  StorageInv'
  <1>1. /\ ~Idle(t)
        /\ \/ Now(t).what = "copy" /\ at[t] = "start"
           \/ Now(t).what = "assign" /\ at[t] = "released"
    BY DEF Acquire, Acquires, Doing
  <1>2. UNCHANGED <<location, live, left, working, plan>> /\ GoOn(t, "counted")
    BY DEF Acquire
  <1>3. /\ Moves(t) /\ DOMAIN todo' = Thread /\ DOMAIN at' = Thread
        /\ at'[t] = "counted" /\ todo'[t] = todo[t]
    BY <1>2, GoesOn DEF StorageInv
  <1>4. PICK n : n = New(t)
    OBVIOUS
  <1>5. /\ Now(t).lhs \in Pointer /\ Now(t).rhs \in Pointer /\ Now(t).lhs # Now(t).rhs
        /\ n = location[Now(t).rhs]
        /\ Now(t).what = "copy" => location[Now(t).lhs] = None
    BY <1>1, <1>4, Running DEF StorageInv, New
  <1>6. n \in Object \cup {None}
    BY <1>5 DEF StorageInv, TypeInv
  <1>7. ASSUME NEW o \in Object
        PROVE  /\ Now(t).lhs \in Holders(o)' <=> o = n
               /\ Now(t).lhs \notin Holders(o)
    <2>1. Now(t).lhs \in Holders(o)' <=> location'[Now(t).rhs] = o
      BY <1>1, <1>3, HoldersHere DEF StorageInv
    <2>2. Now(t).lhs \in Holders(o) <=> location[Now(t).lhs] = o /\ at[t] \notin {"released", "counted"}
      BY <1>1, <1>5, Alone DEF StorageInv
    <2>3. o # None
      BY ThreadAssumption
    <2> QED
      BY <1>1, <1>2, <1>5, <2>1, <2>2, <2>3
  <1>8. CASE n = None
    <2>1. count' = count
      BY <1>4, <1>8 DEF Acquire
    <2>2. \A o \in Object : Now(t).lhs \in Holders(o)' <=> Now(t).lhs \in Holders(o)
      BY <1>7, <1>8, ThreadAssumption
    <2>3. CountInv'
      BY <1>1, <1>2, <1>3, <2>1, <2>2, CountsAsBefore
    <2>4. location' \in [Pointer -> Object \cup {None}] /\ count' \in [Object -> Int] /\ live' \subseteq Object
      BY <1>2, <2>1 DEF StorageInv, TypeInv
    <2> QED
      BY <1>1, <1>2, <1>3, <2>3, <2>4, MovesKeep
  <1>9. CASE n # None
    <2>1. n \in Object
      BY <1>6, <1>9
    <2>2. count' = [count EXCEPT ![n] = @ + 1]
      BY <1>4, <1>9 DEF Acquire
    <2>3. count \in [Object -> Int] /\ live \subseteq Object /\ location \in [Pointer -> Object \cup {None}]
      BY DEF StorageInv, TypeInv
    <2>4. /\ count' \in [Object -> Int] /\ count'[n] = count[n] + 1
          /\ \A o \in Object \ {n} : count'[o] = count[o]
      BY <2>1, <2>2, <2>3
    <2>5. Cardinality(Holders(n)') = Cardinality(Holders(n)) + 1 /\ Holders(n)' # {}
      BY <1>1, <1>3, <1>7, <2>1, HoldersGain
    <2>6. Now(t).rhs \in Holders(n)
      BY <1>1, <1>5, Alone DEF StorageInv
    <2>7. count[n] = Cardinality(Holders(n)) /\ n \in live
      BY <2>1, <2>6 DEF StorageInv, CountInv
    <2>8. count'[n] = Cardinality(Holders(n)') /\ (n \in live' <=> Holders(n)' # {})
      BY <1>2, <2>4, <2>5, <2>7
    <2>9. \A o \in Object \ {n} : Now(t).lhs \in Holders(o)' <=> Now(t).lhs \in Holders(o)
      BY <1>7
    <2>10. CountInv'
      BY <1>1, <1>2, <1>3, <2>1, <2>4, <2>8, <2>9, CountFollows
    <2>11. location' \in [Pointer -> Object \cup {None}] /\ live' \subseteq Object
      BY <1>2, <2>3
    <2> QED
      BY <1>1, <1>2, <1>3, <2>4, <2>10, <2>11, MovesKeep
  <1> QED
    BY <1>8, <1>9

LEMMA MakeKeeps ==
    ASSUME StorageInv, NEW t \in Thread, Make(t)
    PROVE  StorageInv'
  <1>1. ~Idle(t) /\ Now(t).what = "make" /\ at[t] = "start"
    BY DEF Make, Doing
  <1>2. UNCHANGED <<left, working, plan>> /\ Finish(t)
    BY DEF Make
  <1>3. PICK n \in Object \ live : /\ live' = live \cup {n}
                                   /\ count' = [count EXCEPT ![n] = 1]
                                   /\ location' = [location EXCEPT ![Now(t).lhs] = n]
    BY DEF Make
  <1>4. Now(t).lhs \in Pointer /\ location[Now(t).lhs] = None
    BY <1>1, Running DEF StorageInv
  <1>5. /\ \A p \in Pointer \ {Now(t).lhs} : location'[p] = location[p]
        /\ location'[Now(t).lhs] = n
        /\ location' \in [Pointer -> Object \cup {None}]
        /\ count' \in [Object -> Int] /\ count'[n] = 1
        /\ \A o \in Object \ {n} : count'[o] = count[o]
        /\ live' \subseteq Object
    BY <1>3, <1>4 DEF StorageInv, TypeInv
  <1>6. /\ Moves(t) /\ DOMAIN todo' = Thread /\ DOMAIN at' = Thread
        /\ at'[t] = "start" /\ todo'[t] = Tail(todo[t])
    BY <1>2, <1>5, Finishes DEF StorageInv
  <1>7. ASSUME NEW o \in Object
        PROVE  /\ Now(t).lhs \in Holders(o)' <=> o = n
               /\ Now(t).lhs \notin Holders(o)
    <2>1. Now(t).lhs \in Holders(o)' <=> location'[Now(t).lhs] = o
      BY <1>1, <1>6, HoldersHere DEF StorageInv
    <2>2. Now(t).lhs \in Holders(o) <=> location[Now(t).lhs] = o
      BY <1>1, <1>4, Alone DEF StorageInv
    <2>3. o # None
      BY ThreadAssumption
    <2> QED
      BY <1>4, <1>5, <2>1, <2>2, <2>3
  <1>8. Holders(n) = {} /\ count[n] = Cardinality(Holders(n))
    BY <1>3 DEF StorageInv, CountInv
  <1>9. Cardinality(Holders(n)') = Cardinality(Holders(n)) + 1 /\ Holders(n)' # {}
    BY <1>1, <1>6, <1>7, HoldersGain
  <1>10. count'[n] = Cardinality(Holders(n)')
    BY <1>5, <1>8, <1>9, FS_EmptySet
  <1>11. /\ n \in live' <=> Holders(n)' # {}
         /\ \A o \in Object \ {n} : o \in live' <=> o \in live
         /\ \A o \in Object \ {n} : Now(t).lhs \in Holders(o)' <=> Now(t).lhs \in Holders(o)
    BY <1>3, <1>7, <1>9
  <1>12. CountInv'
    BY <1>1, <1>5, <1>6, <1>10, <1>11, CountFollows
  <1> QED
    BY <1>1, <1>2, <1>5, <1>6, <1>12, MovesKeep

\* A thread that idles gets its next program.
LEMMA StartKeeps ==
    ASSUME StorageInv, NEW t \in Thread, Idle(t), NEW S,
           \E E : Program(t, S, E) /\ E[1] = Own(t),
           todo' = [todo EXCEPT ![t] = S], UNCHANGED <<location, count, live, at>>
    PROVE  /\ ProgramInv' /\ StageInv' /\ CountInv'
           /\ DOMAIN todo' = Thread
           /\ \A u \in Thread \ {t} : Idle(u)' <=> Idle(u)
  <1>1. DOMAIN todo' = Thread /\ todo'[t] = S /\ \A u \in Thread \ {t} : todo'[u] = todo[u]
    BY DEF StorageInv, TypeInv
  <1>2. at[t] = "start"
    BY DEF StorageInv, StageInv, Doing
  <1>3. ProgramInv'
    <2>1. ASSUME NEW u \in Thread
          PROVE  \E E : Program(u, todo'[u], E) /\ \A p \in E[1] : location'[p] = None
      <3>1. PICK E : Program(u, todo[u], E) /\ \A p \in E[1] : location[p] = None
        BY DEF StorageInv, ProgramInv
      <3>2. CASE u # t
        BY <1>1, <3>1, <3>2
      <3>3. CASE u = t
        <4>1. E[1] = Own(t)
          <5>1. todo[t] = <<>> /\ Len(<<>>) = 0
            BY DEF Idle
          <5> QED
            BY <3>1, <3>3, <5>1 DEF Program
        <4>2. PICK F : Program(t, S, F) /\ F[1] = Own(t)
          OBVIOUS
        <4> QED
          BY <1>1, <3>1, <3>3, <4>1, <4>2
      <3> QED
        BY <3>2, <3>3
    <2> QED
      BY <2>1 DEF ProgramInv
  <1>4. ASSUME NEW u \in Thread
        PROVE  /\ at'[u] # "start" => at[u] # "start" /\ u # t
               /\ u # t => todo'[u] = todo[u]
    BY <1>1, <1>2
  <1>5. StageInv'
    BY <1>4 DEF StorageInv, StageInv, Doing, Idle, Now
  <1>6. ASSUME NEW o \in Object PROVE Holders(o)' = Holders(o)
    <2>1. ASSUME NEW p, NEW u \in Thread
          PROVE  (Changing(u, p)' <=> Changing(u, p)) /\ (Taking(u, p, o)' <=> Taking(u, p, o))
      <3>1. CASE u = t
        BY <1>2, <3>1 DEF Changing, Taking, Stores
      <3>2. CASE u # t
        BY <1>1, <3>2 DEF Changing, Taking, Stores, Idle, Now, New
      <3> QED
        BY <3>1, <3>2
    <2> QED
      BY <2>1 DEF Holders
  <1>7. CountInv'
    BY <1>6 DEF StorageInv, CountInv
  <1> QED
    BY <1>1, <1>3, <1>5, <1>7 DEF Idle

LEMMA WorkStepKeeps ==
    ASSUME StorageInv, NEW w \in Worker, WorkStep(w)
    PROVE  StorageInv'
  <1>1. working /\ Idle(w) /\ UNCHANGED <<location, count, live, at, working, plan>>
    BY DEF WorkStep
  <1>2. PICK s \in left[w], r \in Rank, duplicate \in BOOLEAN :
            /\ todo' = [todo EXCEPT ![w] = ProduceOffspring(w, r, s, duplicate)]
            /\ left' = [left EXCEPT ![w] = @ \ {s}]
    BY DEF WorkStep
  <1>3. w \in Thread /\ w # Control /\ s \in Share[w] /\ Control \in Thread
    BY ThreadTypes DEF StorageInv, TypeInv
  <1>4. \E E : Program(w, ProduceOffspring(w, r, s, duplicate), E) /\ E[1] = Own(w)
    BY <1>3, WorkerProgram
  <1>5. PICK S : S = ProduceOffspring(w, r, s, duplicate)
    OBVIOUS
  <1>6. /\ ProgramInv' /\ StageInv' /\ CountInv' /\ DOMAIN todo' = Thread
        /\ \A u \in Thread \ {w} : Idle(u)' <=> Idle(u)
    <2>1. (\E E : Program(w, S, E) /\ E[1] = Own(w)) /\ todo' = [todo EXCEPT ![w] = S]
      BY <1>2, <1>4, <1>5
    <2> QED
      BY <1>1, <1>3, <2>1, StartKeeps
  <1>7. RoundInv'
    BY <1>1, <1>3, <1>6 DEF StorageInv, RoundInv
  <1>8. left' \in [Worker -> SUBSET Slot] /\ \A v \in Worker : left'[v] \subseteq Share[v]
    BY <1>2 DEF StorageInv, TypeInv
  <1>9. TypeInv'
    BY <1>1, <1>6, <1>8 DEF StorageInv, TypeInv
  <1> QED
    BY <1>6, <1>7, <1>9 DEF StorageInv

\* Control gets its next program.
LEMMA StartsKeeps ==
    ASSUME StorageInv, NEW S, Starts(S),
           \E E : Program(Control, S, E) /\ E[1] = Own(Control),
           plan' \in [duplicates : SUBSET Slot, ranks : [Slot -> Rank \cup {None}], best : Rank \cup {None}]
    PROVE  StorageInv'
  <1>1. /\ ~working /\ Idle(Control) /\ todo' = [todo EXCEPT ![Control] = S]
        /\ UNCHANGED <<location, count, live, at, left, working>>
    BY DEF Starts
  <1>2. Control \in Thread /\ Worker \subseteq Thread /\ Control \notin Worker
    BY ThreadTypes
  <1>3. /\ ProgramInv' /\ StageInv' /\ CountInv' /\ DOMAIN todo' = Thread
        /\ \A u \in Thread \ {Control} : Idle(u)' <=> Idle(u)
    BY <1>1, <1>2, StartKeeps
  <1>4. RoundInv'
    BY <1>1, <1>2, <1>3 DEF StorageInv, RoundInv
  <1>5. TypeInv'
    BY <1>1, <1>3 DEF StorageInv, TypeInv
  <1> QED
    BY <1>3, <1>4, <1>5 DEF StorageInv

LEMMA ControlKeeps ==
    ASSUME StorageInv, RemoveDuplicates \/ ReplaceGroup \/ KeepBest
    PROVE  StorageInv'
  <1> DEFINE Plans == [duplicates : SUBSET Slot, ranks : [Slot -> Rank \cup {None}], best : Rank \cup {None}]
  <1>0. plan \in Plans
    BY DEF StorageInv, TypeInv
  <1>1. CASE RemoveDuplicates
    <2>1. PICK s \in plan.duplicates : /\ plan' = [plan EXCEPT !.duplicates = @ \ {s}]
                                       /\ Starts(RemoveDuplicate(s))
      BY <1>1 DEF RemoveDuplicates
    <2>2. s \in Slot /\ plan' \in Plans
      BY <1>0, <2>1
    <2>3. \E E : Program(Control, RemoveDuplicate(s), E) /\ E[1] = Own(Control)
      BY <2>2, DuplicateProgram
    <2> QED
      BY <2>1, <2>2, <2>3, StartsKeeps
  <1>2. CASE ReplaceGroup
    <2>1. PICK s \in Slot : /\ plan.ranks[s] # None
                            /\ plan' = [plan EXCEPT !.ranks[s] = None]
                            /\ Starts(Replace(plan.ranks[s], s))
      BY <1>2 DEF ReplaceGroup
    <2>2. plan.ranks[s] \in Rank /\ plan' \in Plans
      BY <1>0, <2>1
    <2>3. \E E : Program(Control, Replace(plan.ranks[s], s), E) /\ E[1] = Own(Control)
      BY <2>2, ReplaceProgram
    <2> QED
      BY <2>1, <2>2, <2>3, StartsKeeps
  <1>3. CASE KeepBest
    <2>1. /\ plan.best # None /\ plan' = Nothing
          /\ Starts(<<Assign(Best, InPopulation(plan.best))>>)
      BY <1>3 DEF KeepBest
    <2>2. plan.best \in Rank
      BY <1>0, <2>1
    <2>4. plan' \in Plans
      BY <2>1 DEF Nothing
    <2>3. \E E : Program(Control, <<Assign(Best, InPopulation(plan.best))>>, E) /\ E[1] = Own(Control)
      BY <2>2, BestProgram
    <2> QED
      BY <2>1, <2>3, <2>4, StartsKeeps
  <1> QED
    BY <1>1, <1>2, <1>3

LEMMA RoundsKeep ==
    ASSUME StorageInv, AfterWorkers \/ NextGeneration
    PROVE  StorageInv'
  <1>1. UNCHANGED <<location, count, live, todo, at>>
    BY DEF AfterWorkers, NextGeneration
  <1>2. ProgramInv' /\ StageInv' /\ CountInv'
    BY <1>1 DEF StorageInv, ProgramInv, StageInv, CountInv, Holders, Changing, Taking, Stores, Doing, Idle, Now, New
  <1>3. RoundInv' /\ working' \in BOOLEAN
    BY <1>1 DEF AfterWorkers, NextGeneration, WorkersOut, RoundInv, Idle
  <1>4. left' \in [Worker -> SUBSET Slot] /\ \A w \in Worker : left'[w] \subseteq Share[w]
    BY ShareAssumption DEF AfterWorkers, NextGeneration, StorageInv, TypeInv
  <1>5. plan' \in [duplicates : SUBSET Slot, ranks : [Slot -> Rank \cup {None}], best : Rank \cup {None}]
    BY DEF AfterWorkers, NextGeneration, StorageInv, TypeInv
  <1>6. TypeInv'
    BY <1>1, <1>3, <1>4, <1>5 DEF StorageInv, TypeInv
  <1> QED
    BY <1>2, <1>3, <1>6 DEF StorageInv

LEMMA InitGivesInv ==
    ASSUME Init
    PROVE  StorageInv
  <1>1. PICK first \in [Rank -> Object] :
            /\ \A q, r \in Rank : first[q] = first[r] => q = r
            /\ location = [p \in Pointer |->
                            IF \E r \in Rank : p = InPopulation(r) THEN first[p[2]] ELSE None]
            /\ live = {first[r] : r \in Rank}
    BY DEF Init
  <1>2. /\ count = [o \in Object |-> IF o \in live THEN 1 ELSE 0]
        /\ todo = [t \in Thread |-> <<>>] /\ at = [t \in Thread |-> "start"]
        /\ left = Share /\ working = TRUE /\ plan = Nothing
    BY DEF Init
  <1>3. /\ \A r \in Rank : location[InPopulation(r)] = first[r]
        /\ \A p \in Pointer : p \notin Ranked => location[p] = None
        /\ location \in [Pointer -> Object \cup {None}]
    <2>1. \A r \in Rank : InPopulation(r) \in Pointer /\ InPopulation(r)[2] = r
      BY PointerTypes, PointersApart
    <2>2. \A r \in Rank : location[InPopulation(r)] = first[r]
      BY <1>1, <2>1
    <2>3. \A p \in Pointer : p \notin Ranked => location[p] = None
      BY <1>1 DEF Ranked
    <2>4. \A p \in Pointer : location[p] \in Object \cup {None}
      BY <2>2, <2>3 DEF Ranked
    <2> QED
      BY <1>1, <2>2, <2>3, <2>4
  <1>4. \A t \in Thread : Idle(t) /\ at[t] = "start"
    BY <1>2 DEF Idle
  <1>5. Control \in Thread /\ Worker \subseteq Thread
    BY ThreadTypes
  <1>6. TypeInv
    <2>1. live \subseteq Object
      BY <1>1
    <2>2. plan \in [duplicates : SUBSET Slot, ranks : [Slot -> Rank \cup {None}], best : Rank \cup {None}]
      BY <1>2 DEF Nothing
    <2>3. count \in [Object -> Int]
      BY <1>2
    <2> QED
      BY <1>2, <1>3, <2>1, <2>2, <2>3, ShareAssumption DEF TypeInv
  <1>7. RoundInv /\ StageInv
    BY <1>2, <1>4, <1>5 DEF RoundInv, StageInv
  <1>8. ProgramInv
    <2>1. ASSUME NEW t \in Thread
          PROVE  \E E : Program(t, todo[t], E) /\ \A p \in E[1] : location[p] = None
      <3>1. \A p \in Own(t) : p \in Pointer /\ p \notin Ranked
        BY PointerTypes, PointersApart DEF Own, Ranked
      <3>2. PICK E : Program(t, <<>>, E) /\ E[1] = Own(t)
        BY EmptyProgram
      <3> QED
        BY <1>2, <1>3, <3>1, <3>2
    <2> QED
      BY <2>1 DEF ProgramInv
  <1>9. ASSUME NEW o \in Object
        PROVE  count[o] = Cardinality(Holders(o)) /\ (o \in live <=> Holders(o) # {})
    <2>1. Holders(o) = {p \in Pointer : location[p] = o}
      BY <1>4 DEF Holders, Changing, Taking, Stores
    <2>2. o # None
      BY ThreadAssumption
    <2>3. CASE o \in live
      <3>1. PICK r \in Rank : o = first[r]
        BY <1>1, <2>3
      <3>2. Holders(o) = {InPopulation(r)}
        <4>1. InPopulation(r) \in Holders(o)
          BY <1>3, <2>1, <3>1, PointerTypes
        <4>2. ASSUME NEW p \in Holders(o) PROVE p = InPopulation(r)
          <5>1. p \in Pointer /\ location[p] = o
            BY <2>1
          <5>2. PICK q \in Rank : p = InPopulation(q)
            BY <5>1, <1>3, <2>2 DEF Ranked
          <5> QED
            BY <5>1, <5>2, <1>1, <1>3, <3>1
        <4> QED
          BY <4>1, <4>2
      <3>3. Cardinality({InPopulation(r)}) = 1
        BY FS_Singleton
      <3> QED
        BY <1>2, <2>3, <3>2, <3>3
    <2>4. CASE o \notin live
      <3>1. Holders(o) = {}
        <4>1. ASSUME NEW p \in Holders(o) PROVE FALSE
          <5>1. p \in Pointer /\ location[p] = o
            BY <2>1
          <5>2. PICK q \in Rank : p = InPopulation(q)
            BY <5>1, <1>3, <2>2 DEF Ranked
          <5> QED
            BY <5>1, <5>2, <1>1, <1>3, <2>4
        <4> QED
          BY <4>1
      <3> QED
        BY <1>2, <2>4, <3>1, FS_EmptySet
    <2> QED
      BY <2>3, <2>4
  <1> QED
    BY <1>6, <1>7, <1>8, <1>9 DEF StorageInv, CountInv

-----------------------------------------------------------------------------
LEMMA StepKeeps ==
    ASSUME StorageInv, [Next]_vars
    PROVE  StorageInv'
  <1>1. ASSUME NEW t \in Thread, Step(t) PROVE StorageInv'
    BY <1>1, CompareKeeps, ReleaseKeeps, AcquireKeeps, StoreKeeps, LeaveKeeps, MakeKeeps, CheckKeeps DEF Step
  <1>2. ASSUME NEW w \in Worker, WorkStep(w) PROVE StorageInv'
    BY <1>2, WorkStepKeeps
  <1>3. CASE AfterWorkers \/ NextGeneration
    BY <1>3, RoundsKeep
  <1>4. CASE RemoveDuplicates \/ ReplaceGroup \/ KeepBest
    BY <1>4, ControlKeeps
  <1>5. CASE UNCHANGED vars
    <2>1. TypeInv' /\ RoundInv' /\ ProgramInv'
      BY <1>5 DEF vars, StorageInv, TypeInv, RoundInv, ProgramInv, Idle
    <2>2. StageInv' /\ CountInv'
      BY <1>5 DEF vars, StorageInv, StageInv, CountInv, Holders, Changing, Taking, Stores, Doing, Idle, Now, New
    <2> QED
      BY <2>1, <2>2 DEF StorageInv
  <1> QED
    BY <1>1, <1>2, <1>3, <1>4, <1>5 DEF Next

LEMMA InvHolds == Spec => []StorageInv
  <1>1. Init => StorageInv
    BY InitGivesInv
  <1>2. StorageInv /\ [Next]_vars => StorageInv'
    BY StepKeeps
  <1> QED
    BY <1>1, <1>2, PTL DEF Spec

(***************************************************************************)
(* No thread touches an object that was deleted, though the spin locks of  *)
(* inc/SmartPtr.h keep nobody out: an object is deleted with its last      *)
(* holder, and whoever touches it reads a pointer that holds it.           *)
(***************************************************************************)
THEOREM NothingUsedAfterFree == Spec => []NoUseAfterFree
  <1>1. StorageInv => NoUseAfterFree
    BY InvGivesNoUseAfterFree
  <1> QED
    BY <1>1, InvHolds, PTL

(***************************************************************************)
(* Chromosomes do not pile up: an object that is not deleted has a holder, *)
(* and a holder either refers to it or is about to.                        *)
(***************************************************************************)
THEOREM NothingLeaks == Spec => []FreedWhenUnused
  <1>1. StorageInv => FreedWhenUnused
    BY InvGivesFreedWhenUnused
  <1> QED
    BY <1>1, InvHolds, PTL
=============================================================================
