------------------------- MODULE ScopedRefptrProofs -------------------------
(***************************************************************************)
(* What is proved of ScopedRefptr, for any number of threads, pointers and *)
(* objects and for all programs.                                           *)
(*                                                                         *)
(* The counter of an object is the number of its references: the pointers  *)
(* that hold it once their owners' operations are done and that have their *)
(* reference already, and the threads that still have to release it.       *)
(***************************************************************************)
EXTENDS ScopedRefptr, FiniteSetTheorems, TLAPS

IsStore(s, p) == s.op = "Store" /\ s.on = p

(* What pointer p holds after the steps q, when it holds x before them.    *)
After(q, p, x) ==
  IF Len(q) >= 3 /\ IsStore(q[3], p) THEN q[3].to
  ELSE IF Len(q) >= 2 /\ IsStore(q[2], p) THEN q[2].to
  ELSE IF Len(q) >= 1 /\ IsStore(q[1], p) THEN q[1].to
  ELSE x

Final(p) == After(todo[owner[p]], p, ptr_[p])

(* Thread t still has to take a reference to o for p, or to release o.     *)
Adds(t, o, p)  == \E i \in DOMAIN todo[t] : todo[t][i] = AddRef(o, p)
Releases(t, o) == \E i \in DOMAIN todo[t] : todo[t][i] = Release(o)

Taking(p) == \E o \in Objects : Adds(owner[p], o, p)

Refs(o) ==
  {p \in Pointers : Final(p) = o /\ ~Taking(p)}
    \cup {t \in Threads : Releases(t, o)}

(* The references to o that thread t has in hand.                          *)
Kept(t, o) ==
  \/ \E r \in Pointers : owner[r] = t /\ r \in Refs(o)
  \/ t \in Refs(o)

PendingSteps ==
  {AddRef(o, p) : o \in Objects \cup {Null}, p \in Pointers}
  \cup {Release(o) : o \in Objects \cup {Null}}
  \cup {Touch(o) : o \in Objects}
  \cup {Store(p, o) : o \in Objects \cup {Null}, p \in Pointers}

RefType ==
  /\ TypeOK
  /\ todo \in [Threads -> Seq(PendingSteps)]
  /\ script \in [Threads -> Seq(Ops)]

(* An operation works on pointers of its own thread, takes its reference   *)
(* before it releases one, and takes it for the pointer that will hold it. *)
OwnSteps ==
  \A t \in Threads : \A i \in DOMAIN todo[t] :
    /\ todo[t][i].op = "Store" => owner[todo[t][i].on] = t
    /\ todo[t][i].op = "AddRef" => /\ owner[todo[t][i].to] = t
                                   /\ Final(todo[t][i].to) = todo[t][i].on
    /\ \A j \in DOMAIN todo[t] : i < j =>
         /\ todo[t][i].op = "Release" => todo[t][j].op = "Store"
         /\ todo[t][i].op = "AddRef" => todo[t][j].op # "AddRef"

Counted == \A o \in Objects : ref_count_[o] = Cardinality(Refs(o))

(* Who takes a reference has one in hand, or has just created the object.  *)
HasSource ==
  \A t \in Threads, o \in Objects, p \in Pointers : Adds(t, o, p) =>
    \/ Kept(t, o)
    \/ /\ Refs(o) = {}
       /\ \A u \in Threads \ {t}, q \in Pointers : ~Adds(u, o, q)

Unused(o) ==
  Refs(o) = {} /\ \A t \in Threads, p \in Pointers : ~Adds(t, o, p)

(* An object is alive only while it is used, and new before it is.         *)
UsedWhileAlive ==
  \A o \in Objects : /\ object[o] = "none" => Unused(o)
                     /\ object[o] = "alive" => ~Unused(o)

RefInv == RefType /\ OwnSteps /\ Counted /\ HasSource /\ UsedWhileAlive

(* Raw pointers are used only while their objects live.                    *)
CallsAreSafe ==
  \A t \in Threads : todo[t] # <<>> /\ Head(todo[t]).op = "Touch" =>
    object[Head(todo[t]).on] = "alive"

AliveWhileUsed ==
  \A o \in Objects : object[o] # "corrupt" /\ (object[o] # "alive" => Unused(o))

-----------------------------------------------------------------------------
(* Sequences of steps.                                                     *)

(* The tail of a sequence, position by position.                           *)
LEMMA TailPositions ==
  ASSUME NEW S, NEW q \in Seq(S), q # <<>>
  PROVE  /\ Tail(q) \in Seq(S)
         /\ Len(Tail(q)) = Len(q) - 1
         /\ 1 \in DOMAIN q /\ Head(q) = q[1] /\ Head(q) \in S
         /\ \A i \in DOMAIN Tail(q) : i + 1 \in DOMAIN q /\ Tail(q)[i] = q[i + 1]
         /\ \A j \in DOMAIN q :
              j = 1 \/ (j - 1 \in DOMAIN Tail(q) /\ Tail(q)[j - 1] = q[j])
OBVIOUS

(* Taking the first step brings p closer to what it will hold.             *)
LEMMA AfterTail ==
  ASSUME NEW S, NEW q \in Seq(S), q # <<>>, Len(q) <= 3, NEW p, NEW x
  PROVE  After(Tail(q), p, IF IsStore(Head(q), p) THEN Head(q).to ELSE x)
           = After(q, p, x)
<1> DEFINE y == IF IsStore(Head(q), p) THEN Head(q).to ELSE x
           r == Tail(q)
<1>1. Len(q) \in Nat /\ Len(q) # 0 /\ Head(q) = q[1] /\ Len(r) = Len(q) - 1
  BY TailPositions
<1>2. Len(q) = 1 \/ Len(q) = 2 \/ Len(q) = 3
  BY <1>1
<1>3. /\ Len(q) >= 2 => r[1] = q[2]
      /\ Len(q) >= 3 => r[2] = q[3]
  <2>1. \A i \in 1..Len(r) : r[i] = q[i + 1]
    BY TailPositions
  <2> QED
    BY <1>1, <1>2, <2>1
<1>4. y = IF IsStore(q[1], p) THEN q[1].to ELSE x
  BY <1>1
<1> HIDE DEF y, r
<1>5. After(r, p, y) = After(q, p, x)
  <2>1. CASE Len(q) = 1
    BY <1>1, <1>4, <2>1 DEF After
  <2>2. CASE Len(q) = 2
    BY <1>1, <1>3, <1>4, <2>2 DEF After
  <2>3. CASE Len(q) = 3
    BY <1>1, <1>3, <1>4, <2>3 DEF After
  <2> QED
    BY <1>2, <2>1, <2>2, <2>3
<1> QED
  BY <1>5 DEF y, r

(* A pending step names objects and pointers.                              *)
LEMMA StepFields ==
  ASSUME NEW s \in PendingSteps
  PROVE  /\ s.op \in {"AddRef", "Release", "Touch", "Store"}
         /\ s.op = "AddRef" => /\ s.on \in Objects \cup {Null} /\ s.to \in Pointers
                               /\ s = AddRef(s.on, s.to)
         /\ s.op = "Release" => s.on \in Objects \cup {Null} /\ s = Release(s.on)
         /\ s.op = "Touch" => s.on \in Objects /\ s = Touch(s.on)
         /\ s.op = "Store" => s.on \in Pointers /\ s.to \in Objects \cup {Null}
BY DEF PendingSteps, AddRef, Release, Touch, Store

(* Which kinds of steps two steps are, when they are equal.                *)
LEMMA StepKinds ==
  ASSUME NEW o, NEW p
  PROVE  /\ AddRef(o, p).op = "AddRef" /\ AddRef(o, p).on = o /\ AddRef(o, p).to = p
         /\ Release(o).op = "Release" /\ Release(o).on = o
BY DEF AddRef, Release

-----------------------------------------------------------------------------
(* What a single step does to the references.                              *)

(* The pointer that a step writes was to hold that value anyhow.           *)
LEMMA StepKeepsFinal ==
  ASSUME RefType, OwnSteps, NEW t \in Threads, Step(t), NEW p \in Pointers
  PROVE  Final(p)' = Final(p)
<1> DEFINE s == Head(todo[t])
<1>1. /\ todo[t] \in Seq(PendingSteps) /\ todo[t] # <<>> /\ Len(todo[t]) <= 3
      /\ owner[p] \in Threads
  BY DEF RefType, TypeOK, Step
<1>2. s \in PendingSteps /\ 1 \in DOMAIN todo[t] /\ s = todo[t][1]
  BY <1>1, TailPositions
<1>3. todo' = [todo EXCEPT ![t] = Tail(todo[t])] /\ owner' = owner
  BY DEF Step
<1>4. ptr_'[p] = IF IsStore(s, p) THEN s.to ELSE ptr_[p]
  <2>1. ptr_ \in [Pointers -> Objects \cup {Null}]
    BY DEF RefType, TypeOK
  <2>2. s.op = "Store" => s.on \in Pointers /\ s.on # Null
    BY <1>2, StepFields, ScopedRefptrAssumption
  <2>3. \/ s.op = "Store" /\ ptr_' = [ptr_ EXCEPT ![s.on] = s.to]
        \/ s.op # "Store" /\ ptr_' = ptr_
    BY <2>2 DEF Step
  <2> QED
    BY <2>1, <2>2, <2>3 DEF IsStore
<1>5. CASE owner[p] = t
  <2>1. todo'[t] = Tail(todo[t])
    BY <1>3 DEF RefType
  <2> HIDE DEF s
  <2> QED
    BY <1>1, <1>3, <1>4, <1>5, <2>1, AfterTail DEF Final, s
<1>6. CASE owner[p] # t
  <2>1. ~IsStore(s, p)
    BY <1>2, <1>6 DEF OwnSteps, IsStore
  <2>2. todo'[owner[p]] = todo[owner[p]]
    BY <1>1, <1>3, <1>6 DEF RefType
  <2> QED
    BY <1>3, <1>4, <2>1, <2>2 DEF Final
<1> QED
  BY <1>5, <1>6

(* A step leaves pending what it does not do itself.                       *)
LEMMA StepPending ==
  ASSUME RefType, OwnSteps, NEW t \in Threads, Step(t), NEW u \in Threads
  PROVE  /\ \A o \in Objects, p \in Pointers :
              Adds(u, o, p)' <=> Adds(u, o, p) /\ ~(u = t /\ Head(todo[t]) = AddRef(o, p))
         /\ \A o \in Objects :
              Releases(u, o)' <=> Releases(u, o) /\ ~(u = t /\ Head(todo[t]) = Release(o))
<1>1. /\ todo[t] \in Seq(PendingSteps) /\ todo[t] # <<>>
      /\ todo' = [todo EXCEPT ![t] = Tail(todo[t])]
      /\ todo \in [Threads -> Seq(PendingSteps)]
  BY DEF RefType, Step
<1>2. CASE u # t
  <2>1. todo'[u] = todo[u]
    BY <1>1, <1>2
  <2> QED
    BY <1>2, <2>1 DEF Adds, Releases
<1>3. CASE u = t
  <2> DEFINE q == todo[t]
             s == Head(q)
  <2>1. /\ todo'[t] = Tail(q)
        /\ 1 \in DOMAIN q /\ s = q[1]
        /\ \A i \in DOMAIN Tail(q) : i + 1 \in DOMAIN q /\ Tail(q)[i] = q[i + 1]
        /\ \A j \in DOMAIN q :
             j = 1 \/ (j - 1 \in DOMAIN Tail(q) /\ Tail(q)[j - 1] = q[j])
    BY <1>1, TailPositions
  <2>2. \A i \in DOMAIN Tail(q) : 1 < i + 1
    BY <1>1, TailPositions
  <2>3. ASSUME NEW e PROVE (\E j \in DOMAIN q : q[j] = e) <=>
                             \/ s = e
                             \/ \E i \in DOMAIN Tail(q) : Tail(q)[i] = e
    <3> HIDE DEF s
    <3>1. ASSUME NEW j \in DOMAIN q, q[j] = e
          PROVE  s = e \/ \E i \in DOMAIN Tail(q) : Tail(q)[i] = e
      <4>1. CASE j = 1
        BY <2>1, <3>1, <4>1, SMT
      <4>2. CASE j # 1
        <5>1. j - 1 \in DOMAIN Tail(q) /\ Tail(q)[j - 1] = e
          BY <2>1, <3>1, <4>2, Zenon
        <5> QED
          BY <5>1, Zenon
      <4> QED
        BY <4>1, <4>2
    <3>2. ASSUME s = e
          PROVE  \E j \in DOMAIN q : q[j] = e
      <4>1. 1 \in DOMAIN q /\ q[1] = e
        BY <2>1, <3>2, SMT
      <4> QED
        BY <4>1, Zenon
    <3>3. ASSUME NEW i \in DOMAIN Tail(q), Tail(q)[i] = e
          PROVE  \E j \in DOMAIN q : q[j] = e
      <4>1. i + 1 \in DOMAIN q /\ q[i + 1] = e
        BY <2>1, <3>3, SMT
      <4> QED
        BY <4>1, Zenon
    <3> QED
      BY <3>1, <3>2, <3>3, Zenon
  <2>4. ASSUME NEW i \in DOMAIN Tail(q)
        PROVE  /\ s.op = "Release" => Tail(q)[i].op = "Store"
               /\ s.op = "AddRef" => Tail(q)[i].op # "AddRef"
    BY <2>1, <2>2 DEF OwnSteps
  <2>5. ASSUME NEW o, NEW p, s = AddRef(o, p)
        PROVE  ~\E i \in DOMAIN Tail(q) : Tail(q)[i] = AddRef(o, p)
    BY <2>4, <2>5, StepKinds
  <2>6. ASSUME NEW o, s = Release(o)
        PROVE  ~\E i \in DOMAIN Tail(q) : Tail(q)[i] = Release(o)
    BY <2>4, <2>6, StepKinds
  <2> HIDE DEF q, s
  <2>7. ASSUME NEW o \in Objects, NEW p \in Pointers
        PROVE  Adds(t, o, p)' <=> Adds(t, o, p) /\ s # AddRef(o, p)
    <3>1. Adds(t, o, p)' <=> \E i \in DOMAIN Tail(q) : Tail(q)[i] = AddRef(o, p)
      BY <2>1 DEF Adds
    <3>2. Adds(t, o, p) <=> \E j \in DOMAIN q : q[j] = AddRef(o, p)
      BY DEF Adds, q
    <3> QED
      BY <3>1, <3>2, <2>3, <2>5, Zenon
  <2>8. ASSUME NEW o \in Objects
        PROVE  Releases(t, o)' <=> Releases(t, o) /\ s # Release(o)
    <3>1. Releases(t, o)' <=> \E i \in DOMAIN Tail(q) : Tail(q)[i] = Release(o)
      BY <2>1 DEF Releases
    <3>2. Releases(t, o) <=> \E j \in DOMAIN q : q[j] = Release(o)
      BY DEF Releases, q
    <3> QED
      BY <3>1, <3>2, <2>3, <2>6, Zenon
  <2> QED
    BY <1>3, <2>7, <2>8 DEF q, s
<1> QED
  BY <1>2, <1>3

(* References are pointers or threads, and these are told apart.           *)
LEMMA InRefs ==
  ASSUME NEW o \in Objects
  PROVE  /\ \A p \in Pointers : p \in Refs(o) <=> Final(p) = o /\ ~Taking(p)
         /\ \A t \in Threads : t \in Refs(o) <=> Releases(t, o)
         /\ Refs(o) \subseteq Pointers \cup Threads
BY ScopedRefptrAssumption DEF Refs

(* The same after a step.                                                  *)
LEMMA InRefsPrime ==
  ASSUME NEW o \in Objects
  PROVE  /\ \A p \in Pointers : p \in Refs(o)' <=> Final(p)' = o /\ ~Taking(p)'
         /\ \A t \in Threads : t \in Refs(o)' <=> Releases(t, o)'
         /\ Refs(o)' \subseteq Pointers \cup Threads
BY ScopedRefptrAssumption DEF Refs

(* A reference is taken for a pointer of the thread that will hold it.     *)
LEMMA AddsFinal ==
  ASSUME OwnSteps, NEW t \in Threads, NEW o, NEW p, Adds(t, o, p)
  PROVE  owner[p] = t /\ Final(p) = o
BY StepKinds DEF OwnSteps, Adds

(* No reference appears but by AddRef, none disappears but by Release.     *)
LEMMA StepRefs ==
  ASSUME RefType, OwnSteps, NEW t \in Threads, Step(t), NEW o \in Objects
  PROVE  /\ \A p \in Pointers : Head(todo[t]) = AddRef(o, p) =>
              Refs(o)' = Refs(o) \cup {p} /\ p \notin Refs(o)
         /\ Head(todo[t]) = Release(o) =>
              Refs(o)' = Refs(o) \ {t} /\ t \in Refs(o)
         /\ (\A p \in Pointers : Head(todo[t]) # AddRef(o, p))
              /\ Head(todo[t]) # Release(o) => Refs(o)' = Refs(o)
<1> DEFINE s == Head(todo[t])
<1>1. /\ 1 \in DOMAIN todo[t] /\ s = todo[t][1]
      /\ owner' = owner /\ owner \in [Pointers -> Threads]
  BY TailPositions DEF RefType, TypeOK, Step
<1>2. \A p \in Pointers : Final(p)' = Final(p)
  BY StepKeepsFinal
<1>3. \A p \in Pointers :
        Taking(p)' <=> \E x \in Objects : /\ Adds(owner[p], x, p)
                                          /\ ~(owner[p] = t /\ s = AddRef(x, p))
  BY <1>1, StepPending DEF Taking
<1>4. \A u \in Threads :
        Releases(u, o)' <=> Releases(u, o) /\ ~(u = t /\ s = Release(o))
  BY StepPending
<1>5. ASSUME NEW p \in Pointers, Final(p) = o
      PROVE  Taking(p)' <=> Taking(p) /\ ~(s = AddRef(o, p))
  <2>1. \A x \in Objects : Adds(owner[p], x, p) => x = o
    BY <1>1, <1>5, AddsFinal
  <2>2. s = AddRef(o, p) => owner[p] = t
    BY <1>1, AddsFinal DEF Adds
  <2> QED
    BY <1>3, <2>1, <2>2 DEF Taking
<1>6. ASSUME NEW p \in Pointers
      PROVE  p \in Refs(o)' <=> p \in Refs(o) \/ (Final(p) = o /\ s = AddRef(o, p))
  <2>1. s = AddRef(o, p) => Taking(p) /\ Final(p) = o
    <3>1. s = AddRef(o, p) => Adds(t, o, p)
      BY <1>1 DEF Adds
    <3> QED
      BY <3>1, AddsFinal DEF Taking
  <2> QED
    BY <1>2, <1>5, <2>1, InRefs, InRefsPrime
<1>7. \A u \in Threads : u \in Refs(o)' <=> u \in Refs(o) /\ ~(u = t /\ s = Release(o))
  BY <1>4, InRefs, InRefsPrime
<1>8. ASSUME NEW p \in Pointers, s = AddRef(o, p)
      PROVE  Refs(o)' = Refs(o) \cup {p} /\ p \notin Refs(o)
  <2>1. Adds(t, o, p)
    BY <1>1, <1>8 DEF Adds
  <2>2. Final(p) = o /\ Taking(p) /\ owner[p] = t
    BY <2>1, AddsFinal DEF Taking
  <2>3. s # Release(o) /\ \A q \in Pointers : s = AddRef(o, q) => q = p
    BY <1>8, StepKinds
  <2>4. \A q \in Pointers : q \in Refs(o)' <=> q \in Refs(o) \/ q = p
    BY <1>6, <1>8, <2>2, <2>3
  <2>5. \A u \in Threads : u \in Refs(o)' <=> u \in Refs(o)
    BY <1>7, <2>3
  <2>6. p \notin Refs(o)
    BY <2>2, InRefs
  <2> HIDE DEF s
  <2> QED
    BY <2>4, <2>5, <2>6, InRefs, InRefsPrime
<1>9. ASSUME s = Release(o)
      PROVE  Refs(o)' = Refs(o) \ {t} /\ t \in Refs(o)
  <2>1. \A q \in Pointers : s # AddRef(o, q)
    BY <1>9, StepKinds
  <2>2. Releases(t, o)
    BY <1>1, <1>9 DEF Releases
  <2>3. \A q \in Pointers : (q \in Refs(o)' <=> q \in Refs(o)) /\ q # t
    BY <1>6, <2>1, ScopedRefptrAssumption
  <2>4. \A u \in Threads : u \in Refs(o)' <=> u \in Refs(o) /\ u # t
    BY <1>7, <1>9
  <2> HIDE DEF s
  <2> QED
    BY <2>2, <2>3, <2>4, InRefs, InRefsPrime
<1>10. ASSUME \A p \in Pointers : s # AddRef(o, p), s # Release(o)
       PROVE  Refs(o)' = Refs(o)
  <2>1. \A q \in Pointers : q \in Refs(o)' <=> q \in Refs(o)
    BY <1>6, <1>10
  <2>2. \A u \in Threads : u \in Refs(o)' <=> u \in Refs(o)
    BY <1>7, <1>10
  <2> HIDE DEF s
  <2> QED
    BY <2>1, <2>2, InRefs, InRefsPrime
<1> QED
  BY <1>8, <1>9, <1>10

-----------------------------------------------------------------------------
(* What the beginning of an operation does to the references.              *)

(* Thread t, which is in no operation, gets the steps of one.              *)
Starts(t, steps) ==
  /\ steps \in Seq(PendingSteps) /\ Len(steps) <= 3
  /\ todo[t] = <<>>
  /\ todo' = [todo EXCEPT ![t] = steps]
  /\ UNCHANGED <<ptr_, owner, ref_count_>>

(* It changes what its own pointers will hold and nothing else.            *)
LEMMA StartFacts ==
  ASSUME RefType, NEW t \in Threads, NEW steps, Starts(t, steps)
  PROVE  /\ \A p \in Pointers : owner[p] = t =>
              /\ Final(p) = ptr_[p] /\ ~Taking(p)
              /\ Final(p)' = After(steps, p, ptr_[p])
              /\ Taking(p)' <=> \E o \in Objects : Adds(t, o, p)'
         /\ \A p \in Pointers : owner[p] # t =>
              Final(p)' = Final(p) /\ (Taking(p)' <=> Taking(p))
         /\ \A u \in Threads \ {t} : \A o, p : Adds(u, o, p)' <=> Adds(u, o, p)
         /\ \A u \in Threads \ {t} : \A o : Releases(u, o)' <=> Releases(u, o)
         /\ \A o, p : ~Adds(t, o, p) /\ ~Releases(t, o)
         /\ \A o, p : Adds(t, o, p)' <=> \E i \in DOMAIN steps : steps[i] = AddRef(o, p)
         /\ \A o : Releases(t, o)' <=> \E i \in DOMAIN steps : steps[i] = Release(o)
<1>1. /\ todo[t] = <<>> /\ todo'[t] = steps
      /\ \A u \in Threads \ {t} : todo'[u] = todo[u]
      /\ owner' = owner /\ ptr_' = ptr_
      /\ owner \in [Pointers -> Threads]
  BY DEF RefType, TypeOK, Starts
<1>2. \A o, p : ~Adds(t, o, p) /\ ~Releases(t, o)
  BY <1>1 DEF Adds, Releases
<1>3. \A u \in Threads \ {t} : \A o, p : Adds(u, o, p)' <=> Adds(u, o, p)
  BY <1>1 DEF Adds
<1>4. \A u \in Threads \ {t} : \A o : Releases(u, o)' <=> Releases(u, o)
  BY <1>1 DEF Releases
<1>5. \A o, p : Adds(t, o, p)' <=> \E i \in DOMAIN steps : steps[i] = AddRef(o, p)
  BY <1>1 DEF Adds
<1>6. \A o : Releases(t, o)' <=> \E i \in DOMAIN steps : steps[i] = Release(o)
  BY <1>1 DEF Releases
<1>7. ASSUME NEW p \in Pointers, owner[p] = t
      PROVE  /\ Final(p) = ptr_[p] /\ ~Taking(p)
             /\ Final(p)' = After(steps, p, ptr_[p])
             /\ Taking(p)' <=> \E o \in Objects : Adds(t, o, p)'
  <2>1. After(<<>>, p, ptr_[p]) = ptr_[p]
    BY DEF After
  <2> QED
    BY <1>1, <1>2, <1>7, <2>1 DEF Final, Taking
<1>8. ASSUME NEW p \in Pointers, owner[p] # t
      PROVE  Final(p)' = Final(p) /\ (Taking(p)' <=> Taking(p))
  BY <1>1, <1>3, <1>8 DEF Final, Taking
<1> QED
  BY <1>2, <1>3, <1>4, <1>5, <1>6, <1>7, <1>8

(* The steps are in order, and on pointers of t.                           *)
WellOrdered(t, steps) ==
  \A i \in DOMAIN steps :
    /\ steps[i].op = "Store" => owner[steps[i].on] = t
    /\ steps[i].op = "AddRef" =>
         /\ owner[steps[i].to] = t
         /\ After(steps, steps[i].to, ptr_[steps[i].to]) = steps[i].on
    /\ \A j \in DOMAIN steps : i < j =>
         /\ steps[i].op = "Release" => steps[j].op = "Store"
         /\ steps[i].op = "AddRef" => steps[j].op # "AddRef"

(* Then every thread's steps still are.                                    *)
LEMMA StartKeepsOwn ==
  ASSUME RefType, OwnSteps, NEW t \in Threads, NEW steps, Starts(t, steps),
         WellOrdered(t, steps)
  PROVE  OwnSteps'
<1>0. /\ todo'[t] = steps
      /\ \A u \in Threads \ {t} : todo'[u] = todo[u]
      /\ owner' = owner
      /\ steps \in Seq(PendingSteps)
      /\ todo \in [Threads -> Seq(PendingSteps)]
  BY DEF RefType, TypeOK, Starts
<1> DEFINE Holds(p) == After(todo'[owner'[p]], p, ptr_'[p])
<1>1. ASSUME NEW i \in DOMAIN steps
      PROVE  steps[i].op = "AddRef" => Holds(steps[i].to) = steps[i].on
  <2>1. steps[i] \in PendingSteps
    BY <1>0
  <2>2. steps[i].op = "AddRef" =>
          /\ steps[i].to \in Pointers /\ owner[steps[i].to] = t
          /\ After(steps, steps[i].to, ptr_[steps[i].to]) = steps[i].on
    BY <2>1, StepFields DEF WellOrdered
  <2>3. \A p \in Pointers : owner[p] = t => Holds(p) = After(steps, p, ptr_[p])
    BY StartFacts DEF Final
  <2> QED
    BY <2>2, <2>3
<1>2. ASSUME NEW u \in Threads \ {t}, NEW i \in DOMAIN todo[u]
      PROVE  todo[u][i].op = "AddRef" => Holds(todo[u][i].to) = todo[u][i].on
  <2>1. todo[u][i] \in PendingSteps
    BY <1>0
  <2>2. todo[u][i].op = "AddRef" =>
          /\ todo[u][i].to \in Pointers /\ owner[todo[u][i].to] = u
          /\ Final(todo[u][i].to) = todo[u][i].on
    BY <2>1, StepFields DEF OwnSteps
  <2>3. \A p \in Pointers : owner[p] # t => Holds(p) = Final(p)
    BY StartFacts DEF Final
  <2> QED
    BY <2>2, <2>3
<1> SUFFICES ASSUME NEW u \in Threads, NEW i \in DOMAIN todo'[u]
    PROVE  /\ todo'[u][i].op = "Store" => owner'[todo'[u][i].on] = u
           /\ todo'[u][i].op = "AddRef" => /\ owner'[todo'[u][i].to] = u
                                           /\ Holds(todo'[u][i].to) = todo'[u][i].on
           /\ \A j \in DOMAIN todo'[u] : i < j =>
                /\ todo'[u][i].op = "Release" => todo'[u][j].op = "Store"
                /\ todo'[u][i].op = "AddRef" => todo'[u][j].op # "AddRef"
  BY DEF OwnSteps, Final
<1> HIDE DEF Holds
<1>3. CASE u = t
  BY <1>0, <1>1, <1>3 DEF WellOrdered
<1>4. CASE u # t
  <2>1. todo'[u] = todo[u] /\ u \in Threads \ {t}
    BY <1>0, <1>4
  <2>2. i \in DOMAIN todo[u]
    BY <2>1
  <2>3. todo[u][i].op = "AddRef" => Holds(todo[u][i].to) = todo[u][i].on
    BY <1>2, <2>1, <2>2
  <2> QED
    BY <1>0, <2>1, <2>2, <2>3 DEF OwnSteps
<1> QED
  BY <1>3, <1>4

(* Which references an operation of t brings and takes.                    *)
LEMMA StartRefs ==
  ASSUME RefType, NEW t \in Threads, NEW steps, Starts(t, steps), OwnSteps',
         NEW o \in Objects
  PROVE  /\ t \notin Refs(o)
         /\ t \in Refs(o)' <=> \E i \in DOMAIN steps : steps[i] = Release(o)
         /\ \A u \in Threads \ {t} : u \in Refs(o)' <=> u \in Refs(o)
         /\ \A p \in Pointers : owner[p] # t => (p \in Refs(o)' <=> p \in Refs(o))
         /\ \A p \in Pointers : owner[p] = t =>
              /\ p \in Refs(o) <=> ptr_[p] = o
              /\ p \in Refs(o)' <=> /\ After(steps, p, ptr_[p]) = o
                                    /\ ~\E i \in DOMAIN steps : steps[i] = AddRef(o, p)
         /\ Refs(o) \subseteq Pointers \cup Threads
         /\ Refs(o)' \subseteq Pointers \cup Threads
<1>1. t \notin Refs(o) /\ (t \in Refs(o)' <=> \E i \in DOMAIN steps : steps[i] = Release(o))
  BY StartFacts, InRefs, InRefsPrime
<1>2. \A u \in Threads \ {t} : u \in Refs(o)' <=> u \in Refs(o)
  BY StartFacts, InRefs, InRefsPrime
<1>3. \A p \in Pointers : owner[p] # t => (p \in Refs(o)' <=> p \in Refs(o))
  BY StartFacts, InRefs, InRefsPrime
<1>4. ASSUME NEW p \in Pointers, owner[p] = t
      PROVE  /\ p \in Refs(o) <=> ptr_[p] = o
             /\ p \in Refs(o)' <=> /\ After(steps, p, ptr_[p]) = o
                                   /\ ~\E i \in DOMAIN steps : steps[i] = AddRef(o, p)
  <2>1. p \in Refs(o) <=> ptr_[p] = o
    BY <1>4, StartFacts, InRefs
  <2>2. \A x \in Objects : Adds(t, x, p)' => Final(p)' = x
    <3>1. ASSUME NEW x \in Objects, NEW i \in DOMAIN todo'[t], todo'[t][i] = AddRef(x, p)
          PROVE  After(todo'[owner'[p]], p, ptr_'[p]) = x
      <4>1. todo'[t][i].op = "AddRef" /\ todo'[t][i].to = p /\ todo'[t][i].on = x
        BY <3>1, StepKinds
      <4> QED
        BY <4>1 DEF OwnSteps, Final
    <3> QED
      BY <3>1 DEF Adds, Final
  <2>3. Final(p)' = o => (Taking(p)' <=> Adds(t, o, p)')
    BY <1>4, <2>2, StartFacts
  <2>4. p \in Refs(o)' <=> Final(p)' = o /\ ~Adds(t, o, p)'
    BY <2>3, InRefsPrime
  <2>5. /\ Final(p)' = After(steps, p, ptr_[p])
        /\ Adds(t, o, p)' <=> \E i \in DOMAIN steps : steps[i] = AddRef(o, p)
    BY <1>4, StartFacts
  <2> QED
    BY <2>1, <2>4, <2>5
<1>5. Refs(o) \subseteq Pointers \cup Threads /\ Refs(o)' \subseteq Pointers \cup Threads
  BY InRefs, InRefsPrime
<1> QED
  BY <1>1, <1>2, <1>3, <1>4, <1>5

(* One reference is exchanged for another.                                 *)
Swapped(o, a, b) ==
  a \in Refs(o) /\ b \notin Refs(o) /\ Refs(o)' = (Refs(o) \ {a}) \cup {b}

(* Shared by the operations: no reference is lost or gained by beginning   *)
(* one, and who will take a reference keeps another until then.            *)
Conserves(t) ==
  /\ \A o \in Objects : Refs(o)' = Refs(o) \/ \E a, b : Swapped(o, a, b)
  /\ \A o \in Objects, p \in Pointers :
       Adds(t, o, p)' => Kept(t, o)' \/ (object[o] = "none" /\ object'[o] = "alive")
  /\ \A o \in Objects :
       \/ object'[o] = object[o]
       \/ /\ object[o] = "none" /\ object'[o] = "alive"
          /\ \E p \in Pointers : Adds(t, o, p)'

(* An exchange leaves the number of references as it was.                  *)
LEMMA SwapCounts ==
  ASSUME NEW S, IsFiniteSet(S), NEW a \in S, NEW b, b \notin S
  PROVE  Cardinality((S \ {a}) \cup {b}) = Cardinality(S)
<1>1. IsFiniteSet(S \ {a}) /\ Cardinality(S \ {a}) = Cardinality(S) - 1
  BY FS_RemoveElement
<1>2. Cardinality((S \ {a}) \cup {b}) = Cardinality(S \ {a}) + 1
  <2>1. b \notin S \ {a}
    OBVIOUS
  <2> QED
    BY <1>1, <2>1, FS_AddElement
<1>3. Cardinality(S) \in Nat
  BY FS_CardinalityType
<1> QED
  BY <1>1, <1>2, <1>3

(* There are finitely many references.                                     *)
LEMMA FiniteRefs ==
  ASSUME NEW o \in Objects
  PROVE  IsFiniteSet(Refs(o)) /\ Cardinality(Refs(o)) \in Nat
<1>1. IsFiniteSet(Pointers \cup Threads)
  BY ScopedRefptrAssumption, FS_Union
<1>2. Refs(o) \subseteq Pointers \cup Threads
  BY InRefs
<1> QED
  BY <1>1, <1>2, FS_Subset, FS_CardinalityType

(* What the other threads have in hand is left alone.                      *)
LEMMA StartKeeps ==
  ASSUME RefType, NEW t \in Threads, NEW steps, Starts(t, steps), OwnSteps',
         NEW u \in Threads \ {t}, NEW o \in Objects
  PROVE  Kept(u, o)' <=> Kept(u, o)
<1>1. owner' = owner
  BY DEF Starts
<1>2. u \in Refs(o)' <=> u \in Refs(o)
  BY StartRefs
<1>3. \A p \in Pointers : owner[p] = u => (p \in Refs(o)' <=> p \in Refs(o))
  BY StartRefs
<1> QED
  BY <1>1, <1>2, <1>3 DEF Kept

(* Who has a reference in hand is counted.                                 *)
LEMMA KeptCounts ==
  ASSUME NEW t, NEW o
  PROVE  (Kept(t, o) => Refs(o) # {}) /\ (Kept(t, o)' => Refs(o)' # {})
BY DEF Kept

(* Beginning an operation preserves what the proof needs of the counters.  *)
LEMMA StartEffect ==
  ASSUME RefType, OwnSteps, Counted, HasSource, UsedWhileAlive,
         NEW t \in Threads, NEW steps, Starts(t, steps), OwnSteps', Conserves(t)
  PROVE  Counted' /\ HasSource' /\ UsedWhileAlive'
<1>1. \A o \in Objects : Refs(o)' = {} <=> Refs(o) = {}
  BY DEF Conserves, Swapped
<1>2. \A u \in Threads \ {t} : \A o, p : Adds(u, o, p)' <=> Adds(u, o, p)
  BY StartFacts
<1>3. \A o, p : ~Adds(t, o, p)
  BY StartFacts
<1>4. ASSUME NEW o \in Objects
      PROVE  ref_count_'[o] = Cardinality(Refs(o)')
  <2>1. ref_count_' = ref_count_ /\ ref_count_[o] = Cardinality(Refs(o))
    BY DEF Starts, Counted
  <2>2. ASSUME NEW a, NEW b, Swapped(o, a, b)
        PROVE  Cardinality(Refs(o)') = Cardinality(Refs(o))
    <3>1. IsFiniteSet(Refs(o))
      BY FiniteRefs
    <3> QED
      BY <2>2, <3>1, SwapCounts DEF Swapped
  <2> QED
    BY <2>1, <2>2 DEF Conserves
<1>5. ASSUME NEW u \in Threads, NEW o \in Objects, NEW p \in Pointers, Adds(u, o, p)'
      PROVE  \/ Kept(u, o)'
             \/ /\ Refs(o)' = {}
                /\ \A v \in Threads \ {u}, q \in Pointers : ~Adds(v, o, q)'
  <2>1. CASE u = t
    <3>1. CASE object[o] = "none"
      <4>1. Unused(o)
        BY <3>1 DEF UsedWhileAlive
      <4> QED
        BY <1>1, <1>2, <2>1, <4>1 DEF Unused
    <3>2. CASE object[o] # "none"
      BY <1>5, <2>1, <3>2 DEF Conserves
    <3> QED
      BY <3>1, <3>2
  <2>2. CASE u # t
    <3>1. Adds(u, o, p)
      BY <1>2, <1>5, <2>2
    <3>2. CASE Kept(u, o)
      BY <2>2, <3>2, StartKeeps
    <3>3. CASE Refs(o) = {} /\ \A v \in Threads \ {u}, q \in Pointers : ~Adds(v, o, q)
      <4>1. Refs(o)' = {}
        BY <1>1, <3>3
      <4>2. object[o] # "none"
        BY <3>1 DEF UsedWhileAlive, Unused
      <4>3. \A q \in Pointers : ~Adds(t, o, q)'
        BY <4>1, <4>2, KeptCounts DEF Conserves
      <4>4. \A v \in Threads \ {u}, q \in Pointers : ~Adds(v, o, q)'
        BY <1>2, <3>3, <4>3
      <4> QED
        BY <4>1, <4>4
    <3> QED
      BY <3>1, <3>2, <3>3 DEF HasSource
  <2> QED
    BY <2>1, <2>2
<1>6. ASSUME NEW o \in Objects
      PROVE  /\ object'[o] = "none" => Unused(o)'
             /\ object'[o] = "alive" => ~Unused(o)'
  <2>1. ASSUME object'[o] = "none"
        PROVE  Unused(o)'
    <3>1. object[o] = "none"
      BY <2>1 DEF Conserves
    <3>2. Unused(o)
      BY <3>1 DEF UsedWhileAlive
    <3>3. Refs(o)' = {} /\ \A u \in Threads \ {t}, p \in Pointers : ~Adds(u, o, p)'
      BY <1>1, <1>2, <3>2 DEF Unused
    <3>4. \A p \in Pointers : ~Adds(t, o, p)'
      BY <2>1, <3>3, KeptCounts DEF Conserves
    <3> QED
      BY <3>3, <3>4 DEF Unused
  <2>2. ASSUME object'[o] = "alive"
        PROVE  ~Unused(o)'
    <3>1. CASE \E p \in Pointers : Adds(t, o, p)'
      BY <3>1 DEF Unused
    <3>2. CASE object[o] = "alive"
      <4>1. ~Unused(o)
        BY <3>2 DEF UsedWhileAlive
      <4>2. Refs(o) # {} \/ \E u \in Threads \ {t}, p \in Pointers : Adds(u, o, p)
        BY <1>3, <4>1 DEF Unused
      <4> QED
        BY <1>1, <1>2, <4>2 DEF Unused
    <3> QED
      BY <2>2, <3>1, <3>2 DEF Conserves
  <2> QED
    BY <2>1, <2>2
<1>7. Counted'
  BY <1>4 DEF Counted
<1>8. HasSource'
  BY <1>5 DEF HasSource
<1>9. UsedWhileAlive'
  BY <1>6 DEF UsedWhileAlive
<1> QED
  BY <1>7, <1>8, <1>9

-----------------------------------------------------------------------------
(* The operations one by one.                                              *)

(* The steps of an operation of two steps.                                 *)
LEMMA TwoSteps ==
  ASSUME NEW a \in PendingSteps, NEW b \in PendingSteps
  PROVE  /\ <<a, b>> \in Seq(PendingSteps) /\ Len(<<a, b>>) <= 3
         /\ \A p, x : After(<<a, b>>, p, x) =
              IF IsStore(b, p) THEN b.to ELSE IF IsStore(a, p) THEN a.to ELSE x
         /\ \A e : (\E i \in DOMAIN <<a, b>> : <<a, b>>[i] = e) <=> a = e \/ b = e
         /\ \A i \in DOMAIN <<a, b>> :
              (i = 1 /\ <<a, b>>[i] = a) \/ (i = 2 /\ <<a, b>>[i] = b)
<1> DEFINE q == <<a, b>>
<1>1. q \in Seq(PendingSteps) /\ Len(q) = 2 /\ q[1] = a /\ q[2] = b /\ DOMAIN q = {1, 2}
  OBVIOUS
<1> HIDE DEF q
<1>2. \A p, x : After(q, p, x) =
        IF IsStore(b, p) THEN b.to ELSE IF IsStore(a, p) THEN a.to ELSE x
  BY <1>1 DEF After
<1>3. \A e : (\E i \in DOMAIN q : q[i] = e) <=> a = e \/ b = e
  BY <1>1
<1>4. q \in Seq(PendingSteps) /\ Len(q) <= 3
  BY <1>1
<1>5. ASSUME NEW i \in DOMAIN q
      PROVE  (i = 1 /\ q[i] = a) \/ (i = 2 /\ q[i] = b)
  <2>1. i = 1 \/ i = 2
    BY <1>1
  <2> QED
    BY <1>1, <2>1
<1> QED
  BY <1>2, <1>3, <1>4, <1>5 DEF q

(* The steps of an operation of three steps.                               *)
LEMMA ThreeSteps ==
  ASSUME NEW a \in PendingSteps, NEW b \in PendingSteps, NEW c \in PendingSteps
  PROVE  /\ <<a, b, c>> \in Seq(PendingSteps) /\ Len(<<a, b, c>>) <= 3
         /\ \A p, x : After(<<a, b, c>>, p, x) =
              IF IsStore(c, p) THEN c.to
              ELSE IF IsStore(b, p) THEN b.to ELSE IF IsStore(a, p) THEN a.to ELSE x
         /\ \A e : (\E i \in DOMAIN <<a, b, c>> : <<a, b, c>>[i] = e)
                     <=> a = e \/ b = e \/ c = e
         /\ \A i \in DOMAIN <<a, b, c>> : \/ i = 1 /\ <<a, b, c>>[i] = a
                                          \/ i = 2 /\ <<a, b, c>>[i] = b
                                          \/ i = 3 /\ <<a, b, c>>[i] = c
<1> DEFINE q == <<a, b, c>>
<1>1. /\ q \in Seq(PendingSteps) /\ Len(q) = 3 /\ DOMAIN q = {1, 2, 3}
      /\ q[1] = a /\ q[2] = b /\ q[3] = c
  OBVIOUS
<1> HIDE DEF q
<1>2. \A p, x : After(q, p, x) =
        IF IsStore(c, p) THEN c.to
        ELSE IF IsStore(b, p) THEN b.to ELSE IF IsStore(a, p) THEN a.to ELSE x
  BY <1>1 DEF After
<1>3. \A e : (\E i \in DOMAIN q : q[i] = e) <=> a = e \/ b = e \/ c = e
  BY <1>1
<1>4. q \in Seq(PendingSteps) /\ Len(q) <= 3
  BY <1>1
<1>5. ASSUME NEW i \in DOMAIN q
      PROVE  (i = 1 /\ q[i] = a) \/ (i = 2 /\ q[i] = b) \/ (i = 3 /\ q[i] = c)
  <2>1. i = 1 \/ i = 2 \/ i = 3
    BY <1>1
  <2> QED
    BY <1>1, <2>1
<1> QED
  BY <1>2, <1>3, <1>4, <1>5 DEF q

(* The steps as they are written in the operations.                        *)
LEMMA StepShapes ==
  /\ \A o \in Objects \cup {Null}, p \in Pointers :
       AddRef(o, p) \in PendingSteps /\ Store(p, o) \in PendingSteps
  /\ \A o \in Objects \cup {Null} : Release(o) \in PendingSteps
  /\ \A o \in Objects : Touch(o) \in PendingSteps
  /\ \A o, p : /\ AddRef(o, p).op = "AddRef" /\ AddRef(o, p).on = o /\ AddRef(o, p).to = p
               /\ Store(p, o).op = "Store" /\ Store(p, o).on = p /\ Store(p, o).to = o
               /\ Release(o).op = "Release" /\ Release(o).on = o
               /\ Touch(o).op = "Touch" /\ Touch(o).on = o
<1>1. /\ \A o \in Objects \cup {Null}, p \in Pointers :
           AddRef(o, p) \in PendingSteps /\ Store(p, o) \in PendingSteps
      /\ \A o \in Objects \cup {Null} : Release(o) \in PendingSteps
      /\ \A o \in Objects : Touch(o) \in PendingSteps
  BY DEF PendingSteps
<1>2. \A o, p :
        /\ AddRef(o, p).op = "AddRef" /\ AddRef(o, p).on = o /\ AddRef(o, p).to = p
        /\ Store(p, o).op = "Store" /\ Store(p, o).on = p /\ Store(p, o).to = o
        /\ Release(o).op = "Release" /\ Release(o).on = o
        /\ Touch(o).op = "Touch" /\ Touch(o).on = o
  BY DEF AddRef, Release, Touch, Store
<1> QED
  BY <1>1, <1>2

(* Which of them are equal.                                                *)
LEMMA StepEquals ==
  ASSUME NEW o, NEW x, NEW p, NEW r
  PROVE  /\ AddRef(o, p) = AddRef(x, r) <=> o = x /\ p = r
         /\ Release(o) = Release(x) <=> o = x
         /\ AddRef(o, p) # Release(x)
         /\ Store(p, o) # AddRef(x, r) /\ Store(p, o) # Release(x)
         /\ Touch(o) # AddRef(x, r) /\ Touch(o) # Release(x)
         /\ IsStore(Store(p, o), r) <=> p = r
         /\ ~IsStore(AddRef(o, p), r) /\ ~IsStore(Release(o), r)
         /\ ~IsStore(Touch(o), r)
<1>1. /\ AddRef(o, p) = AddRef(x, r) => o = x /\ p = r
      /\ Release(o) = Release(x) => o = x
  BY StepShapes
<1>2. /\ AddRef(o, p) # Release(x)
      /\ Store(p, o) # AddRef(x, r) /\ Store(p, o) # Release(x)
      /\ Touch(o) # AddRef(x, r) /\ Touch(o) # Release(x)
  BY StepShapes
<1>3. /\ IsStore(Store(p, o), r) <=> p = r
      /\ ~IsStore(AddRef(o, p), r) /\ ~IsStore(Release(o), r)
      /\ ~IsStore(Touch(o), r)
  BY StepShapes DEF IsStore
<1> QED
  BY <1>1, <1>2, <1>3

(* The effect of an operation of t that starts the given steps.            *)
OpEffect(t) ==
  /\ \E steps : Starts(t, steps)
  /\ OwnSteps'
  /\ Conserves(t)

(* A copy is going to take a reference while its model keeps one.          *)
LEMMA CopyConstructEffect ==
  ASSUME RefType, OwnSteps, NEW t \in Threads, NEW p \in Pointers, NEW r \in Pointers,
         CopyConstruct(t, p, r)
  PROVE  OpEffect(t)
<1> DEFINE x == ptr_[r]
           a == Store(p, x)
           b == AddRef(x, p)
           steps == <<a, b>>
<1>1. /\ x \in Objects \cup {Null} /\ p # r /\ owner[p] = t /\ owner[r] = t
      /\ ptr_[p] = Null
  BY DEF RefType, TypeOK, CopyConstruct, Owns
<1>2. a \in PendingSteps /\ b \in PendingSteps
  BY <1>1, StepShapes
<1>3. Starts(t, steps)
  <2>1. todo[t] = <<>> /\ todo' = [todo EXCEPT ![t] = steps] /\ UNCHANGED <<ptr_, owner, ref_count_>>
    BY DEF CopyConstruct, Begins
  <2>2. steps \in Seq(PendingSteps) /\ Len(steps) <= 3
    BY <1>2, TwoSteps
  <2> HIDE DEF steps
  <2> QED
    BY <2>1, <2>2 DEF Starts
<1>4. \A q, y : After(steps, q, y) = IF p = q THEN x ELSE y
  <2>1. \A q : (IsStore(a, q) <=> p = q) /\ ~IsStore(b, q)
    BY StepEquals
  <2> HIDE DEF a, b
  <2> QED
    BY <1>2, <2>1, TwoSteps, StepShapes DEF a
<1>5. WellOrdered(t, steps)
  <2>1. a.op = "Store" /\ a.on = p /\ b.op = "AddRef" /\ b.to = p /\ b.on = x
    BY StepShapes
  <2> HIDE DEF a, b
  <2>2. \A i \in DOMAIN steps : (i = 1 /\ steps[i] = a) \/ (i = 2 /\ steps[i] = b)
    BY <1>2, TwoSteps
  <2> HIDE DEF steps
  <2> QED
    BY <1>1, <1>4, <2>1, <2>2 DEF WellOrdered
<1>6. OwnSteps'
  BY <1>3, <1>5, StartKeepsOwn
<1>7. \A e : (\E i \in DOMAIN steps : steps[i] = e) <=> a = e \/ b = e
  BY <1>2, TwoSteps
<1> HIDE DEF steps
<1>8. ASSUME NEW o \in Objects
      PROVE  Refs(o)' = Refs(o)
  <2>1. ~\E i \in DOMAIN steps : steps[i] = Release(o)
    BY <1>7, StepEquals
  <2>2. \A q \in Pointers :
         (\E i \in DOMAIN steps : steps[i] = AddRef(o, q)) <=> q = p /\ o = x
    BY <1>7, StepEquals
  <2>3. \A q \in Pointers : owner[q] = t => (q \in Refs(o)' <=> q \in Refs(o))
    BY <1>1, <1>3, <1>4, <1>6, <2>2, StartRefs, ScopedRefptrAssumption
  <2> HIDE DEF x, a, b
  <2> QED
    BY <1>3, <1>6, <2>1, <2>3, StartRefs
<1>9. ASSUME NEW o \in Objects, NEW q \in Pointers, Adds(t, o, q)'
      PROVE  Kept(t, o)'
  <2>1. \E i \in DOMAIN steps : steps[i] = AddRef(o, q)
    BY <1>3, <1>9, StartFacts
  <2>2. o = x
    BY <1>7, <2>1, StepEquals
  <2>3. r \in Refs(o)'
    BY <1>1, <1>3, <1>6, <1>8, <2>2, StartRefs
  <2>4. owner'[r] = t
    BY <1>1, <1>3 DEF Starts
  <2> QED
    BY <2>3, <2>4 DEF Kept
<1>10. object' = object
  BY DEF CopyConstruct
<1> HIDE DEF x, a, b
<1>11. Conserves(t)
  BY <1>8, <1>9, <1>10 DEF Conserves
<1> QED
  BY <1>3, <1>6, <1>11 DEF OpEffect

(* A move construction hands the reference of r to p.                      *)
LEMMA MoveConstructEffect ==
  ASSUME RefType, OwnSteps, NEW t \in Threads, NEW p \in Pointers, NEW r \in Pointers,
         MoveConstruct(t, p, r)
  PROVE  OpEffect(t)
<1> DEFINE x == ptr_[r]
           a == Store(r, Null)
           b == Store(p, x)
           steps == <<a, b>>
<1>1. /\ x \in Objects \cup {Null} /\ p # r /\ owner[p] = t /\ owner[r] = t
      /\ ptr_[p] = Null
  BY DEF RefType, TypeOK, MoveConstruct, Owns
<1>2. a \in PendingSteps /\ b \in PendingSteps
  BY <1>1, StepShapes
<1>3. Starts(t, steps)
  <2>1. /\ todo[t] = <<>> /\ todo' = [todo EXCEPT ![t] = steps]
        /\ UNCHANGED <<ptr_, owner, ref_count_>>
    BY DEF MoveConstruct, Begins
  <2>2. steps \in Seq(PendingSteps) /\ Len(steps) <= 3
    BY <1>2, TwoSteps
  <2> HIDE DEF steps
  <2> QED
    BY <2>1, <2>2 DEF Starts
<1>4. \A q, y : After(steps, q, y) = IF p = q THEN x ELSE IF r = q THEN Null ELSE y
  <2>1. \A q : (IsStore(a, q) <=> r = q) /\ (IsStore(b, q) <=> p = q)
    BY StepEquals
  <2>2. a.to = Null /\ b.to = x
    BY StepShapes
  <2> HIDE DEF a, b
  <2> QED
    BY <1>2, <2>1, <2>2, TwoSteps
<1>5. WellOrdered(t, steps)
  <2>1. a.op = "Store" /\ a.on = r /\ b.op = "Store" /\ b.on = p
    BY StepShapes
  <2> HIDE DEF a, b
  <2>2. \A i \in DOMAIN steps : steps[i] = a \/ steps[i] = b
    BY <1>2, TwoSteps
  <2> HIDE DEF steps
  <2> QED
    BY <1>1, <2>1, <2>2 DEF WellOrdered
<1>6. OwnSteps'
  BY <1>3, <1>5, StartKeepsOwn
<1>7. \A e : (\E i \in DOMAIN steps : steps[i] = e) <=> a = e \/ b = e
  BY <1>2, TwoSteps
<1> HIDE DEF steps
<1>8. ASSUME NEW o \in Objects
      PROVE  Refs(o)' = Refs(o) \/ \E c, d : Swapped(o, c, d)
  <2>1. ~\E i \in DOMAIN steps : steps[i] = Release(o)
    BY <1>7, StepEquals
  <2>2. \A q \in Pointers : ~\E i \in DOMAIN steps : steps[i] = AddRef(o, q)
    BY <1>7, StepEquals
  <2>3. o # Null /\ t \notin Pointers
    BY ScopedRefptrAssumption
  <2> HIDE DEF x, a, b
  <2>4. \A q \in Pointers : owner[q] = t =>
          (q \in Refs(o)' <=> IF q = p THEN x = o ELSE q # r /\ q \in Refs(o))
    BY <1>1, <1>3, <1>4, <1>6, <2>2, <2>3, StartRefs
  <2>5. (r \in Refs(o) <=> x = o) /\ p \notin Refs(o)
    BY <1>1, <1>3, <1>6, <2>3, StartRefs DEF x
  <2>6. CASE x = o
    <3>1. Refs(o)' = (Refs(o) \ {r}) \cup {p}
      BY <1>1, <1>3, <1>6, <2>1, <2>3, <2>4, <2>5, <2>6, StartRefs
    <3> QED
      BY <2>5, <2>6, <3>1 DEF Swapped
  <2>7. CASE x # o
    <3>1. \A q \in Pointers : q \in Refs(o)' <=> q \in Refs(o)
      BY <1>1, <1>3, <1>6, <2>4, <2>5, <2>7, StartRefs
    <3>2. \A u \in Threads : u \in Refs(o)' <=> u \in Refs(o)
      BY <1>3, <1>6, <2>1, StartRefs
    <3> QED
      BY <3>1, <3>2, InRefs, InRefsPrime
  <2> QED
    BY <2>6, <2>7
<1>9. ASSUME NEW o \in Objects, NEW q \in Pointers
      PROVE  ~Adds(t, o, q)'
  <2>1. ~\E i \in DOMAIN steps : steps[i] = AddRef(o, q)
    BY <1>7, StepEquals
  <2> QED
    BY <1>3, <2>1, StartFacts
<1>10. object' = object
  BY DEF MoveConstruct
<1> HIDE DEF x, a, b
<1>11. Conserves(t)
  BY <1>8, <1>9, <1>10 DEF Conserves
<1> QED
  BY <1>3, <1>6, <1>11 DEF OpEffect

(* A destruction hands the reference of p to the thread, to release it.    *)
LEMMA DestroyEffect ==
  ASSUME RefType, OwnSteps, NEW t \in Threads, NEW p \in Pointers, Destroy(t, p)
  PROVE  OpEffect(t)
<1> DEFINE y == ptr_[p]
           a == Release(y)
           b == Store(p, Null)
           steps == <<a, b>>
<1>1. y \in Objects /\ owner[p] = t
  BY DEF RefType, TypeOK, Destroy, Owns
<1>2. a \in PendingSteps /\ b \in PendingSteps
  BY <1>1, StepShapes
<1>3. Starts(t, steps)
  <2>1. /\ todo[t] = <<>> /\ todo' = [todo EXCEPT ![t] = steps]
        /\ UNCHANGED <<ptr_, owner, ref_count_>>
    BY DEF Destroy, Begins
  <2>2. steps \in Seq(PendingSteps) /\ Len(steps) <= 3
    BY <1>2, TwoSteps
  <2> HIDE DEF steps
  <2> QED
    BY <2>1, <2>2 DEF Starts
<1>4. \A q, z : After(steps, q, z) = IF p = q THEN Null ELSE z
  <2>1. \A q : ~IsStore(a, q) /\ (IsStore(b, q) <=> p = q)
    BY StepEquals
  <2>2. b.to = Null
    BY StepShapes
  <2> HIDE DEF a, b
  <2> QED
    BY <1>2, <2>1, <2>2, TwoSteps
<1>5. WellOrdered(t, steps)
  <2>1. a.op = "Release" /\ b.op = "Store" /\ b.on = p
    BY StepShapes
  <2> HIDE DEF a, b
  <2>2. \A i \in DOMAIN steps : (i = 1 /\ steps[i] = a) \/ (i = 2 /\ steps[i] = b)
    BY <1>2, TwoSteps
  <2> HIDE DEF steps
  <2> QED
    BY <1>1, <2>1, <2>2 DEF WellOrdered
<1>6. OwnSteps'
  BY <1>3, <1>5, StartKeepsOwn
<1>7. \A e : (\E i \in DOMAIN steps : steps[i] = e) <=> a = e \/ b = e
  BY <1>2, TwoSteps
<1> HIDE DEF steps
<1>8. ASSUME NEW o \in Objects
      PROVE  Refs(o)' = Refs(o) \/ \E c, d : Swapped(o, c, d)
  <2>1. (\E i \in DOMAIN steps : steps[i] = Release(o)) <=> y = o
    BY <1>7, StepEquals
  <2>2. \A q \in Pointers : ~\E i \in DOMAIN steps : steps[i] = AddRef(o, q)
    BY <1>7, StepEquals
  <2>3. o # Null /\ t \notin Pointers
    BY ScopedRefptrAssumption
  <2> HIDE DEF y, a, b
  <2>4. \A q \in Pointers : owner[q] = t =>
          (q \in Refs(o)' <=> q # p /\ q \in Refs(o))
    BY <1>1, <1>3, <1>4, <1>6, <2>2, <2>3, StartRefs
  <2>5. (p \in Refs(o) <=> y = o) /\ t \notin Refs(o) /\ (t \in Refs(o)' <=> y = o)
    BY <1>1, <1>3, <1>6, <2>1, StartRefs DEF y
  <2>6. CASE y = o
    <3>1. Refs(o)' = (Refs(o) \ {p}) \cup {t}
      BY <1>1, <1>3, <1>6, <2>3, <2>4, <2>5, <2>6, StartRefs
    <3> QED
      BY <2>5, <2>6, <3>1 DEF Swapped
  <2>7. CASE y # o
    <3>1. \A q \in Pointers : q \in Refs(o)' <=> q \in Refs(o)
      BY <1>1, <1>3, <1>6, <2>4, <2>5, <2>7, StartRefs
    <3>2. \A u \in Threads : u \in Refs(o)' <=> u \in Refs(o)
      BY <1>3, <1>6, <2>5, <2>7, StartRefs
    <3> QED
      BY <3>1, <3>2, InRefs, InRefsPrime
  <2> QED
    BY <2>6, <2>7
<1>9. ASSUME NEW o \in Objects, NEW q \in Pointers
      PROVE  ~Adds(t, o, q)'
  <2>1. ~\E i \in DOMAIN steps : steps[i] = AddRef(o, q)
    BY <1>7, StepEquals
  <2> QED
    BY <1>3, <2>1, StartFacts
<1>10. object' = object
  BY DEF Destroy
<1> HIDE DEF y, a, b
<1>11. Conserves(t)
  BY <1>8, <1>9, <1>10 DEF Conserves
<1> QED
  BY <1>3, <1>6, <1>11 DEF OpEffect

(* A new object: its creator is the first to take a reference.             *)
LEMMA CreateEffect ==
  ASSUME RefType, OwnSteps, NEW t \in Threads, NEW p \in Pointers, NEW n \in Objects,
         Create(t, p, n), Unused(n)
  PROVE  OpEffect(t)
<1> DEFINE a == Store(p, n)
           b == AddRef(n, p)
           steps == <<a, b>>
<1>1. ptr_[p] = Null /\ owner[p] = t
  BY DEF Create, Owns
<1>2. a \in PendingSteps /\ b \in PendingSteps
  BY StepShapes
<1>3. Starts(t, steps)
  <2>1. /\ todo[t] = <<>> /\ todo' = [todo EXCEPT ![t] = steps]
        /\ UNCHANGED <<ptr_, owner, ref_count_>>
    BY DEF Create, Begins
  <2>2. steps \in Seq(PendingSteps) /\ Len(steps) <= 3
    BY <1>2, TwoSteps
  <2> HIDE DEF steps
  <2> QED
    BY <2>1, <2>2 DEF Starts
<1>4. \A q, z : After(steps, q, z) = IF p = q THEN n ELSE z
  <2>1. \A q : (IsStore(a, q) <=> p = q) /\ ~IsStore(b, q)
    BY StepEquals
  <2>2. a.to = n
    BY StepShapes
  <2> HIDE DEF a, b
  <2> QED
    BY <1>2, <2>1, <2>2, TwoSteps
<1>5. WellOrdered(t, steps)
  <2>1. a.op = "Store" /\ a.on = p /\ b.op = "AddRef" /\ b.to = p /\ b.on = n
    BY StepShapes
  <2> HIDE DEF a, b
  <2>2. \A i \in DOMAIN steps : (i = 1 /\ steps[i] = a) \/ (i = 2 /\ steps[i] = b)
    BY <1>2, TwoSteps
  <2> HIDE DEF steps
  <2> QED
    BY <1>1, <1>4, <2>1, <2>2 DEF WellOrdered
<1>6. OwnSteps'
  BY <1>3, <1>5, StartKeepsOwn
<1>7. \A e : (\E i \in DOMAIN steps : steps[i] = e) <=> a = e \/ b = e
  BY <1>2, TwoSteps
<1> HIDE DEF steps
<1>8. ASSUME NEW o \in Objects
      PROVE  Refs(o)' = Refs(o)
  <2>1. ~\E i \in DOMAIN steps : steps[i] = Release(o)
    BY <1>7, StepEquals
  <2>2. \A q \in Pointers :
         (\E i \in DOMAIN steps : steps[i] = AddRef(o, q)) <=> q = p /\ o = n
    BY <1>7, StepEquals
  <2>3. \A q \in Pointers : owner[q] = t => (q \in Refs(o)' <=> q \in Refs(o))
    BY <1>1, <1>3, <1>4, <1>6, <2>2, StartRefs, ScopedRefptrAssumption
  <2> HIDE DEF a, b
  <2> QED
    BY <1>3, <1>6, <2>1, <2>3, StartRefs
<1>9. \A o, q : Adds(t, o, q)' <=> o = n /\ q = p
  <2>1. \A o, q : (\E i \in DOMAIN steps : steps[i] = AddRef(o, q)) <=> o = n /\ q = p
    BY <1>7, StepEquals
  <2> QED
    BY <1>3, <2>1, StartFacts
<1>10. object' = [object EXCEPT ![n] = "alive"] /\ object[n] = "none"
  BY DEF Create
<1>11. \A o \in Objects : object'[o] = IF o = n THEN "alive" ELSE object[o]
  BY <1>10 DEF RefType, TypeOK
<1> HIDE DEF a, b
<1>12. Conserves(t)
  BY <1>8, <1>9, <1>10, <1>11 DEF Conserves
<1> QED
  BY <1>3, <1>6, <1>12 DEF OpEffect

(* A copy assignment: the thread will release the old object of p, and p   *)
(* gets its reference while r or, when p = r, the thread has one.          *)
LEMMA CopyAssignEffect ==
  ASSUME RefType, OwnSteps, NEW t \in Threads, NEW p \in Pointers, NEW r \in Pointers,
         CopyAssign(t, p, r)
  PROVE  OpEffect(t)
<1> DEFINE x == ptr_[r]
           y == ptr_[p]
           a == AddRef(x, p)
           b == Release(y)
           c == Store(p, x)
           steps == <<a, b, c>>
<1>1. /\ x \in Objects \cup {Null} /\ y \in Objects \cup {Null}
      /\ owner[p] = t /\ owner[r] = t
  BY DEF RefType, TypeOK, CopyAssign, Owns
<1>2. a \in PendingSteps /\ b \in PendingSteps /\ c \in PendingSteps
  BY <1>1, StepShapes
<1>3. Starts(t, steps)
  <2>1. /\ todo[t] = <<>> /\ todo' = [todo EXCEPT ![t] = steps]
        /\ UNCHANGED <<ptr_, owner, ref_count_>>
    BY DEF CopyAssign, Begins
  <2>2. steps \in Seq(PendingSteps) /\ Len(steps) <= 3
    BY <1>2, ThreeSteps
  <2> HIDE DEF steps
  <2> QED
    BY <2>1, <2>2 DEF Starts
<1>4. \A q, z : After(steps, q, z) = IF p = q THEN x ELSE z
  <2>1. \A q : ~IsStore(a, q) /\ ~IsStore(b, q) /\ (IsStore(c, q) <=> p = q)
    BY StepEquals
  <2>2. c.to = x
    BY StepShapes
  <2> HIDE DEF a, b, c
  <2> QED
    BY <1>2, <2>1, <2>2, ThreeSteps
<1>5. WellOrdered(t, steps)
  <2>1. /\ a.op = "AddRef" /\ a.to = p /\ a.on = x
        /\ b.op = "Release" /\ c.op = "Store" /\ c.on = p
    BY StepShapes
  <2> HIDE DEF a, b, c
  <2>2. \A i \in DOMAIN steps : \/ i = 1 /\ steps[i] = a
                                \/ i = 2 /\ steps[i] = b
                                \/ i = 3 /\ steps[i] = c
    BY <1>2, ThreeSteps
  <2> HIDE DEF steps
  <2> QED
    BY <1>1, <1>4, <2>1, <2>2 DEF WellOrdered
<1>6. OwnSteps'
  BY <1>3, <1>5, StartKeepsOwn
<1>7. \A e : (\E i \in DOMAIN steps : steps[i] = e) <=> a = e \/ b = e \/ c = e
  BY <1>2, ThreeSteps
<1> HIDE DEF steps
<1>8. ASSUME NEW o \in Objects
      PROVE  /\ \A q \in Pointers : owner[q] = t =>
                  (q \in Refs(o)' <=> q # p /\ q \in Refs(o))
             /\ (p \in Refs(o) <=> y = o) /\ t \notin Refs(o) /\ (t \in Refs(o)' <=> y = o)
             /\ r \in Refs(o) <=> x = o
  <2>1. (\E i \in DOMAIN steps : steps[i] = Release(o)) <=> y = o
    BY <1>7, StepEquals
  <2>2. \A q \in Pointers :
          (\E i \in DOMAIN steps : steps[i] = AddRef(o, q)) <=> x = o /\ p = q
    BY <1>7, StepEquals
  <2> HIDE DEF x, y, a, b, c
  <2>4. \A q \in Pointers : owner[q] = t =>
          (q \in Refs(o)' <=> q # p /\ q \in Refs(o))
    BY <1>1, <1>3, <1>4, <1>6, <2>2, StartRefs
  <2>5. (p \in Refs(o) <=> y = o) /\ t \notin Refs(o) /\ (t \in Refs(o)' <=> y = o)
    BY <1>1, <1>3, <1>6, <2>1, StartRefs DEF y
  <2>6. r \in Refs(o) <=> x = o
    BY <1>1, <1>3, <1>6, StartRefs DEF x
  <2> QED
    BY <2>4, <2>5, <2>6
<1> HIDE DEF x, y, a, b, c
<1>9. ASSUME NEW o \in Objects
      PROVE  Refs(o)' = Refs(o) \/ \E d, e : Swapped(o, d, e)
  <2>1. t \notin Pointers
    BY ScopedRefptrAssumption
  <2>2. CASE y = o
    <3>1. Refs(o)' = (Refs(o) \ {p}) \cup {t}
      BY <1>1, <1>3, <1>6, <1>8, <2>1, <2>2, StartRefs
    <3> QED
      BY <1>8, <2>2, <3>1 DEF Swapped
  <2>3. CASE y # o
    <3>1. \A q \in Pointers : q \in Refs(o)' <=> q \in Refs(o)
      BY <1>1, <1>3, <1>6, <1>8, <2>3, StartRefs
    <3>2. \A u \in Threads : u \in Refs(o)' <=> u \in Refs(o)
      BY <1>3, <1>6, <1>8, <2>3, StartRefs
    <3> QED
      BY <3>1, <3>2, InRefs, InRefsPrime
  <2> QED
    BY <2>2, <2>3
<1>10. ASSUME NEW o \in Objects, NEW q \in Pointers, Adds(t, o, q)'
       PROVE  Kept(t, o)'
  <2>1. \E i \in DOMAIN steps : steps[i] = AddRef(o, q)
    BY <1>3, <1>10, StartFacts
  <2>2. o = x
    BY <1>7, <2>1, StepEquals DEF a, b, c
  <2>3. owner'[r] = t
    BY <1>1, <1>3 DEF Starts
  <2>4. CASE r = p
    <3>1. t \in Refs(o)'
      BY <1>8, <2>2, <2>4 DEF x, y
    <3> QED
      BY <3>1 DEF Kept
  <2>5. CASE r # p
    <3>1. r \in Refs(o)'
      BY <1>1, <1>8, <2>2, <2>5
    <3> QED
      BY <2>3, <3>1 DEF Kept
  <2> QED
    BY <2>4, <2>5
<1>11. object' = object
  BY DEF CopyAssign
<1>12. Conserves(t)
  BY <1>9, <1>10, <1>11 DEF Conserves
<1> QED
  BY <1>3, <1>6, <1>12 DEF OpEffect

(* A move assignment: p gets the reference of r, the thread that of p.     *)
LEMMA MoveAssignEffect ==
  ASSUME RefType, OwnSteps, NEW t \in Threads, NEW p \in Pointers, NEW r \in Pointers,
         MoveAssign(t, p, r)
  PROVE  OpEffect(t)
<1> DEFINE x == ptr_[r]
           y == IF p = r THEN Null ELSE ptr_[p]
           a == Store(r, Null)
           b == Store(p, x)
           c == Release(y)
           steps == <<a, b, c>>
<1>1. /\ x \in Objects \cup {Null} /\ y \in Objects \cup {Null}
      /\ owner[p] = t /\ owner[r] = t
  BY DEF RefType, TypeOK, MoveAssign, Owns
<1>2. a \in PendingSteps /\ b \in PendingSteps /\ c \in PendingSteps
  BY <1>1, StepShapes
<1>3. Starts(t, steps)
  <2>1. /\ todo[t] = <<>> /\ todo' = [todo EXCEPT ![t] = steps]
        /\ UNCHANGED <<ptr_, owner, ref_count_>>
    BY DEF MoveAssign, Begins
  <2>2. steps \in Seq(PendingSteps) /\ Len(steps) <= 3
    BY <1>2, ThreeSteps
  <2> HIDE DEF steps
  <2> QED
    BY <2>1, <2>2 DEF Starts
<1>4. \A q, z : After(steps, q, z) = IF p = q THEN x ELSE IF r = q THEN Null ELSE z
  <2>1. \A q : (IsStore(a, q) <=> r = q) /\ (IsStore(b, q) <=> p = q) /\ ~IsStore(c, q)
    BY StepEquals
  <2>2. a.to = Null /\ b.to = x
    BY StepShapes
  <2> HIDE DEF a, b, c
  <2> QED
    BY <1>2, <2>1, <2>2, ThreeSteps
<1>5. WellOrdered(t, steps)
  <2>1. /\ a.op = "Store" /\ a.on = r /\ b.op = "Store" /\ b.on = p
        /\ c.op = "Release"
    BY StepShapes
  <2> HIDE DEF a, b, c
  <2>2. \A i \in DOMAIN steps : \/ i = 1 /\ steps[i] = a
                                \/ i = 2 /\ steps[i] = b
                                \/ i = 3 /\ steps[i] = c
    BY <1>2, ThreeSteps
  <2> HIDE DEF steps
  <2> QED
    BY <1>1, <2>1, <2>2 DEF WellOrdered
<1>6. OwnSteps'
  BY <1>3, <1>5, StartKeepsOwn
<1>7. \A e : (\E i \in DOMAIN steps : steps[i] = e) <=> a = e \/ b = e \/ c = e
  BY <1>2, ThreeSteps
<1> HIDE DEF steps
<1>8. ASSUME NEW o \in Objects
      PROVE  Refs(o)' = Refs(o) \/ \E d, e : Swapped(o, d, e)
  <2>1. (\E i \in DOMAIN steps : steps[i] = Release(o)) <=> y = o
    BY <1>7, StepEquals
  <2>2. \A q \in Pointers : ~\E i \in DOMAIN steps : steps[i] = AddRef(o, q)
    BY <1>7, StepEquals
  <2>3. o # Null /\ t \notin Pointers
    BY ScopedRefptrAssumption
  <2> HIDE DEF x, a, b, c
  <2>4. \A q \in Pointers : owner[q] = t =>
          (q \in Refs(o)' <=> IF q = p THEN x = o ELSE q # r /\ q \in Refs(o))
    BY <1>1, <1>3, <1>4, <1>6, <2>2, <2>3, StartRefs
  <2>5. /\ r \in Refs(o) <=> x = o
        /\ p # r => (p \in Refs(o) <=> y = o)
        /\ p = r => y # o
        /\ t \notin Refs(o) /\ (t \in Refs(o)' <=> y = o)
    BY <1>1, <1>3, <1>6, <2>1, <2>3, StartRefs DEF x
  <2> HIDE DEF y
  <2>6. CASE y = o /\ x = o
    <3>1. Refs(o)' = (Refs(o) \ {r}) \cup {t}
      BY <1>1, <1>3, <1>6, <2>3, <2>4, <2>5, <2>6, StartRefs
    <3> QED
      BY <2>5, <2>6, <3>1 DEF Swapped
  <2>7. CASE y = o /\ x # o
    <3>1. Refs(o)' = (Refs(o) \ {p}) \cup {t}
      BY <1>1, <1>3, <1>6, <2>3, <2>4, <2>5, <2>7, StartRefs
    <3> QED
      BY <2>5, <2>7, <3>1 DEF Swapped
  <2>8. CASE y # o /\ x = o /\ p # r
    <3>1. Refs(o)' = (Refs(o) \ {r}) \cup {p}
      BY <1>1, <1>3, <1>6, <2>3, <2>4, <2>5, <2>8, StartRefs
    <3> QED
      BY <2>5, <2>8, <3>1 DEF Swapped
  <2>9. CASE y # o /\ (x # o \/ p = r)
    <3>1. \A q \in Pointers : q \in Refs(o)' <=> q \in Refs(o)
      BY <1>1, <1>3, <1>6, <2>4, <2>5, <2>9, StartRefs
    <3>2. \A u \in Threads : u \in Refs(o)' <=> u \in Refs(o)
      BY <1>3, <1>6, <2>5, <2>9, StartRefs
    <3> QED
      BY <3>1, <3>2, InRefs, InRefsPrime
  <2> QED
    BY <2>6, <2>7, <2>8, <2>9
<1>9. ASSUME NEW o \in Objects, NEW q \in Pointers
      PROVE  ~Adds(t, o, q)'
  <2>1. ~\E i \in DOMAIN steps : steps[i] = AddRef(o, q)
    BY <1>7, StepEquals
  <2> QED
    BY <1>3, <2>1, StartFacts
<1>10. object' = object
  BY DEF MoveAssign
<1> HIDE DEF x, y, a, b, c
<1>11. Conserves(t)
  BY <1>8, <1>9, <1>10 DEF Conserves
<1> QED
  BY <1>3, <1>6, <1>11 DEF OpEffect

(* The use of a raw pointer brings and takes no reference.                 *)
LEMMA UseEffect ==
  ASSUME RefType, OwnSteps, NEW t \in Threads, NEW n \in Objects, Use(t, n)
  PROVE  OpEffect(t)
<1> DEFINE a == Touch(n)
           steps == <<a>>
<1>1. a \in PendingSteps /\ a.op = "Touch"
  BY StepShapes
<1>2. \A e, q : a # AddRef(e, q) /\ a # Release(e) /\ ~IsStore(a, q)
  BY StepEquals
<1>3. todo[t] = <<>> /\ todo' = [todo EXCEPT ![t] = steps] /\ UNCHANGED <<ptr_, owner, ref_count_>>
  BY DEF Use, Begins
<1> HIDE DEF a
<1>4. steps \in Seq(PendingSteps) /\ Len(steps) = 1 /\ DOMAIN steps = {1} /\ steps[1] = a
  BY <1>1
<1> HIDE DEF steps
<1>5. Starts(t, steps)
  BY <1>3, <1>4 DEF Starts
<1>6. \A i \in DOMAIN steps : steps[i] = a
  BY <1>4
<1>7. WellOrdered(t, steps)
  BY <1>1, <1>6 DEF WellOrdered
<1>8. OwnSteps'
  BY <1>5, <1>7, StartKeepsOwn
<1>9. \A q, z : After(steps, q, z) = z
  BY <1>2, <1>4 DEF After
<1>10. ASSUME NEW o \in Objects
       PROVE  Refs(o)' = Refs(o)
  <2>1. \A q \in Pointers : q \in Refs(o)' <=> q \in Refs(o)
    BY <1>2, <1>5, <1>6, <1>8, <1>9, StartRefs
  <2>2. \A u \in Threads : u \in Refs(o)' <=> u \in Refs(o)
    BY <1>2, <1>5, <1>6, <1>8, StartRefs
  <2> QED
    BY <2>1, <2>2, InRefs, InRefsPrime
<1>11. \A o, q : ~Adds(t, o, q)'
  BY <1>2, <1>5, <1>6, StartFacts
<1>12. object' = object
  BY DEF Use
<1>13. Conserves(t)
  BY <1>10, <1>11, <1>12 DEF Conserves
<1> QED
  BY <1>5, <1>8, <1>13 DEF OpEffect

(* The state of an object, by type.                                        *)
ObjectType == object \in [Objects -> {"none", "alive", "deleted", "corrupt"}]

(* Every operation but HandOver starts steps that conserve references.     *)
LEMMA BeginEffect ==
  ASSUME RefType, OwnSteps, UsedWhileAlive, NEW t \in Threads, NEW c \in Ops,
         Begin(t, c), c.op # "HandOver"
  PROVE  OpEffect(t) /\ ObjectType'
<1>1. ObjectType
  BY DEF RefType, TypeOK, ObjectType
<1>2. CASE c.op = "Create" /\ Create(t, c.p, c.r)
  <2>1. c.p \in Pointers /\ c.r \in Objects
    BY <1>2 DEF Ops
  <2>2. Unused(c.r)
    BY <1>2, <2>1 DEF Create, UsedWhileAlive
  <2>3. ObjectType'
    BY <1>1, <1>2 DEF Create, ObjectType
  <2> QED
    BY <1>2, <2>1, <2>2, <2>3, CreateEffect
<1>3. CASE c.op = "CopyConstruct" /\ CopyConstruct(t, c.p, c.r)
  <2>1. c.p \in Pointers /\ c.r \in Pointers
    BY <1>3 DEF Ops
  <2>2. ObjectType'
    BY <1>1, <1>3 DEF CopyConstruct, ObjectType
  <2> QED
    BY <1>3, <2>1, <2>2, CopyConstructEffect
<1>4. CASE c.op = "MoveConstruct" /\ MoveConstruct(t, c.p, c.r)
  <2>1. c.p \in Pointers /\ c.r \in Pointers
    BY <1>4 DEF Ops
  <2>2. ObjectType'
    BY <1>1, <1>4 DEF MoveConstruct, ObjectType
  <2> QED
    BY <1>4, <2>1, <2>2, MoveConstructEffect
<1>5. CASE c.op = "CopyAssign" /\ CopyAssign(t, c.p, c.r)
  <2>1. c.p \in Pointers /\ c.r \in Pointers
    BY <1>5 DEF Ops
  <2>2. ObjectType'
    BY <1>1, <1>5 DEF CopyAssign, ObjectType
  <2> QED
    BY <1>5, <2>1, <2>2, CopyAssignEffect
<1>6. CASE c.op = "MoveAssign" /\ MoveAssign(t, c.p, c.r)
  <2>1. c.p \in Pointers /\ c.r \in Pointers
    BY <1>6 DEF Ops
  <2>2. ObjectType'
    BY <1>1, <1>6 DEF MoveAssign, ObjectType
  <2> QED
    BY <1>6, <2>1, <2>2, MoveAssignEffect
<1>7. CASE c.op = "Destroy" /\ Destroy(t, c.p)
  <2>1. c.p \in Pointers
    BY <1>7 DEF Ops
  <2>2. ObjectType'
    BY <1>1, <1>7 DEF Destroy, ObjectType
  <2> QED
    BY <1>7, <2>1, <2>2, DestroyEffect
<1>8. CASE c.op = "Use" /\ Use(t, c.r)
  <2>1. c.r \in Objects
    BY <1>8 DEF Ops
  <2>2. ObjectType'
    BY <1>1, <1>8 DEF Use, ObjectType
  <2> QED
    BY <1>8, <2>1, <2>2, UseEffect
<1> QED
  BY <1>2, <1>3, <1>4, <1>5, <1>6, <1>7, <1>8 DEF Begin

(* A pointer is handed over between two operations, with its reference.    *)
LEMMA HandOverEffect ==
  ASSUME RefType, OwnSteps, NEW t \in Threads, NEW p \in Pointers, NEW u \in Threads,
         HandOver(t, p, u)
  PROVE  /\ OwnSteps'
         /\ \A o \in Objects : Refs(o)' = Refs(o)
         /\ \A v \in Threads : \A o, q : Adds(v, o, q)' <=> Adds(v, o, q)
         /\ \A v \in Threads, o \in Objects, q \in Pointers :
              Adds(v, o, q) /\ Kept(v, o) => Kept(v, o)'
<1>1. /\ owner[p] = t /\ todo[t] = <<>> /\ owner' = [owner EXCEPT ![p] = u]
      /\ ptr_' = ptr_ /\ todo' = todo
      /\ owner \in [Pointers -> Threads] /\ owner' \in [Pointers -> Threads]
      /\ todo \in [Threads -> Seq(PendingSteps)]
  BY DEF RefType, TypeOK, HandOver, Owns
<1>2. /\ \A v \in Threads : \A o, q : Adds(v, o, q)' <=> Adds(v, o, q)
      /\ \A v \in Threads : \A o : Releases(v, o)' <=> Releases(v, o)
  BY <1>1 DEF Adds, Releases
<1>3. \A q \in Pointers : q # p => owner'[q] = owner[q]
  BY <1>1
<1>4. \A v \in Threads, q \in Pointers : v # t /\ owner[q] = v => owner'[q] = v
  BY <1>1
<1>5. \A o, q : ~Adds(t, o, q)
  BY <1>1 DEF Adds
<1>6. \A q \in Pointers : q # p => Final(q)' = Final(q) /\ (Taking(q)' <=> Taking(q))
  BY <1>1, <1>2, <1>3 DEF Final, Taking
<1>7. owner'[p] = u
  BY <1>1
<1>8. Final(p) = ptr_[p] /\ Final(p)' = ptr_[p]
  <2>1. Len(todo[t]) = 0
    BY <1>1
  <2>2. After(todo[t], p, ptr_[p]) = ptr_[p]
    BY <2>1 DEF After
  <2>3. After(todo[u], p, ptr_[p]) = ptr_[p]
    <3>1. CASE u = t
      BY <2>2, <3>1
    <3>2. CASE u # t
      <4>1. \A i \in DOMAIN todo[u] : ~IsStore(todo[u][i], p)
        BY <1>1, <3>2 DEF OwnSteps, IsStore
      <4>2. /\ Len(todo[u]) >= 1 => 1 \in DOMAIN todo[u]
            /\ Len(todo[u]) >= 2 => 2 \in DOMAIN todo[u]
            /\ Len(todo[u]) >= 3 => 3 \in DOMAIN todo[u]
        BY <1>1
      <4> QED
        BY <4>1, <4>2 DEF After
    <3> QED
      BY <3>1, <3>2
  <2> QED
    BY <1>1, <1>7, <2>2, <2>3 DEF Final
<1>9. ~Taking(p) /\ ~Taking(p)'
  <2>1. \A o \in Objects : ~Adds(u, o, p)
    <3>1. \A o \in Objects : Adds(u, o, p) => u = t
      BY <1>1, AddsFinal
    <3> QED
      BY <1>5, <3>1
  <2>2. \A o \in Objects : ~Adds(u, o, p)'
    BY <1>2, <2>1
  <2> QED
    BY <1>1, <1>5, <1>7, <2>2 DEF Taking
<1>10. ASSUME NEW o \in Objects
       PROVE  Refs(o)' = Refs(o)
  <2>1. \A q \in Pointers : q \in Refs(o)' <=> q \in Refs(o)
    BY <1>6, <1>8, <1>9, InRefs, InRefsPrime
  <2>2. \A v \in Threads : v \in Refs(o)' <=> v \in Refs(o)
    BY <1>2, InRefs, InRefsPrime
  <2> QED
    BY <2>1, <2>2, InRefs, InRefsPrime
<1>11. ASSUME NEW v \in Threads, NEW o \in Objects, NEW q \in Pointers,
              Adds(v, o, q), Kept(v, o)
       PROVE  Kept(v, o)'
  <2>1. v # t
    BY <1>5, <1>11
  <2> QED
    BY <1>4, <1>10, <1>11, <2>1 DEF Kept
<1>12. OwnSteps'
  <2> DEFINE Holds(q) == After(todo'[owner'[q]], q, ptr_'[q])
  <2>1. \A q \in Pointers : Holds(q) = Final(q)
    BY <1>6, <1>8 DEF Final
  <2>2. ASSUME NEW v \in Threads, NEW i \in DOMAIN todo[v]
        PROVE  /\ todo[v][i].op = "Store" => owner'[todo[v][i].on] = v
               /\ todo[v][i].op = "AddRef" => /\ owner'[todo[v][i].to] = v
                                              /\ Holds(todo[v][i].to) = todo[v][i].on
    <3>1. v # t /\ todo[v][i] \in PendingSteps
      BY <1>1
    <3>2. todo[v][i].op = "Store" => todo[v][i].on \in Pointers /\ owner[todo[v][i].on] = v
      BY <3>1, StepFields DEF OwnSteps
    <3>3. todo[v][i].op = "AddRef" => /\ todo[v][i].to \in Pointers
                                      /\ owner[todo[v][i].to] = v
                                      /\ Final(todo[v][i].to) = todo[v][i].on
      BY <3>1, StepFields DEF OwnSteps
    <3> HIDE DEF Holds
    <3> QED
      BY <1>4, <2>1, <3>1, <3>2, <3>3
  <2> SUFFICES ASSUME NEW v \in Threads, NEW i \in DOMAIN todo'[v]
      PROVE  /\ todo'[v][i].op = "Store" => owner'[todo'[v][i].on] = v
             /\ todo'[v][i].op = "AddRef" => /\ owner'[todo'[v][i].to] = v
                                             /\ Holds(todo'[v][i].to) = todo'[v][i].on
             /\ \A j \in DOMAIN todo'[v] : i < j =>
                  /\ todo'[v][i].op = "Release" => todo'[v][j].op = "Store"
                  /\ todo'[v][i].op = "AddRef" => todo'[v][j].op # "AddRef"
    BY DEF OwnSteps, Final
  <2> HIDE DEF Holds
  <2> QED
    BY <1>1, <2>2 DEF OwnSteps
<1> QED
  BY <1>2, <1>10, <1>11, <1>12

(* Then the counters are right as before.                                  *)
LEMMA HandOverKeeps ==
  ASSUME RefInv, NEW t \in Threads, NEW p \in Pointers, NEW u \in Threads,
         HandOver(t, p, u)
  PROVE  OwnSteps' /\ Counted' /\ HasSource' /\ UsedWhileAlive'
<1>1. RefType /\ OwnSteps /\ Counted /\ HasSource /\ UsedWhileAlive
  BY DEF RefInv
<1>2. /\ OwnSteps'
      /\ \A o \in Objects : Refs(o)' = Refs(o)
      /\ \A v \in Threads : \A o, q : Adds(v, o, q)' <=> Adds(v, o, q)
      /\ \A v \in Threads, o \in Objects, q \in Pointers :
           Adds(v, o, q) /\ Kept(v, o) => Kept(v, o)'
  BY <1>1, HandOverEffect
<1>3. ref_count_' = ref_count_ /\ object' = object
  BY DEF HandOver
<1>4. Counted'
  BY <1>1, <1>2, <1>3 DEF Counted
<1>5. HasSource'
  BY <1>1, <1>2 DEF HasSource
<1>6. UsedWhileAlive'
  BY <1>1, <1>2, <1>3 DEF UsedWhileAlive, Unused
<1> QED
  BY <1>2, <1>4, <1>5, <1>6

-----------------------------------------------------------------------------
(* A step of a thread.                                                     *)

(* What it does to the counter and the state of an object.                 *)
LEMMA StepActs ==
  ASSUME RefType, NEW t \in Threads, Step(t), NEW o \in Objects
  PROVE  /\ \A p \in Pointers : Head(todo[t]) = AddRef(o, p) =>
              ref_count_'[o] = ref_count_[o] + 1 /\ object'[o] = Touched(o)
         /\ Head(todo[t]) = Release(o) =>
              /\ ref_count_'[o] = ref_count_[o] - 1
              /\ object'[o] = IF ref_count_[o] = 1 /\ object[o] = "alive"
                              THEN "deleted" ELSE Touched(o)
         /\ (\A p \in Pointers : Head(todo[t]) # AddRef(o, p))
              /\ Head(todo[t]) # Release(o) =>
              /\ ref_count_'[o] = ref_count_[o]
              /\ \/ object'[o] = object[o]
                 \/ /\ Head(todo[t]).op = "Touch" /\ Head(todo[t]).on = o
                    /\ object'[o] = Touched(o)
<1> DEFINE s == Head(todo[t])
<1>1. s \in PendingSteps
  BY TailPositions DEF RefType, Step
<1>2. /\ ref_count_ \in [Objects -> Int]
      /\ object \in [Objects -> {"none", "alive", "deleted", "corrupt"}]
      /\ o # Null
  BY ScopedRefptrAssumption DEF RefType, TypeOK
<1>3. \/ s.on = Null /\ UNCHANGED <<ref_count_, object>>
      \/ s.on # Null /\ s.op = "AddRef" /\ IncRef(s.on)
      \/ s.on # Null /\ s.op = "Release" /\ DecRef(s.on)
      \/ s.op = "Touch" /\ object' = [object EXCEPT ![s.on] = Touched(s.on)] /\ ref_count_' = ref_count_
      \/ s.op = "Store" /\ UNCHANGED <<ref_count_, object>>
  BY DEF Step
<1> HIDE DEF s
<1>4. s.op = "AddRef" => s.to \in Pointers /\ s = AddRef(s.on, s.to)
  BY <1>1, StepFields
<1>5. s.op = "Release" => s = Release(s.on)
  BY <1>1, StepFields
<1>6. s.op = "Touch" => s.on # Null
  BY <1>1, StepFields, ScopedRefptrAssumption
<1>7. ASSUME NEW p \in Pointers, s = AddRef(o, p)
      PROVE  ref_count_'[o] = ref_count_[o] + 1 /\ object'[o] = Touched(o)
  <2>1. s.op = "AddRef" /\ s.on = o
    BY <1>7, StepShapes
  <2>2. IncRef(o)
    BY <1>2, <1>3, <2>1
  <2> QED
    BY <1>2, <2>2 DEF IncRef
<1>8. ASSUME s = Release(o)
      PROVE  /\ ref_count_'[o] = ref_count_[o] - 1
             /\ object'[o] = IF ref_count_[o] = 1 /\ object[o] = "alive"
                             THEN "deleted" ELSE Touched(o)
  <2>1. s.op = "Release" /\ s.on = o
    BY <1>8, StepShapes
  <2>2. DecRef(o)
    BY <1>2, <1>3, <2>1
  <2> QED
    BY <1>2, <2>2 DEF DecRef
<1>9. ASSUME \A p \in Pointers : s # AddRef(o, p), s # Release(o)
      PROVE  /\ ref_count_'[o] = ref_count_[o]
             /\ \/ object'[o] = object[o]
                \/ s.op = "Touch" /\ s.on = o /\ object'[o] = Touched(o)
  <2>1. ~(s.op = "AddRef" /\ s.on = o) /\ ~(s.op = "Release" /\ s.on = o)
    BY <1>4, <1>5, <1>9
  <2>2. CASE UNCHANGED <<ref_count_, object>>
    BY <2>2
  <2>3. CASE s.op = "AddRef" /\ IncRef(s.on)
    BY <1>2, <2>1, <2>3 DEF IncRef
  <2>4. CASE s.op = "Release" /\ DecRef(s.on)
    BY <1>2, <2>1, <2>4 DEF DecRef
  <2>5. CASE /\ s.op = "Touch" /\ object' = [object EXCEPT ![s.on] = Touched(s.on)]
             /\ ref_count_' = ref_count_
    BY <1>2, <2>5
  <2> QED
    BY <1>3, <2>2, <2>3, <2>4, <2>5
<1> QED
  BY <1>7, <1>8, <1>9 DEF s

(* The step leaves the rest of the operation well ordered.                 *)
LEMMA StepKeepsOwn ==
  ASSUME RefType, OwnSteps, NEW t \in Threads, Step(t)
  PROVE  OwnSteps'
<1>1. /\ todo[t] \in Seq(PendingSteps) /\ todo[t] # <<>> /\ todo'[t] = Tail(todo[t])
      /\ \A u \in Threads \ {t} : todo'[u] = todo[u]
      /\ owner' = owner /\ owner \in [Pointers -> Threads]
      /\ todo \in [Threads -> Seq(PendingSteps)]
  BY DEF RefType, TypeOK, Step
<1> DEFINE Holds(q) == After(todo'[owner'[q]], q, ptr_'[q])
<1>2. \A q \in Pointers : Holds(q) = Final(q)
  BY StepKeepsFinal DEF Final
<1>3. ASSUME NEW v \in Threads, NEW i \in DOMAIN todo[v]
      PROVE  todo[v][i].op = "AddRef" => Holds(todo[v][i].to) = todo[v][i].on
  <2>1. todo[v][i] \in PendingSteps
    BY <1>1
  <2>2. todo[v][i].op = "AddRef" => /\ todo[v][i].to \in Pointers
                                    /\ Final(todo[v][i].to) = todo[v][i].on
    BY <2>1, StepFields DEF OwnSteps
  <2> HIDE DEF Holds
  <2> QED
    BY <1>2, <2>2
<1> SUFFICES ASSUME NEW v \in Threads, NEW i \in DOMAIN todo'[v]
    PROVE  /\ todo'[v][i].op = "Store" => owner'[todo'[v][i].on] = v
           /\ todo'[v][i].op = "AddRef" => /\ owner'[todo'[v][i].to] = v
                                           /\ Holds(todo'[v][i].to) = todo'[v][i].on
           /\ \A j \in DOMAIN todo'[v] : i < j =>
                /\ todo'[v][i].op = "Release" => todo'[v][j].op = "Store"
                /\ todo'[v][i].op = "AddRef" => todo'[v][j].op # "AddRef"
  BY DEF OwnSteps, Final
<1> HIDE DEF Holds
<1>4. CASE v # t
  <2>1. todo'[v] = todo[v]
    BY <1>1, <1>4
  <2> QED
    BY <1>1, <1>3, <2>1 DEF OwnSteps
<1>5. CASE v = t
  <2>1. \A k \in DOMAIN todo'[t] :
          k \in Int /\ k + 1 \in DOMAIN todo[t] /\ todo'[t][k] = todo[t][k + 1]
    BY <1>1, TailPositions
  <2>2. /\ todo[t][i + 1].op = "Store" => owner[todo[t][i + 1].on] = t
        /\ todo[t][i + 1].op = "AddRef" => owner[todo[t][i + 1].to] = t
        /\ \A j \in DOMAIN todo[t] : i + 1 < j =>
             /\ todo[t][i + 1].op = "Release" => todo[t][j].op = "Store"
             /\ todo[t][i + 1].op = "AddRef" => todo[t][j].op # "AddRef"
    BY <1>5, <2>1 DEF OwnSteps
  <2>3. todo[t][i + 1].op = "AddRef" => Holds(todo[t][i + 1].to) = todo[t][i + 1].on
    BY <1>3, <1>5, <2>1
  <2>4. \A j \in DOMAIN todo'[t] : i < j =>
             /\ todo[t][i + 1].op = "Release" => todo'[t][j].op = "Store"
             /\ todo[t][i + 1].op = "AddRef" => todo'[t][j].op # "AddRef"
    BY <1>5, <2>1, <2>2
  <2> QED
    BY <1>1, <1>5, <2>1, <2>2, <2>3, <2>4
<1> QED
  BY <1>4, <1>5

(* After its Release a thread takes no reference any more.                 *)
LEMMA ReleaseEnds ==
  ASSUME RefType, OwnSteps, NEW t \in Threads, Step(t), Head(todo[t]).op = "Release"
  PROVE  \A o, p : ~Adds(t, o, p)'
<1>1. /\ todo[t] \in Seq(PendingSteps) /\ todo[t] # <<>> /\ todo'[t] = Tail(todo[t])
  BY DEF RefType, TypeOK, Step
<1>2. \A k \in DOMAIN todo'[t] :
        1 < k + 1 /\ k + 1 \in DOMAIN todo[t] /\ todo'[t][k] = todo[t][k + 1]
  BY <1>1, TailPositions
<1>3. \A k \in DOMAIN todo'[t] : todo'[t][k].op = "Store"
  BY <1>1, <1>2, TailPositions DEF OwnSteps
<1> QED
  BY <1>3, StepKinds DEF Adds

(* After its AddRef neither.                                               *)
LEMMA AddRefOnce ==
  ASSUME RefType, OwnSteps, NEW t \in Threads, Step(t), Head(todo[t]).op = "AddRef"
  PROVE  \A o, p : ~Adds(t, o, p)'
<1>1. /\ todo[t] \in Seq(PendingSteps) /\ todo[t] # <<>> /\ todo'[t] = Tail(todo[t])
  BY DEF RefType, TypeOK, Step
<1>2. \A k \in DOMAIN todo'[t] :
        1 < k + 1 /\ k + 1 \in DOMAIN todo[t] /\ todo'[t][k] = todo[t][k + 1]
  BY <1>1, TailPositions
<1>3. \A k \in DOMAIN todo'[t] : todo'[t][k].op # "AddRef"
  BY <1>1, <1>2, TailPositions DEF OwnSteps
<1> QED
  BY <1>3, StepKinds DEF Adds

(* A step with which a reference comes or goes is counted.                 *)
LEMMA StepCounts ==
  ASSUME RefType, OwnSteps, Counted, NEW t \in Threads, Step(t)
  PROVE  Counted'
<1> SUFFICES ASSUME NEW o \in Objects
             PROVE  ref_count_'[o] = Cardinality(Refs(o)')
  BY DEF Counted
<1>1. ref_count_[o] = Cardinality(Refs(o)) /\ IsFiniteSet(Refs(o)) /\ Cardinality(Refs(o)) \in Nat
  BY FiniteRefs DEF Counted
<1>2. ASSUME NEW p \in Pointers, Head(todo[t]) = AddRef(o, p)
      PROVE  ref_count_'[o] = Cardinality(Refs(o)')
  <2>1. Refs(o)' = Refs(o) \cup {p} /\ p \notin Refs(o)
    BY <1>2, StepRefs
  <2>2. Cardinality(Refs(o) \cup {p}) = Cardinality(Refs(o)) + 1
    BY <1>1, <2>1, FS_AddElement
  <2>3. ref_count_'[o] = ref_count_[o] + 1
    BY <1>2, StepActs
  <2> QED
    BY <1>1, <2>1, <2>2, <2>3
<1>3. ASSUME Head(todo[t]) = Release(o)
      PROVE  ref_count_'[o] = Cardinality(Refs(o)')
  <2>1. Refs(o)' = Refs(o) \ {t} /\ t \in Refs(o)
    BY <1>3, StepRefs
  <2>2. Cardinality(Refs(o) \ {t}) = Cardinality(Refs(o)) - 1
    BY <1>1, <2>1, FS_RemoveElement
  <2>3. ref_count_'[o] = ref_count_[o] - 1
    BY <1>3, StepActs
  <2> QED
    BY <1>1, <2>1, <2>2, <2>3
<1>4. ASSUME \A p \in Pointers : Head(todo[t]) # AddRef(o, p), Head(todo[t]) # Release(o)
      PROVE  ref_count_'[o] = Cardinality(Refs(o)')
  BY <1>1, <1>4, StepActs, StepRefs
<1> QED
  BY <1>2, <1>3, <1>4

(* Who takes a reference still has one in hand after another's step.       *)
LEMMA StepKeepsSource ==
  ASSUME RefType, OwnSteps, HasSource, NEW t \in Threads, Step(t)
  PROVE  HasSource'
<1> DEFINE s == Head(todo[t])
<1>0. owner' = owner
  BY DEF Step
<1> SUFFICES ASSUME NEW u \in Threads, NEW o \in Objects, NEW p \in Pointers,
                    Adds(u, o, p)'
             PROVE  \/ Kept(u, o)'
                    \/ /\ Refs(o)' = {}
                       /\ \A v \in Threads \ {u}, q \in Pointers : ~Adds(v, o, q)'
  BY DEF HasSource
<1>1. \A v \in Threads, q \in Pointers : Adds(v, o, q)' => Adds(v, o, q)
  BY StepPending
<1>2. \/ Kept(u, o)
      \/ Refs(o) = {} /\ \A v \in Threads \ {u}, q \in Pointers : ~Adds(v, o, q)
  BY <1>1 DEF HasSource
<1>3. \A q \in Pointers : s = AddRef(o, q) => u # t /\ Adds(t, o, q)
  <2>1. ASSUME NEW q \in Pointers, s = AddRef(o, q)
        PROVE  u # t /\ Adds(t, o, q)
    <3>1. s.op = "AddRef"
      BY <2>1, StepKinds
    <3>2. u # t
      BY <3>1, AddRefOnce
    <3>3. 1 \in DOMAIN todo[t] /\ todo[t][1] = s
      BY TailPositions DEF RefType, Step
    <3> QED
      BY <2>1, <3>2, <3>3 DEF Adds
  <2> QED
    BY <2>1
<1>4. s = Release(o) => u # t
  BY ReleaseEnds, StepKinds
<1>5. \A v \in Pointers : v # t
  BY ScopedRefptrAssumption
<1>6. CASE Kept(u, o)
  <2>1. \A e \in Refs(o) : e # t => e \in Refs(o)'
    BY StepRefs
  <2>2. u = t => \A e \in Refs(o) : e \in Refs(o)'
    BY <1>4, StepRefs
  <2> QED
    BY <1>0, <1>5, <1>6, <2>1, <2>2 DEF Kept
<1>7. CASE Refs(o) = {} /\ \A v \in Threads \ {u}, q \in Pointers : ~Adds(v, o, q)
  <2>1. \A q \in Pointers : s # AddRef(o, q)
    BY <1>3, <1>7
  <2>2. Refs(o)' = {}
    BY <1>7, <2>1, StepRefs
  <2> QED
    BY <1>1, <1>7, <2>2
<1> QED
  BY <1>2, <1>6, <1>7

(* The last reference is dropped with the object, and no earlier.          *)
LEMMA StepKeepsUsed ==
  ASSUME RefType, OwnSteps, Counted, UsedWhileAlive, NEW t \in Threads, Step(t)
  PROVE  UsedWhileAlive'
<1> DEFINE s == Head(todo[t])
<1> SUFFICES ASSUME NEW o \in Objects
             PROVE  /\ object'[o] = "none" => Unused(o)'
                    /\ object'[o] = "alive" => ~Unused(o)'
  BY DEF UsedWhileAlive
<1>1. CASE \E p \in Pointers : s = AddRef(o, p)
  <2>1. PICK p \in Pointers : s = AddRef(o, p)
    BY <1>1
  <2>2. p \in Refs(o)' /\ object'[o] = Touched(o)
    BY <2>1, StepRefs, StepActs
  <2> QED
    BY <2>2 DEF Touched, Unused
<1>2. CASE s = Release(o)
  <2>1. /\ Refs(o)' = Refs(o) \ {t} /\ t \in Refs(o)
        /\ object'[o] = IF ref_count_[o] = 1 /\ object[o] = "alive"
                        THEN "deleted" ELSE Touched(o)
    BY <1>2, StepRefs, StepActs
  <2>2. Refs(o)' = {} => ref_count_[o] = 1
    <3>1. Refs(o)' = {} => Refs(o) = {t}
      BY <2>1
    <3>2. Cardinality({t}) = 1
      BY FS_Singleton
    <3> QED
      BY <3>1, <3>2 DEF Counted
  <2> QED
    BY <2>1, <2>2 DEF Touched, Unused
<1>3. CASE s # Release(o) /\ \A p \in Pointers : s # AddRef(o, p)
  <2>1. Refs(o)' = Refs(o) /\ (object'[o] = object[o] \/ object'[o] = Touched(o))
    BY <1>3, StepRefs, StepActs
  <2>2. \A v \in Threads, q \in Pointers : Adds(v, o, q)' <=> Adds(v, o, q)
    BY <1>3, StepPending
  <2>3. /\ object'[o] = "none" => object[o] = "none"
        /\ object'[o] = "alive" => object[o] = "alive"
    BY <2>1 DEF Touched
  <2>4. Unused(o)' <=> Unused(o)
    BY <2>1, <2>2 DEF Unused
  <2> QED
    BY <2>3, <2>4 DEF UsedWhileAlive
<1> QED
  BY <1>1, <1>2, <1>3

-----------------------------------------------------------------------------
(* The counters are right in every state.                                  *)

(* Initially there are no references.                                      *)
LEMMA RefInit ==
  ASSUME Init
  PROVE  RefInv /\ AliveWhileUsed
<1>1. /\ todo = [t \in Threads |-> <<>>] /\ ptr_ = [p \in Pointers |-> Null]
      /\ ref_count_ = [o \in Objects |-> 0] /\ object = [o \in Objects |-> "none"]
      /\ program \in Programs /\ script = program.script
  BY DEF Init
<1>2. owner \in [Pointers -> Threads]
  <2>1. program.first \in [Pointers -> Threads]
    BY <1>1, ScopedRefptrAssumption
  <2>2. CASE program.end = "any"
    <3>1. PICK f \in [Free \cap Pointers -> Threads] :
            owner = [p \in Pointers |-> IF p \in Free THEN f[p] ELSE program.first[p]]
      BY <2>2 DEF Init
    <3> QED
      BY <2>1, <3>1
  <2>3. CASE program.end # "any"
    BY <2>1, <2>3 DEF Init
  <2> QED
    BY <2>2, <2>3
<1>3. RefType
  <2>1. script \in [Threads -> Seq(Ops)]
    BY <1>1, ScopedRefptrAssumption
  <2>2. todo \in [Threads -> Seq(PendingSteps)] /\ \A t \in Threads : Len(todo[t]) <= 3
    BY <1>1
  <2> QED
    BY <1>1, <1>2, <2>1, <2>2 DEF RefType, TypeOK
<1>4. \A t \in Threads : todo[t] = <<>>
  BY <1>1
<1>5. OwnSteps
  BY <1>4 DEF OwnSteps
<1>6. \A t \in Threads : \A o, p : ~Adds(t, o, p) /\ ~Releases(t, o)
  BY <1>4 DEF Adds, Releases
<1>7. \A o \in Objects : Refs(o) = {}
  <2>1. \A p \in Pointers : Final(p) = Null
    BY <1>1, <1>2, <1>4 DEF Final, After
  <2> QED
    BY <1>6, <2>1, ScopedRefptrAssumption DEF Refs
<1>8. Counted
  BY <1>1, <1>7, FS_EmptySet DEF Counted
<1>9. HasSource
  BY <1>6 DEF HasSource
<1>10. UsedWhileAlive /\ AliveWhileUsed
  BY <1>1, <1>6, <1>7 DEF UsedWhileAlive, AliveWhileUsed, Unused
<1> QED
  BY <1>3, <1>5, <1>8, <1>9, <1>10 DEF RefInv

(* Types after the beginning of an operation.                              *)
LEMMA StartTypes ==
  ASSUME RefType, NEW t \in Threads, OpEffect(t), ObjectType',
         program' = program, script' \in [Threads -> Seq(Ops)]
  PROVE  RefType'
<1>1. PICK steps : Starts(t, steps)
  BY DEF OpEffect
<1>2. /\ steps \in Seq(PendingSteps) /\ Len(steps) <= 3
      /\ todo' = [todo EXCEPT ![t] = steps]
      /\ UNCHANGED <<ptr_, owner, ref_count_>>
  BY <1>1 DEF Starts
<1>3. todo' \in [Threads -> Seq(PendingSteps)] /\ \A u \in Threads : Len(todo'[u]) <= 3
  BY <1>2 DEF RefType, TypeOK
<1> QED
  BY <1>2, <1>3 DEF RefType, TypeOK, ObjectType

(* Types after a step.                                                     *)
LEMMA StepTypes ==
  ASSUME RefType, NEW t \in Threads, Step(t)
  PROVE  RefType'
<1> DEFINE s == Head(todo[t])
<1>1. s \in PendingSteps /\ Tail(todo[t]) \in Seq(PendingSteps)
      /\ Len(Tail(todo[t])) = Len(todo[t]) - 1
  BY TailPositions DEF RefType, Step
<1>2. todo' = [todo EXCEPT ![t] = Tail(todo[t])] /\ UNCHANGED <<owner, program, script>>
  BY DEF Step, programVars
<1>3. todo' \in [Threads -> Seq(PendingSteps)] /\ \A u \in Threads : Len(todo'[u]) <= 3
  <2>1. Len(Tail(todo[t])) <= 3
    BY <1>1 DEF RefType, TypeOK
  <2> QED
    BY <1>1, <1>2, <2>1 DEF RefType, TypeOK
<1>4. /\ s.op = "Touch" => s.on \in Objects
      /\ s.op = "Store" => s.on \in Pointers /\ s.to \in Objects \cup {Null}
      /\ s.op = "AddRef" => s.on \in Objects \cup {Null}
      /\ s.op = "Release" => s.on \in Objects \cup {Null}
  BY <1>1, StepFields
<1> HIDE DEF s
<1>5. /\ ptr_' \in [Pointers -> Objects \cup {Null}]
      /\ ref_count_' \in [Objects -> Int]
      /\ ObjectType'
  <2>0. /\ ptr_ \in [Pointers -> Objects \cup {Null}]
        /\ ref_count_ \in [Objects -> Int]
        /\ ObjectType
    BY DEF RefType, TypeOK, ObjectType
  <2>1. CASE s.on = Null /\ UNCHANGED <<ptr_, ref_count_, object>>
    BY <2>0, <2>1 DEF ObjectType
  <2>2. CASE s.on # Null /\ s.op = "AddRef" /\ IncRef(s.on) /\ UNCHANGED ptr_
    BY <1>4, <2>0, <2>2 DEF ObjectType, IncRef, Touched
  <2>3. CASE s.on # Null /\ s.op = "Release" /\ DecRef(s.on) /\ UNCHANGED ptr_
    BY <1>4, <2>0, <2>3 DEF ObjectType, DecRef, Touched
  <2>4. CASE /\ s.op = "Touch" /\ object' = [object EXCEPT ![s.on] = Touched(s.on)]
             /\ UNCHANGED <<ptr_, ref_count_>>
    BY <1>4, <2>0, <2>4 DEF ObjectType, Touched
  <2>5. CASE /\ s.op = "Store" /\ ptr_' = [ptr_ EXCEPT ![s.on] = s.to]
             /\ UNCHANGED <<ref_count_, object>>
    BY <1>4, <2>0, <2>5 DEF ObjectType
  <2> QED
    BY <2>1, <2>2, <2>3, <2>4, <2>5 DEF Step, s
<1> QED
  BY <1>2, <1>3, <1>5 DEF RefType, TypeOK, ObjectType

(* Every operation, of a script or of the program "any".                   *)
LEMMA BeginKeeps ==
  ASSUME RefInv, NEW t \in Threads, NEW c \in Ops, Begin(t, c),
         program' = program, script' \in [Threads -> Seq(Ops)]
  PROVE  RefInv'
<1>0. RefType /\ OwnSteps /\ Counted /\ HasSource /\ UsedWhileAlive
  BY DEF RefInv
<1>1. CASE c.op # "HandOver"
  <2>1. OpEffect(t) /\ ObjectType'
    BY <1>0, <1>1, BeginEffect
  <2>2. PICK steps : Starts(t, steps)
    BY <2>1 DEF OpEffect
  <2>3. OwnSteps' /\ Counted' /\ HasSource' /\ UsedWhileAlive'
    BY <1>0, <2>1, <2>2, StartEffect DEF OpEffect
  <2>4. RefType'
    BY <1>0, <2>1, StartTypes
  <2> QED
    BY <2>3, <2>4 DEF RefInv
<1>2. CASE c.op = "HandOver"
  <2>1. HandOver(t, c.p, c.r)
    BY <1>2 DEF Begin
  <2>2. c.p \in Pointers /\ c.r \in Threads
    BY <1>2 DEF Ops
  <2>3. OwnSteps' /\ Counted' /\ HasSource' /\ UsedWhileAlive'
    BY <2>1, <2>2, HandOverKeeps
  <2>4. RefType'
    BY <1>0, <2>1, <2>2 DEF RefType, TypeOK, HandOver
  <2> QED
    BY <2>3, <2>4 DEF RefInv
<1> QED
  BY <1>1, <1>2

(* Nothing but the program's own state changes.                            *)
LEMMA PointersUnchanged ==
  ASSUME RefInv, UNCHANGED <<ptr_, owner, ref_count_, object, todo>>,
         program' = program, script' \in [Threads -> Seq(Ops)]
  PROVE  RefInv' /\ (AliveWhileUsed => AliveWhileUsed')
<1>1. RefType'
  BY DEF RefInv, RefType, TypeOK
<1>2. /\ \A t : \A o, p : Adds(t, o, p)' <=> Adds(t, o, p)
      /\ \A t : \A o : Releases(t, o)' <=> Releases(t, o)
      /\ \A p : Final(p)' = Final(p) /\ (Taking(p)' <=> Taking(p))
  BY DEF Adds, Releases, Final, Taking
<1>3. \A o : Refs(o)' = Refs(o)
  BY <1>2 DEF Refs
<1>4. OwnSteps'
  BY DEF RefInv, OwnSteps, Final
<1>5. Counted'
  BY <1>3 DEF RefInv, Counted
<1>6. HasSource'
  BY <1>2, <1>3 DEF RefInv, HasSource, Kept
<1>7. UsedWhileAlive' /\ (AliveWhileUsed => AliveWhileUsed')
  BY <1>2, <1>3 DEF RefInv, UsedWhileAlive, AliveWhileUsed, Unused
<1> QED
  BY <1>1, <1>4, <1>5, <1>6, <1>7 DEF RefInv

(* What a thread of the program "any" may begin is an operation.           *)
LEMMA AnyOpBegins ==
  ASSUME RefType, NEW t \in Threads, AnyOp(t)
  PROVE  /\ \E c \in Ops : Begin(t, c) /\ (c.op = "Use" => \E p \in Pointers : owner[p] = t /\ ptr_[p] = c.r)
         /\ UNCHANGED programVars
<1>1. PICK p \in Free \cap Pointers :
       \/ \E o \in Free \cap Objects : Begin(t, Op("Create", p, o))
       \/ Begin(t, Op("Destroy", p, Null))
       \/ \E r \in Free \cap Pointers :
            \E op \in {"CopyConstruct", "MoveConstruct", "CopyAssign", "MoveAssign"} :
              Begin(t, Op(op, p, r))
       \/ \E u \in Threads \ {t} : Begin(t, Op("HandOver", p, u))
       \/ Owns(t, p) /\ ptr_[p] # Null /\ Begin(t, Op("Use", p, ptr_[p]))
  BY DEF AnyOp
<1>2. /\ \A o \in Objects : Op("Create", p, o) \in Ops
      /\ Op("Destroy", p, Null) \in Ops
      /\ \A r \in Pointers :
           \A op \in {"CopyConstruct", "MoveConstruct", "CopyAssign", "MoveAssign"} :
             Op(op, p, r) \in Ops
      /\ \A u \in Threads : Op("HandOver", p, u) \in Ops
      /\ \A o \in Objects : Op("Use", p, o) \in Ops
  BY DEF Op, Ops
<1>3. \A op, x, y : Op(op, x, y).op = op /\ Op(op, x, y).p = x /\ Op(op, x, y).r = y
  BY DEF Op
<1>4. ptr_[p] \in Objects \cup {Null}
  BY DEF RefType, TypeOK
<1>5. UNCHANGED programVars
  BY DEF AnyOp
<1> QED
  BY <1>1, <1>2, <1>3, <1>4, <1>5 DEF Owns

(* The invariant is inductive.                                             *)
LEMMA RefNext ==
  ASSUME RefInv, [Next]_vars
  PROVE  RefInv'
<1>0. RefType /\ OwnSteps /\ Counted /\ HasSource /\ UsedWhileAlive
  BY DEF RefInv
<1>1. script \in [Threads -> Seq(Ops)]
  BY <1>0 DEF RefType
<1>2. ASSUME NEW t \in Threads, Step(t)
      PROVE  RefInv'
  <2>1. RefType' /\ OwnSteps'
    BY <1>0, <1>2, StepTypes, StepKeepsOwn
  <2>2. Counted' /\ HasSource' /\ UsedWhileAlive'
    BY <1>0, <1>2, StepCounts, StepKeepsSource, StepKeepsUsed
  <2> QED
    BY <2>1, <2>2 DEF RefInv
<1>3. ASSUME NEW t \in Threads, AnyOp(t)
      PROVE  RefInv'
  <2>1. PICK c \in Ops : Begin(t, c)
    BY <1>0, <1>3, AnyOpBegins
  <2>2. UNCHANGED programVars
    BY <1>0, <1>3, AnyOpBegins
  <2>3. program' = program /\ script' = script
    BY <2>2 DEF programVars
  <2> QED
    BY <1>1, <2>1, <2>3, BeginKeeps
<1>4. ASSUME NEW t \in Threads, NextOp(t)
      PROVE  RefInv'
  <2>1. script[t] \in Seq(Ops) /\ script[t] # <<>>
    BY <1>1, <1>4 DEF NextOp
  <2>2. Head(script[t]) \in Ops /\ Tail(script[t]) \in Seq(Ops)
    BY <2>1, TailPositions
  <2>3. program' = program /\ script' \in [Threads -> Seq(Ops)]
    BY <1>1, <1>4, <2>2 DEF NextOp
  <2>4. CASE Begin(t, Head(script[t]))
    BY <2>2, <2>3, <2>4, BeginKeeps
  <2>5. CASE UNCHANGED <<ptr_, owner, ref_count_, object, todo>>
    BY <2>3, <2>5, PointersUnchanged
  <2> QED
    BY <1>4, <2>4, <2>5 DEF NextOp
<1>5. CASE UNCHANGED vars
  <2>1. UNCHANGED <<ptr_, owner, ref_count_, object, todo>> /\ program' = program /\ script' = script
    BY <1>5 DEF vars, programVars
  <2> QED
    BY <1>1, <2>1, PointersUnchanged
<1> QED
  BY <1>2, <1>3, <1>4, <1>5 DEF Next, Done

(* The counter of RefCounter is the number of references, in every state.  *)
THEOREM CounterIsRight == Spec => []RefInv
<1>1. Init => RefInv
  BY RefInit
<1>2. RefInv /\ [Next]_vars => RefInv'
  BY RefNext
<1> QED
  BY <1>1, <1>2, PTL DEF Spec

(* A pointer of a thread that is in no operation has a reference.          *)
LEMMA IdlePointer ==
  ASSUME RefType, NEW p \in Pointers, Idle(owner[p]), NEW o \in Objects, ptr_[p] = o
  PROVE  p \in Refs(o)
<1>1. todo[owner[p]] = <<>>
  BY DEF Idle
<1>2. Final(p) = o
  BY <1>1 DEF Final, After
<1>3. ~Taking(p)
  BY <1>1 DEF Taking, Adds
<1> QED
  BY <1>2, <1>3, InRefs

(* The two facts that HasOneRefIsExclusive rests on, for one pointer.      *)
LEMMA OneRef ==
  ASSUME RefInv, NEW p \in Pointers, Idle(owner[p]), NEW o \in Objects,
         ptr_[p] = o, ref_count_[o] = 1
  PROVE  Refs(o) = {p}
<1>0. RefType /\ Counted
  BY DEF RefInv
<1>1. p \in Refs(o)
  BY <1>0, IdlePointer
<1>2. Cardinality(Refs(o)) = 1 /\ IsFiniteSet(Refs(o))
  BY <1>0, FiniteRefs DEF Counted
<1>3. ASSUME NEW q \in Refs(o), q # p
      PROVE  FALSE
  <2>1. {p, q} \subseteq Refs(o)
    BY <1>1, <1>3
  <2>2. Cardinality({p, q}) = 2
    <3>1. {p, q} = {p} \cup {q} /\ q \notin {p}
      BY <1>3
    <3>2. Cardinality({p}) = 1 /\ IsFiniteSet({p})
      BY FS_Singleton
    <3>3. Cardinality({p} \cup {q}) = Cardinality({p}) + 1
      BY <3>1, <3>2, FS_AddElement
    <3> QED
      BY <3>1, <3>2, <3>3
  <2>3. Cardinality({p, q}) <= Cardinality(Refs(o))
    BY <1>2, <2>1, FS_Subset
  <2> QED
    BY <1>2, <2>2, <2>3
<1> QED
  BY <1>1, <1>3

(* HasOneRef is exclusive access: a thread that sees the count 1 in a      *)
(* pointer of its own, between two operations, is the only holder, and no  *)
(* other thread is about to take or to drop a reference.                   *)
THEOREM OneRefIsExclusive == Spec => []HasOneRefIsExclusive
<1>1. RefInv => HasOneRefIsExclusive
  <2> SUFFICES ASSUME RefInv, NEW p \in Pointers, Idle(owner[p]), ptr_[p] # Null,
                      ref_count_[ptr_[p]] = 1
               PROVE  /\ HoldersOf(ptr_[p]) \subseteq
                           {q \in Pointers : q = p \/ ~Idle(owner[q])}
                      /\ \A u \in Threads \ {owner[p]} : \A i \in DOMAIN todo[u] :
                           todo[u][i].op = "Touch" \/ todo[u][i].on # ptr_[p]
    BY DEF HasOneRefIsExclusive
  <2> DEFINE o == ptr_[p]
  <2>0. RefType /\ OwnSteps /\ HasSource /\ o \in Objects
    BY DEF RefInv, RefType, TypeOK
  <2>1. Refs(o) = {p}
    BY <2>0, OneRef
  <2>2. HoldersOf(o) \subseteq {q \in Pointers : q = p \/ ~Idle(owner[q])}
    <3>1. \A q \in Pointers : Idle(owner[q]) /\ ptr_[q] = o => q \in Refs(o)
      BY <2>0, IdlePointer
    <3> QED
      BY <2>1, <3>1 DEF HoldersOf
  <2>3. ASSUME NEW u \in Threads \ {owner[p]}, NEW i \in DOMAIN todo[u],
               todo[u][i].op # "Touch", todo[u][i].on = o
        PROVE  FALSE
    <3> HIDE DEF o
    <3>1. todo[u][i] \in PendingSteps
      BY <2>0 DEF RefType
    <3>2. u \notin Pointers /\ o \notin Pointers
      BY <2>0, ScopedRefptrAssumption
    <3>3. CASE todo[u][i].op = "AddRef"
      <4>1. todo[u][i].to \in Pointers /\ todo[u][i] = AddRef(o, todo[u][i].to)
        BY <2>3, <3>1, <3>3, StepFields
      <4>2. Adds(u, o, todo[u][i].to)
        BY <4>1 DEF Adds
      <4>3. Kept(u, o)
        BY <2>0, <2>1, <4>1, <4>2 DEF HasSource
      <4> QED
        BY <2>1, <3>2, <4>3 DEF Kept
    <3>4. CASE todo[u][i].op = "Release"
      <4>1. todo[u][i] = Release(o)
        BY <2>3, <3>1, <3>4, StepFields
      <4>2. u \in Refs(o)
        BY <2>0, <4>1, InRefs DEF Releases
      <4> QED
        BY <2>1, <3>2, <4>2
    <3>5. CASE todo[u][i].op = "Store"
      BY <2>3, <3>1, <3>2, <3>5, StepFields
    <3> QED
      BY <2>3, <3>1, <3>3, <3>4, <3>5, StepFields
  <2> QED
    BY <2>2, <2>3
<1> QED
  BY <1>1, CounterIsRight, PTL

(* An object that is deleted is used by nobody, when calls are safe.       *)
LEMMA StepKeepsAlive ==
  ASSUME RefInv, AliveWhileUsed, CallsAreSafe, NEW t \in Threads, Step(t)
  PROVE  AliveWhileUsed'
<1> DEFINE s == Head(todo[t])
<1>0. RefType /\ OwnSteps /\ Counted /\ HasSource
  BY DEF RefInv
<1> SUFFICES ASSUME NEW o \in Objects
             PROVE  /\ object'[o] # "corrupt"
                    /\ object'[o] # "alive" => Unused(o)'
  BY DEF AliveWhileUsed
<1>1. 1 \in DOMAIN todo[t] /\ todo[t][1] = s /\ todo[t] # <<>>
  BY <1>0, TailPositions DEF RefType, Step
<1>2. CASE \E p \in Pointers : s = AddRef(o, p)
  <2>1. PICK p \in Pointers : s = AddRef(o, p)
    BY <1>2
  <2>2. Adds(t, o, p)
    BY <1>1, <2>1 DEF Adds
  <2>3. object[o] = "alive"
    BY <2>2 DEF AliveWhileUsed, Unused
  <2>4. object'[o] = Touched(o)
    BY <1>0, <2>1, StepActs
  <2> QED
    BY <2>3, <2>4 DEF Touched
<1>3. CASE s = Release(o)
  <2>1. /\ Refs(o)' = Refs(o) \ {t} /\ t \in Refs(o)
        /\ object'[o] = IF ref_count_[o] = 1 /\ object[o] = "alive"
                        THEN "deleted" ELSE Touched(o)
    BY <1>0, <1>3, StepRefs, StepActs
  <2>2. object[o] = "alive"
    BY <2>1 DEF AliveWhileUsed, Unused
  <2>3. object'[o] = IF ref_count_[o] = 1 THEN "deleted" ELSE "alive"
    BY <2>1, <2>2 DEF Touched
  <2>4. ASSUME ref_count_[o] = 1
        PROVE  Unused(o)'
    <3>1. Refs(o) = {t}
      <4>1. IsFiniteSet(Refs(o)) /\ Cardinality(Refs(o)) = 1
        BY <1>0, <2>4, FiniteRefs DEF Counted
      <4>2. IsFiniteSet(Refs(o) \ {t}) /\ Cardinality(Refs(o) \ {t}) = 0
        BY <2>1, <4>1, FS_RemoveElement
      <4>3. Refs(o) \ {t} = {}
        BY <4>2, FS_EmptySet
      <4> QED
        BY <2>1, <4>3
    <3>2. Refs(o)' = {}
      BY <2>1, <3>1
    <3>3. \A p \in Pointers : ~Adds(t, o, p)'
      BY <1>0, <1>3, ReleaseEnds, StepKinds
    <3>4. ASSUME NEW u \in Threads, u # t, NEW p \in Pointers, Adds(u, o, p)'
          PROVE  FALSE
      <4>1. Adds(u, o, p)
        BY <1>0, <3>4, StepPending
      <4>2. Kept(u, o)
        BY <1>0, <3>1, <4>1 DEF HasSource
      <4> QED
        BY <3>1, <3>4, <4>2, ScopedRefptrAssumption DEF Kept
    <3> QED
      BY <3>2, <3>3, <3>4 DEF Unused
  <2> QED
    BY <2>3, <2>4
<1>4. CASE s # Release(o) /\ \A p \in Pointers : s # AddRef(o, p)
  <2>1. /\ Refs(o)' = Refs(o)
        /\ \/ object'[o] = object[o]
           \/ s.op = "Touch" /\ s.on = o /\ object'[o] = Touched(o)
    BY <1>0, <1>4, StepRefs, StepActs
  <2>2. \A v \in Threads, q \in Pointers : Adds(v, o, q)' <=> Adds(v, o, q)
    BY <1>0, <1>4, StepPending
  <2>3. s.op = "Touch" /\ s.on = o => object[o] = "alive"
    BY <1>1 DEF CallsAreSafe
  <2>4. object'[o] = object[o]
    BY <2>1, <2>3 DEF Touched
  <2>5. Unused(o)' <=> Unused(o)
    BY <2>1, <2>2 DEF Unused
  <2> QED
    BY <2>4, <2>5 DEF AliveWhileUsed
<1> QED
  BY <1>2, <1>3, <1>4

(* The beginning of an operation deletes nothing.                          *)
LEMMA BeginKeepsAlive ==
  ASSUME RefInv, AliveWhileUsed, NEW t \in Threads, NEW c \in Ops, Begin(t, c)
  PROVE  AliveWhileUsed'
<1>0. RefType /\ OwnSteps /\ UsedWhileAlive
  BY DEF RefInv
<1> SUFFICES ASSUME NEW o \in Objects
             PROVE  /\ object'[o] # "corrupt"
                    /\ object'[o] # "alive" => Unused(o)'
  BY DEF AliveWhileUsed
<1>1. CASE c.op = "HandOver"
  <2>1. HandOver(t, c.p, c.r)
    BY <1>1 DEF Begin
  <2>2. c.p \in Pointers /\ c.r \in Threads
    BY <1>1 DEF Ops
  <2>3. /\ Refs(o)' = Refs(o)
        /\ \A v \in Threads, q \in Pointers : Adds(v, o, q)' <=> Adds(v, o, q)
    BY <1>0, <2>1, <2>2, HandOverEffect
  <2>4. object' = object
    BY <2>1 DEF HandOver
  <2> QED
    BY <2>3, <2>4 DEF AliveWhileUsed, Unused
<1>2. CASE c.op # "HandOver"
  <2>1. OpEffect(t)
    BY <1>0, <1>2, BeginEffect
  <2>2. PICK steps : Starts(t, steps)
    BY <2>1 DEF OpEffect
  <2>3. Conserves(t)
    BY <2>1 DEF OpEffect
  <2>4. \A u \in Threads \ {t} : \A q \in Pointers : Adds(u, o, q)' <=> Adds(u, o, q)
    BY <1>0, <2>2, StartFacts
  <2>5. Refs(o)' = {} <=> Refs(o) = {}
    BY <2>3 DEF Conserves, Swapped
  <2>6. object'[o] = object[o] \/ object'[o] = "alive"
    BY <2>3 DEF Conserves
  <2>7. ASSUME object'[o] # "alive"
        PROVE  Unused(o)'
    <3>1. Unused(o)
      BY <2>6, <2>7 DEF AliveWhileUsed
    <3>2. Refs(o)' = {}
      BY <2>5, <3>1 DEF Unused
    <3>3. \A q \in Pointers : ~Adds(t, o, q)'
      BY <2>3, <2>7, <3>2, KeptCounts DEF Conserves
    <3> QED
      BY <2>4, <3>1, <3>2, <3>3 DEF Unused
  <2> QED
    BY <2>6, <2>7 DEF AliveWhileUsed
<1> QED
  BY <1>1, <1>2

(* While calls through raw pointers are safe, so is everything else.       *)
LEMMA AliveNext ==
  ASSUME RefInv, AliveWhileUsed, CallsAreSafe, [Next]_vars
  PROVE  AliveWhileUsed'
<1>0. RefType /\ script \in [Threads -> Seq(Ops)]
  BY DEF RefInv, RefType
<1>1. ASSUME NEW t \in Threads, Step(t)
      PROVE  AliveWhileUsed'
  BY <1>1, StepKeepsAlive
<1>2. ASSUME NEW t \in Threads, AnyOp(t)
      PROVE  AliveWhileUsed'
  <2>1. PICK c \in Ops : Begin(t, c)
    BY <1>0, <1>2, AnyOpBegins
  <2> QED
    BY <2>1, BeginKeepsAlive
<1>3. ASSUME NEW t \in Threads, NextOp(t)
      PROVE  AliveWhileUsed'
  <2>1. script[t] \in Seq(Ops) /\ script[t] # <<>>
    BY <1>0, <1>3 DEF NextOp
  <2>2. Head(script[t]) \in Ops /\ Tail(script[t]) \in Seq(Ops)
    BY <2>1, TailPositions
  <2>3. program' = program /\ script' \in [Threads -> Seq(Ops)]
    BY <1>0, <1>3, <2>2 DEF NextOp
  <2>4. CASE Begin(t, Head(script[t]))
    BY <2>2, <2>4, BeginKeepsAlive
  <2>5. CASE UNCHANGED <<ptr_, owner, ref_count_, object, todo>>
    BY <2>3, <2>5, PointersUnchanged
  <2> QED
    BY <1>3, <2>4, <2>5 DEF NextOp
<1>4. CASE UNCHANGED vars
  <2>1. UNCHANGED <<ptr_, owner, ref_count_, object, todo>> /\ program' = program /\ script' = script
    BY <1>4 DEF vars, programVars
  <2> QED
    BY <1>0, <2>1, PointersUnchanged
<1> QED
  BY <1>1, <1>2, <1>3, <1>4 DEF Next, Done

(* Then an object lives exactly as long as it is referenced.               *)
LEMMA AliveImplies ==
  ASSUME RefInv, AliveWhileUsed
  PROVE  LivesWhileReferenced
<1>0. RefType /\ TypeOK /\ UsedWhileAlive
  BY DEF RefInv, RefType
<1>1. ASSUME NEW p \in Pointers, Idle(owner[p]), ptr_[p] # Null
      PROVE  object[ptr_[p]] = "alive"
  <2>1. ptr_[p] \in Objects
    BY <1>0, <1>1 DEF TypeOK
  <2>2. p \in Refs(ptr_[p])
    BY <1>0, <1>1, <2>1, IdlePointer
  <2> QED
    BY <2>1, <2>2 DEF AliveWhileUsed, Unused
<1>2. NoUseAfterDelete
  BY <1>1 DEF AliveWhileUsed, NoUseAfterDelete
<1>3. ASSUME \A t \in Threads : Idle(t), NEW o \in Objects, object[o] = "alive"
      PROVE  HoldersOf(o) # {}
  <2>1. \A t \in Threads : todo[t] = <<>>
    BY <1>3 DEF Idle
  <2>2. \A t \in Threads : ~Releases(t, o) /\ \A q \in Pointers : ~Adds(t, o, q)
    BY <2>1 DEF Adds, Releases
  <2>3. Refs(o) # {}
    BY <1>0, <1>3, <2>2 DEF UsedWhileAlive, Unused
  <2>4. PICK p \in Pointers : p \in Refs(o)
    BY <2>2, <2>3, InRefs
  <2>5. Final(p) = o
    BY <2>4, InRefs
  <2>6. Final(p) = ptr_[p]
    BY <1>0, <2>1 DEF TypeOK, Final, After
  <2> QED
    BY <2>5, <2>6 DEF HoldersOf
<1>4. NoLeak
  BY <1>3 DEF NoLeak
<1> QED
  BY <1>0, <1>2, <1>4 DEF LivesWhileReferenced

(* If the program uses raw pointers only while their objects live, an      *)
(* object lives exactly as long as it is referenced: no operation touches  *)
(* a deleted object, also when a pointer is assigned to itself or dropped  *)
(* while another thread copies, and no object is left without a holder.    *)
THEOREM ReferencedObjectsLive == Spec /\ []CallsAreSafe => []LivesWhileReferenced
<1>1. Init => AliveWhileUsed
  BY RefInit
<1>2. RefInv /\ AliveWhileUsed /\ CallsAreSafe /\ [Next]_vars => AliveWhileUsed'
  BY AliveNext
<1>3. RefInv /\ AliveWhileUsed => LivesWhileReferenced
  BY AliveImplies
<1> QED
  BY <1>1, <1>2, <1>3, CounterIsRight, PTL DEF Spec

-----------------------------------------------------------------------------
(* Programs in which raw pointers come from pointers that are held.        *)

(* No script calls through a raw pointer.  The program "any" does, but     *)
(* through one that it has just read from a pointer of its own.            *)
NoRawCalls ==
  \A q \in Programs, t \in Threads :
    \A i \in DOMAIN q.script[t] : q.script[t][i].op # "Use"

NoCallsLeft ==
  \A t \in Threads : \A i \in DOMAIN script[t] : script[t][i].op # "Use"

Calls(t, o) == \E i \in DOMAIN todo[t] : todo[t][i] = Touch(o)

(* The object that is about to be called is held by a pointer of the       *)
(* calling thread.                                                         *)
CallsAreHeld ==
  \A t \in Threads, o \in Objects : Calls(t, o) =>
    \E p \in Pointers : owner[p] = t /\ p \in Refs(o)

(* Only Use calls through a raw pointer.                                   *)
LEMMA OnlyUseTouches ==
  ASSUME RefType, NEW t \in Threads, NEW c \in Ops, Begin(t, c),
         c.op # "HandOver", c.op # "Use"
  PROVE  \A i \in DOMAIN todo'[t] : todo'[t][i].op # "Touch"
<1>1. todo \in [Threads -> Seq(PendingSteps)]
  BY DEF RefType
<1>2. ASSUME NEW a, NEW b, a.op # "Touch", b.op # "Touch", Begins(t, <<a, b>>)
      PROVE  \A i \in DOMAIN todo'[t] : todo'[t][i].op # "Touch"
  BY <1>1, <1>2 DEF Begins
<1>3. ASSUME NEW a, NEW b, NEW d, a.op # "Touch", b.op # "Touch", d.op # "Touch",
             Begins(t, <<a, b, d>>)
      PROVE  \A i \in DOMAIN todo'[t] : todo'[t][i].op # "Touch"
  BY <1>1, <1>3 DEF Begins
<1>4. \A o, p : /\ AddRef(o, p).op # "Touch" /\ Store(p, o).op # "Touch"
                /\ Release(o).op # "Touch"
  BY StepShapes
<1>5. CASE Create(t, c.p, c.r) \/ CopyConstruct(t, c.p, c.r) \/ MoveConstruct(t, c.p, c.r)
             \/ Destroy(t, c.p)
  <2>1. \E a, b : a.op # "Touch" /\ b.op # "Touch" /\ Begins(t, <<a, b>>)
    BY <1>4, <1>5 DEF Create, CopyConstruct, MoveConstruct, Destroy
  <2> QED
    BY <1>2, <2>1
<1>6. CASE CopyAssign(t, c.p, c.r) \/ MoveAssign(t, c.p, c.r)
  <2>1. \E a, b, d : a.op # "Touch" /\ b.op # "Touch" /\ d.op # "Touch" /\ Begins(t, <<a, b, d>>)
    BY <1>4, <1>6 DEF CopyAssign, MoveAssign
  <2> QED
    BY <1>3, <2>1
<1> QED
  BY <1>5, <1>6 DEF Begin

(* A call begins through a pointer that is held, or not at all.            *)
LEMMA BeginKeepsHeld ==
  ASSUME RefInv, CallsAreHeld, NEW t \in Threads, NEW c \in Ops, Begin(t, c),
         c.op = "Use" => \E p \in Pointers : owner[p] = t /\ ptr_[p] = c.r
  PROVE  CallsAreHeld'
<1>0. /\ RefType /\ OwnSteps /\ UsedWhileAlive /\ todo \in [Threads -> Seq(PendingSteps)]
      /\ owner \in [Pointers -> Threads]
  BY DEF RefInv, RefType, TypeOK
<1> SUFFICES ASSUME NEW u \in Threads, NEW o \in Objects, Calls(u, o)'
             PROVE  \E p \in Pointers : owner'[p] = u /\ p \in Refs(o)'
  BY DEF CallsAreHeld
<1>1. CASE c.op = "HandOver"
  <2>1. HandOver(t, c.p, c.r)
    BY <1>1 DEF Begin
  <2>2. c.p \in Pointers /\ c.r \in Threads
    BY <1>1 DEF Ops
  <2>3. Refs(o)' = Refs(o)
    BY <1>0, <2>1, <2>2, HandOverEffect
  <2>4. todo' = todo /\ todo[t] = <<>> /\ owner[c.p] = t /\ owner' = [owner EXCEPT ![c.p] = c.r]
    BY <2>1 DEF HandOver, Owns
  <2>5. u # t /\ Calls(u, o)
    BY <2>4 DEF Calls
  <2>6. \A p \in Pointers : owner[p] = u => owner'[p] = u
    BY <1>0, <2>4, <2>5
  <2> QED
    BY <2>3, <2>5, <2>6 DEF CallsAreHeld
<1>2. CASE c.op # "HandOver"
  <2>1. OpEffect(t)
    BY <1>0, <1>2, BeginEffect
  <2>2. PICK steps : Starts(t, steps)
    BY <2>1 DEF OpEffect
  <2>3. OwnSteps'
    BY <2>1 DEF OpEffect
  <2>4. /\ owner' = owner /\ todo[t] = <<>> /\ todo'[t] = steps
        /\ \A v \in Threads \ {t} : todo'[v] = todo[v]
    BY <1>0, <2>2 DEF Starts
  <2>5. CASE u # t
    <3>1. Calls(u, o)
      BY <2>4, <2>5 DEF Calls
    <3>2. PICK p \in Pointers : owner[p] = u /\ p \in Refs(o)
      BY <3>1 DEF CallsAreHeld
    <3>3. p \in Refs(o)'
      BY <1>0, <2>2, <2>3, <2>5, <3>2, StartRefs
    <3> QED
      BY <2>4, <3>2, <3>3
  <2>6. CASE u = t
    <3>1. PICK k \in DOMAIN todo'[t] : todo'[t][k] = Touch(o)
      BY <2>6 DEF Calls
    <3>2. c.op = "Use"
      BY <1>0, <1>2, <3>1, OnlyUseTouches, StepShapes
    <3>3. PICK p \in Pointers : owner[p] = t /\ ptr_[p] = c.r
      BY <3>2
    <3>4. Use(t, c.r)
      BY <3>2 DEF Begin
    <3>5. steps = <<Touch(c.r)>>
      BY <1>0, <2>4, <3>4 DEF Use, Begins
    <3>6. Len(steps) = 1 /\ \A i \in DOMAIN steps : i = 1 /\ steps[i] = Touch(c.r)
      BY <3>5
    <3>7. Touch(o) = Touch(c.r)
      BY <2>4, <3>1, <3>6
    <3>8. o = c.r
      BY <3>7, StepShapes
    <3>9. After(steps, p, ptr_[p]) = ptr_[p]
      <4>1. ~IsStore(Touch(c.r), p)
        BY StepEquals
      <4>2. steps[1] = Touch(c.r)
        BY <3>5
      <4> QED
        BY <3>6, <4>1, <4>2 DEF After
    <3>10. ~\E i \in DOMAIN steps : steps[i] = AddRef(o, p)
      BY <3>6, StepEquals
    <3>11. p \in Refs(o)'
      BY <1>0, <2>2, <2>3, <3>3, <3>8, <3>9, <3>10, StartRefs
    <3> QED
      BY <2>4, <2>6, <3>3, <3>11
  <2> QED
    BY <2>5, <2>6
<1> QED
  BY <1>1, <1>2

(* Until it is made, the pointer keeps its reference.                      *)
LEMMA StepKeepsHeld ==
  ASSUME RefInv, CallsAreHeld, NEW t \in Threads, Step(t)
  PROVE  CallsAreHeld'
<1>0. /\ RefType /\ OwnSteps /\ todo[t] \in Seq(PendingSteps) /\ todo[t] # <<>>
      /\ todo'[t] = Tail(todo[t]) /\ owner' = owner
      /\ \A v \in Threads \ {t} : todo'[v] = todo[v]
  BY DEF RefInv, RefType, Step
<1> SUFFICES ASSUME NEW u \in Threads, NEW o \in Objects, Calls(u, o)'
             PROVE  \E p \in Pointers : owner'[p] = u /\ p \in Refs(o)'
  BY DEF CallsAreHeld
<1>1. Calls(u, o)
  <2>1. CASE u # t
    BY <1>0, <2>1 DEF Calls
  <2>2. CASE u = t
    <3>1. \A k \in DOMAIN todo'[t] : k + 1 \in DOMAIN todo[t] /\ todo'[t][k] = todo[t][k + 1]
      BY <1>0, TailPositions
    <3> QED
      BY <2>2, <3>1 DEF Calls
  <2> QED
    BY <2>1, <2>2
<1>2. PICK p \in Pointers : owner[p] = u /\ p \in Refs(o)
  BY <1>1 DEF CallsAreHeld
<1>3. p # t
  BY ScopedRefptrAssumption
<1>4. p \in Refs(o)'
  BY <1>0, <1>2, <1>3, StepRefs
<1> QED
  BY <1>0, <1>2, <1>4

(* A held object is alive, so that calling it is safe.                     *)
LEMMA HeldCallsAreSafe ==
  ASSUME RefInv, AliveWhileUsed, CallsAreHeld
  PROVE  CallsAreSafe
<1> SUFFICES ASSUME NEW t \in Threads, todo[t] # <<>>, Head(todo[t]).op = "Touch"
             PROVE  object[Head(todo[t]).on] = "alive"
  BY DEF CallsAreSafe
<1> DEFINE s == Head(todo[t])
<1>1. todo[t] \in Seq(PendingSteps)
  BY DEF RefInv, RefType
<1>2. s \in PendingSteps /\ 1 \in DOMAIN todo[t] /\ todo[t][1] = s
  BY <1>1, TailPositions
<1>3. s.on \in Objects /\ s = Touch(s.on)
  BY <1>2, StepFields
<1>4. Calls(t, s.on)
  BY <1>2, <1>3 DEF Calls
<1>5. Refs(s.on) # {}
  BY <1>3, <1>4 DEF CallsAreHeld
<1> QED
  BY <1>3, <1>5 DEF AliveWhileUsed, Unused

(* No script calls through a raw pointer later either.                     *)
LEMMA HeldNext ==
  ASSUME RefInv, CallsAreHeld, NoCallsLeft, [Next]_vars
  PROVE  CallsAreHeld' /\ NoCallsLeft'
<1>0. RefType /\ script \in [Threads -> Seq(Ops)]
  BY DEF RefInv, RefType
<1>1. ASSUME UNCHANGED <<ptr_, owner, todo>>
      PROVE  CallsAreHeld'
  <2>1. /\ \A t : \A o, p : Adds(t, o, p)' <=> Adds(t, o, p)
        /\ \A t : \A o : Releases(t, o)' <=> Releases(t, o)
        /\ \A t : \A o : Calls(t, o)' <=> Calls(t, o)
        /\ \A p : Final(p)' = Final(p) /\ (Taking(p)' <=> Taking(p))
    BY <1>1 DEF Adds, Releases, Final, Taking, Calls
  <2>2. \A o : Refs(o)' = Refs(o)
    BY <2>1 DEF Refs
  <2> QED
    BY <1>1, <2>1, <2>2 DEF CallsAreHeld
<1>2. ASSUME NEW t \in Threads, Step(t)
      PROVE  CallsAreHeld' /\ NoCallsLeft'
  <2>1. script' = script
    BY <1>2 DEF Step, programVars
  <2> QED
    BY <1>2, <2>1, StepKeepsHeld DEF NoCallsLeft
<1>3. ASSUME NEW t \in Threads, AnyOp(t)
      PROVE  CallsAreHeld' /\ NoCallsLeft'
  <2>1. PICK c \in Ops : /\ Begin(t, c)
                         /\ c.op = "Use" => \E p \in Pointers : owner[p] = t /\ ptr_[p] = c.r
    BY <1>0, <1>3, AnyOpBegins
  <2>2. script' = script
    BY <1>3 DEF AnyOp, programVars
  <2> QED
    BY <2>1, <2>2, BeginKeepsHeld DEF NoCallsLeft
<1>4. ASSUME NEW t \in Threads, NextOp(t)
      PROVE  CallsAreHeld' /\ NoCallsLeft'
  <2>1. script[t] \in Seq(Ops) /\ script[t] # <<>>
    BY <1>0, <1>4 DEF NextOp
  <2>2. /\ Head(script[t]) \in Ops /\ Tail(script[t]) \in Seq(Ops)
        /\ 1 \in DOMAIN script[t] /\ Head(script[t]) = script[t][1]
        /\ \A i \in DOMAIN Tail(script[t]) :
             i + 1 \in DOMAIN script[t] /\ Tail(script[t])[i] = script[t][i + 1]
    BY <2>1, TailPositions
  <2>3. Head(script[t]).op # "Use"
    BY <2>2 DEF NoCallsLeft
  <2>4. script' = [script EXCEPT ![t] = Tail(script[t])]
    BY <1>4 DEF NextOp
  <2>5. NoCallsLeft'
    <3>1. \A u \in Threads : script'[u] = IF u = t THEN Tail(script[t]) ELSE script[u]
      BY <1>0, <2>4
    <3>2. \A i \in DOMAIN Tail(script[t]) : Tail(script[t])[i].op # "Use"
      BY <2>2 DEF NoCallsLeft
    <3>3. ASSUME NEW u \in Threads, NEW i \in DOMAIN script'[u]
          PROVE  script'[u][i].op # "Use"
      <4>1. CASE u = t
        BY <3>1, <3>2, <4>1
      <4>2. CASE u # t
        BY <3>1, <4>2 DEF NoCallsLeft
      <4> QED
        BY <4>1, <4>2
    <3> QED
      BY <3>3 DEF NoCallsLeft
  <2>6. CASE Begin(t, Head(script[t]))
    BY <2>2, <2>3, <2>5, <2>6, BeginKeepsHeld
  <2>7. CASE UNCHANGED <<ptr_, owner, ref_count_, object, todo>>
    BY <1>1, <2>5, <2>7
  <2> QED
    BY <1>4, <2>6, <2>7 DEF NextOp
<1>5. CASE UNCHANGED vars
  <2>1. UNCHANGED <<ptr_, owner, todo>> /\ script' = script
    BY <1>5 DEF vars, programVars
  <2> QED
    BY <1>1, <2>1 DEF NoCallsLeft
<1> QED
  BY <1>2, <1>3, <1>4, <1>5 DEF Next, Done

(* Without raw pointers in the scripts nothing has to be assumed: whatever *)
(* the threads do with their pointers, an object lives exactly as long as  *)
(* it is referenced.                                                       *)
THEOREM PointersKeepAlive ==
  ASSUME NoRawCalls
  PROVE  Spec => []LivesWhileReferenced
<1>1. Init => CallsAreHeld /\ NoCallsLeft
  <2> SUFFICES ASSUME Init
               PROVE  CallsAreHeld /\ NoCallsLeft
    OBVIOUS
  <2>1. program \in Programs /\ script = program.script
    BY DEF Init
  <2>2. \A t \in Threads : todo[t] = <<>>
    BY DEF Init
  <2> QED
    BY <2>1, <2>2 DEF CallsAreHeld, Calls, NoCallsLeft, NoRawCalls
<1>2. RefInv /\ CallsAreHeld /\ NoCallsLeft /\ [Next]_vars => CallsAreHeld' /\ NoCallsLeft'
  BY HeldNext
<1>3. Init => AliveWhileUsed
  BY RefInit
<1>4. RefInv /\ AliveWhileUsed /\ CallsAreHeld /\ [Next]_vars => AliveWhileUsed'
  BY HeldCallsAreSafe, AliveNext
<1>5. RefInv /\ AliveWhileUsed => LivesWhileReferenced
  BY AliveImplies
<1> QED
  BY <1>1, <1>2, <1>3, <1>4, <1>5, CounterIsRight, PTL DEF Spec
=============================================================================
