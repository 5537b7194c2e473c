---------------------------- MODULE ScopedRefptr ----------------------------
(***************************************************************************)
(* rtc::scoped_refptr (api/scoped_refptr.h) on rtc::RefCountedObject and   *)
(* RefCounter (rtc_base): threads copy, move, assign and destroy pointers  *)
(* that they own, to objects that they share.                              *)
(*                                                                         *)
(* An operation is the sequence of the steps it is made of; between two    *)
(* steps other threads run.  The counter is atomic, so a change of it is   *)
(* one step.  A pointer variable belongs to one thread at a time, and is   *)
(* handed over between operations (inside a posted task, say).             *)
(*                                                                         *)
(* A program is a script for every thread, or the program "any", in which  *)
(* threads do what they like with the pointers and objects of Free.        *)
(***************************************************************************)
EXTENDS Integers, Sequences, FiniteSets

CONSTANTS
  Threads, Pointers, Objects, Null,
  Free,        \* pointers and objects of the program "any"
  Programs     \* records: the end ("any", "waits", "returns"), the scripts,
               \* first: the thread a pointer belongs to at first, and
               \* kept: pointers still in use when the program waits

VARIABLES
  ptr_,        \* what a pointer points to
  owner,       \* the thread a pointer belongs to
  ref_count_,  \* of every object
  object,      \* "none", "alive", "deleted", "corrupt": used after deletion
  todo,        \* what is left of a thread's operation
  program,
  script,      \* the operations a thread has still to begin
  events       \* events that have been set

programVars == <<program, script, events>>
vars == <<ptr_, owner, ref_count_, object, todo, programVars>>

(* An operation on pointer p and a second pointer or object r.             *)
Op(op, p, r) == [op |-> op, p |-> p, r |-> r]
Ops ==
  [op : {"CopyConstruct", "MoveConstruct", "CopyAssign", "MoveAssign"},
   p : Pointers, r : Pointers]
  \cup [op : {"Create"}, p : Pointers, r : Objects]
  \cup [op : {"Destroy"}, p : Pointers, r : {Null}]
  \cup [op : {"HandOver"}, p : Pointers, r : Threads]
  \cup [op : {"Use"}, p : Pointers \cup {Null}, r : Objects]
  \cup [op : {"Set", "Wait"}, p : {Null}, r : STRING]

ASSUME ScopedRefptrAssumption ==
  /\ IsFiniteSet(Threads) /\ IsFiniteSet(Pointers)
  /\ Pointers \cap Threads = {} /\ Pointers \cap Objects = {}
  /\ Null \notin Pointers \cup Objects
  /\ \A q \in Programs : /\ q.first \in [Pointers -> Threads]
                         /\ q.script \in [Threads -> Seq(Ops)]

(* The steps of an operation.  A reference is taken for a pointer p.       *)
AddRef(o, p) == [op |-> "AddRef",  on |-> o, to |-> p]
Release(o)   == [op |-> "Release", on |-> o, to |-> Null]
Touch(o)     == [op |-> "Touch",   on |-> o, to |-> Null]
Store(p, o)  == [op |-> "Store",   on |-> p, to |-> o]

TypeOK ==
  /\ ptr_ \in [Pointers -> Objects \cup {Null}]
  /\ owner \in [Pointers -> Threads]
  /\ ref_count_ \in [Objects -> Int]
  /\ object \in [Objects -> {"none", "alive", "deleted", "corrupt"}]
  /\ \A t \in Threads : Len(todo[t]) <= 3
  /\ program \in Programs

Init ==
  /\ ptr_ = [p \in Pointers |-> Null]
  /\ program \in Programs
  /\ script = program.script
  /\ events = {}
  /\ IF program.end = "any"
     THEN \E o \in [Free \cap Pointers -> Threads] :
            owner = [p \in Pointers |-> IF p \in Free THEN o[p] ELSE program.first[p]]
     ELSE owner = program.first
  /\ ref_count_ = [o \in Objects |-> 0]
  /\ object = [o \in Objects |-> "none"]
  /\ todo = [t \in Threads |-> <<>>]

-----------------------------------------------------------------------------
(* The operations of a thread on its own pointers.                         *)
Owns(t, p) == owner[p] = t
Begins(t, steps) ==
  /\ todo[t] = <<>>
  /\ todo' = [todo EXCEPT ![t] = steps]

(* scoped_refptr(new RefCountedObject): the count starts at zero.          *)
Create(t, p, o) ==
  /\ Owns(t, p) /\ ptr_[p] = Null /\ object[o] = "none"
  /\ object' = [object EXCEPT ![o] = "alive"]
  /\ Begins(t, <<Store(p, o), AddRef(o, p)>>)
  /\ UNCHANGED <<ptr_, owner, ref_count_>>

(* Mutant of CopyConstruct: it takes no reference.                         *)
CopyConstructBare(t, p, r) ==
  /\ Owns(t, p) /\ Owns(t, r) /\ p # r /\ ptr_[p] = Null
  /\ Begins(t, <<Store(p, ptr_[r])>>)
  /\ UNCHANGED <<ptr_, owner, ref_count_, object>>

CopyConstruct(t, p, r) ==
  /\ Owns(t, p) /\ Owns(t, r) /\ p # r /\ ptr_[p] = Null
  /\ Begins(t, <<Store(p, ptr_[r]), AddRef(ptr_[r], p)>>)
  /\ UNCHANGED <<ptr_, owner, ref_count_, object>>

(* The move constructor takes r's reference with release().                *)
MoveConstruct(t, p, r) ==
  /\ Owns(t, p) /\ Owns(t, r) /\ p # r /\ ptr_[p] = Null
  /\ Begins(t, <<Store(r, Null), Store(p, ptr_[r])>>)
  /\ UNCHANGED <<ptr_, owner, ref_count_, object>>

(* Mutant of CopyAssign: the old reference is dropped first.               *)
CopyAssignReleaseFirst(t, p, r) ==
  /\ Owns(t, p) /\ Owns(t, r)
  /\ Begins(t, <<Release(ptr_[p]), AddRef(ptr_[r], p), Store(p, ptr_[r])>>)
  /\ UNCHANGED <<ptr_, owner, ref_count_, object>>

(* AddRef comes first, so that p = r is allowed.                           *)
CopyAssign(t, p, r) ==
  /\ Owns(t, p) /\ Owns(t, r)
  /\ Begins(t, <<AddRef(ptr_[r], p), Release(ptr_[p]), Store(p, ptr_[r])>>)
  /\ UNCHANGED <<ptr_, owner, ref_count_, object>>

(* A temporary takes r's reference, is swapped with p and destroyed.       *)
MoveAssign(t, p, r) ==
  /\ Owns(t, p) /\ Owns(t, r)
  /\ LET old == IF p = r THEN Null ELSE ptr_[p]
     IN  Begins(t, <<Store(r, Null), Store(p, ptr_[r]), Release(old)>>)
  /\ UNCHANGED <<ptr_, owner, ref_count_, object>>

(* The destructor; the variable may be constructed again later.            *)
Destroy(t, p) ==
  /\ Owns(t, p) /\ ptr_[p] # Null
  /\ Begins(t, <<Release(ptr_[p]), Store(p, Null)>>)
  /\ UNCHANGED <<ptr_, owner, ref_count_, object>>

HandOver(t, p, u) ==
  /\ Owns(t, p) /\ todo[t] = <<>>
  /\ owner' = [owner EXCEPT ![p] = u]
  /\ UNCHANGED <<ptr_, ref_count_, object, todo>>

(* A raw pointer to the object is used: a callback of it, or a call on it. *)
Use(t, o) ==
  /\ Begins(t, <<Touch(o)>>)
  /\ UNCHANGED <<ptr_, owner, ref_count_, object>>

-----------------------------------------------------------------------------
(* The steps.  Touching a deleted object corrupts it.  Nothing is done for *)
(* a null pointer: if (ptr_).                                              *)
Touched(o) == IF object[o] = "alive" THEN "alive" ELSE "corrupt"

IncRef(o) ==
  /\ ref_count_' = [ref_count_ EXCEPT ![o] = @ + 1]
  /\ object' = [object EXCEPT ![o] = Touched(o)]

(* DecRef, and `delete this` by the thread that dropped the last reference. *)
DecRef(o) ==
  /\ ref_count_' = [ref_count_ EXCEPT ![o] = @ - 1]
  /\ object' = [object EXCEPT ![o] =
       IF ref_count_[o] = 1 /\ object[o] = "alive" THEN "deleted" ELSE Touched(o)]

Step(t) ==
  /\ todo[t] # <<>>
  /\ todo' = [todo EXCEPT ![t] = Tail(@)]
  /\ LET s == Head(todo[t]) IN
       \/ s.on = Null /\ UNCHANGED <<ptr_, ref_count_, object>>
       \/ s.on # Null /\ s.op = "AddRef"  /\ IncRef(s.on) /\ UNCHANGED ptr_
       \/ s.on # Null /\ s.op = "Release" /\ DecRef(s.on) /\ UNCHANGED ptr_
       \/ /\ s.op = "Touch"
          /\ object' = [object EXCEPT ![s.on] = Touched(s.on)]
          /\ UNCHANGED <<ptr_, ref_count_>>
       \/ /\ s.op = "Store"
          /\ ptr_' = [ptr_ EXCEPT ![s.on] = s.to]
          /\ UNCHANGED <<ref_count_, object>>
  /\ UNCHANGED <<owner, programVars>>

Begin(t, c) ==
  \/ c.op = "Create" /\ Create(t, c.p, c.r)
  \/ c.op = "CopyConstruct" /\ CopyConstruct(t, c.p, c.r)
  \/ c.op = "MoveConstruct" /\ MoveConstruct(t, c.p, c.r)
  \/ c.op = "CopyAssign" /\ CopyAssign(t, c.p, c.r)
  \/ c.op = "MoveAssign" /\ MoveAssign(t, c.p, c.r)
  \/ c.op = "Destroy" /\ Destroy(t, c.p)
  \/ c.op = "HandOver" /\ HandOver(t, c.p, c.r)
  \/ c.op = "Use" /\ Use(t, c.r)

(* The program "any" uses raw pointers only to what a pointer keeps alive. *)
AnyOp(t) ==
  /\ program.end = "any"
  /\ \E p \in Free \cap Pointers :
       \/ \E o \in Free \cap Objects : Begin(t, Op("Create", p, o))
       \/ Begin(t, Op("Destroy", p, Null))
       \/ \E r \in Free \cap Pointers :
            \E op \in {"CopyConstruct", "MoveConstruct", "CopyAssign", "MoveAssign"} :
              Begin(t, Op(op, p, r))
       \/ \E u \in Threads \ {t} : Begin(t, Op("HandOver", p, u))
       \/ Owns(t, p) /\ ptr_[p] # Null /\ Begin(t, Op("Use", p, ptr_[p]))
  /\ UNCHANGED programVars

NextOp(t) ==
  /\ todo[t] = <<>> /\ script[t] # <<>>
  /\ LET c == Head(script[t]) IN
       \/ Begin(t, c) /\ UNCHANGED events
       \/ /\ c.op = "Set"
          /\ events' = events \cup {c.r}
          /\ UNCHANGED <<ptr_, owner, ref_count_, object, todo>>
       \/ /\ c.op = "Wait" /\ c.r \in events
          /\ UNCHANGED <<ptr_, owner, ref_count_, object, todo, events>>
  /\ script' = [script EXCEPT ![t] = Tail(@)]
  /\ UNCHANGED program

AllDone == \A t \in Threads : todo[t] = <<>> /\ script[t] = <<>>

Done == AllDone /\ program.end # "any" /\ UNCHANGED vars

Next == (\E t \in Threads : Step(t) \/ AnyOp(t) \/ NextOp(t)) \/ Done

Spec == Init /\ [][Next]_vars

-----------------------------------------------------------------------------
(* Properties.                                                             *)

Idle(t) == todo[t] = <<>>
HoldersOf(o) == {p \in Pointers : ptr_[p] = o}

(* No thread touches an object after its deletion, also when it assigns a  *)
(* pointer to itself or drops a reference at the moment another copies.    *)
NoUseAfterDelete ==
  /\ \A o \in Objects : object[o] # "corrupt"
  /\ \A p \in Pointers : Idle(owner[p]) /\ ptr_[p] # Null => object[ptr_[p]] = "alive"

(* The object is deleted by whoever drops the last reference: when no      *)
(* thread is in an operation, an object without holders is gone.           *)
NoLeak ==
  (\A t \in Threads : Idle(t)) =>
    \A o \in Objects : object[o] = "alive" => HoldersOf(o) # {}

(* An object lives exactly as long as it is referenced: Release deletes it *)
(* with the last reference, neither earlier nor never.                     *)
LivesWhileReferenced == TypeOK /\ NoUseAfterDelete /\ NoLeak

(* HasOneRef is exclusive access (ref_counter.h:52-57): a thread that is   *)
(* in no operation and sees the count 1 in a pointer of its own is the     *)
(* only one that holds, or is about to take or drop, a reference.  (A raw  *)
(* pointer may still be used: it is no reference.)                         *)
HasOneRefIsExclusive ==
  \A p \in Pointers :
    LET o == ptr_[p]
        t == owner[p]
    IN  Idle(t) /\ o # Null /\ ref_count_[o] = 1 =>
          /\ HoldersOf(o) \subseteq {q \in Pointers : q = p \/ ~Idle(owner[q])}
          /\ \A u \in Threads \ {t} : 
               \A i \in DOMAIN todo[u] : todo[u][i].op = "Touch" \/ todo[u][i].on # o

(* A program that returns early leaves nothing behind, and one that waits  *)
(* for ever has told every observer and let go of it.                      *)
ProgramCleansUp ==
  AllDone =>
    /\ program.end = "returns" => \A o \in Objects : object[o] # "alive"
    /\ program.end = "waits" => \A p \in Pointers :
         ptr_[p] # Null => p \in program.kept
=============================================================================
