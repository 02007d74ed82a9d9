------------------------------- MODULE Ownership -------------------------------
(***************************************************************************)
(* Classes that own a raw resource: Buffer and UniqueBuffer                *)
(* (src/raii/01, 03), FileHandle (src/raii/02), String (src/oop/05) and    *)
(* the Buffer of src/errors/04.  A program constructs, copies, moves,      *)
(* assigns and destroys objects of one class.  The last two classes assign *)
(* by copy-and-swap: the by-value parameter is an object of its own, and   *)
(* the three steps of the assignment are apart.  A moved-from object holds *)
(* nothing; copying one is undefined (memcpy from a null pointer): where   *)
(* the program goes on, anything may be in the copy.  An allocation or     *)
(* open that fails throws before anything has changed, so it is no step    *)
(* here.                                                                   *)
(***************************************************************************)
EXTENDS Integers, FiniteSets, TLAPS

CONSTANTS
    Objects,
    Param,      \* the by-value parameter of operator=
    Resources,  \* memory blocks or files
    Null,
    Values,     \* what a block may hold
    Classes     \* of "buffer", "file", "unique", "string" and "copyswap"

ASSUME OwnershipAssumption ==
    /\ IsFiniteSet(Objects) /\ Param \notin Objects
    /\ Null \notin Resources \cup Values
    /\ Classes \subseteq {"buffer", "file", "unique", "string", "copyswap"}

Slots == Objects \cup {Param}

VARIABLES
    class,      \* the class whose objects these are
    live,       \* objects whose lifetime has begun and not ended
    data,       \* object -> the resource it points to, or Null
    allocated,  \* resources that are allocated
    content,    \* resource -> what is in it
    target,     \* the object operator= runs on, or Param
    swapped,    \* has it swapped?
    badFree,    \* a resource was released that was not allocated
    value       \* object -> the value it stands for, or Null, for the properties

vars == <<class, live, data, allocated, content, target, swapped, badFree, value>>

Idle == target = Param

Init ==
    /\ class \in Classes
    /\ live = {} /\ allocated = {}
    /\ data = [o \in Slots |-> Null]
    /\ content \in [Resources -> Values]
    /\ target = Param /\ swapped = FALSE
    /\ badFree = FALSE
    /\ value = [o \in Slots |-> Null]

CopyClass == class \in {"string", "copyswap"}
MoveClass == class # "copyswap"

-------------------------------------------------------------------------------
(* The special member functions, on an object or on the parameter.         *)

\* Defect: the moved-from object keeps its pointer.
Emptied_Not(s) == data[s]

\* other.data_ = nullptr
Emptied(s) == Null

\* delete[] r, fclose(r): nothing for Null.
Release(r) ==
    /\ allocated' = allocated \ {r}
    /\ badFree' = (badFree \/ (r # Null /\ r \notin allocated))

\* The constructor that allocates.
ConstructAt(o, v) ==
    \E r \in Resources \ allocated :
        /\ allocated' = allocated \cup {r}
        /\ data' = [data EXCEPT ![o] = r]
        /\ content' = [content EXCEPT ![r] = v]
        /\ value' = [value EXCEPT ![o] = v]
        /\ live' = live \cup {o}

\* Defect: the copy constructor copies the pointer.
CopyBlock_Shallow(s) == {data[s]}

\* new char[other.size_ + 1], new int[other.size_]
CopyBlock(s) == Resources \ allocated

\* What memcpy(data_, other.data_, ...) may put there.
Bytes(s) == IF data[s] = Null THEN Values ELSE {content[data[s]]}

\* The copy constructor: a fresh block with the source's bytes.
CopyAt(o, s) ==
    \E r \in CopyBlock(s), v \in Bytes(s) :
        /\ allocated' = allocated \cup {r}
        /\ data' = [data EXCEPT ![o] = r]
        /\ content' = [content EXCEPT ![r] = v]
        /\ value' = [value EXCEPT ![o] = value[s]]
        /\ live' = live \cup {o}

\* The move constructor.
MoveAt(o, s) ==
    /\ data' = [data EXCEPT ![o] = data[s], ![s] = Emptied(s)]
    /\ value' = [value EXCEPT ![o] = value[s], ![s] = Null]
    /\ live' = live \cup {o}

\* The destructor.
DestroyAt(o) ==
    /\ Release(data[o])
    /\ data' = [data EXCEPT ![o] = Null]
    /\ live' = live \ {o}

-------------------------------------------------------------------------------
(* What the program does with its objects.                                 *)

Construct(o, v) ==
    /\ Idle /\ o \notin live
    /\ ConstructAt(o, v)
    /\ UNCHANGED <<class, target, swapped, badFree>>

Copy(o, s) ==
    /\ Idle /\ CopyClass /\ o \notin live /\ s \in live
    /\ CopyAt(o, s)
    /\ UNCHANGED <<class, target, swapped, badFree>>

Move(o, s) ==
    /\ Idle /\ MoveClass /\ o \notin live /\ s \in live
    /\ MoveAt(o, s)
    /\ UNCHANGED <<class, allocated, content, target, swapped, badFree>>

Destroy(o) ==
    /\ Idle /\ o \in live
    /\ DestroyAt(o)
    /\ UNCHANGED <<class, content, target, swapped, value>>

\* The resource is written to, through operator[], data() or get().
Assign(o, v) ==
    /\ Idle /\ class \in {"buffer", "file", "copyswap"}
    /\ o \in live /\ data[o] # Null
    /\ content' = [content EXCEPT ![data[o]] = v]
    /\ value' = [value EXCEPT ![o] = v]
    /\ UNCHANGED <<class, live, data, allocated, target, swapped, badFree>>

\* if (this == &other) return *this
IsSelf(o, s) == o = s

\* Defect: the move assignment overwrites the pointer without delete[].
Old_Leaked(o) == Null

\* delete[] data_
Old(o) == data[o]

\* UniqueBuffer: release what it owns, then take the source's.
MoveAssign(o, s) ==
    /\ Idle /\ class = "unique" /\ o \in live /\ s \in live
    /\ ~IsSelf(o, s)
    /\ Release(Old(o))
    /\ data' = [data EXCEPT ![o] = data[s], ![s] = Emptied(s)]
    /\ value' = [value EXCEPT ![o] = value[s], ![s] = Null]
    /\ UNCHANGED <<class, live, content, target, swapped>>

-------------------------------------------------------------------------------
(* operator=(T other): the parameter, the swap, the parameter's end.       *)

\* The parameter is made by the copy constructor,
CopyParam(o, s) ==
    /\ Idle /\ CopyClass /\ o \in live /\ s \in live
    /\ CopyAt(Param, s)
    /\ target' = o
    /\ UNCHANGED <<class, swapped, badFree>>

\* or by String's move constructor when the source is an rvalue.
MoveParam(o, s) ==
    /\ Idle /\ class = "string" /\ o \in live /\ s \in live
    /\ MoveAt(Param, s)
    /\ target' = o
    /\ UNCHANGED <<class, allocated, content, swapped, badFree>>

\* The pointer the parameter gets.
SwapBack == data[target]

Swap ==
    /\ ~Idle /\ ~swapped
    /\ data' = [data EXCEPT ![target] = data[Param], ![Param] = SwapBack]
    /\ value' = [value EXCEPT ![target] = value[Param], ![Param] = value[target]]
    /\ swapped' = TRUE
    /\ UNCHANGED <<class, live, allocated, content, target, badFree>>

EndParam ==
    /\ ~Idle /\ swapped
    /\ DestroyAt(Param)
    /\ target' = Param /\ swapped' = FALSE
    /\ UNCHANGED <<class, content, value>>

-------------------------------------------------------------------------------

Next ==
    \/ Swap \/ EndParam
    \/ \E o \in Objects :
          \/ Destroy(o)
          \/ \E v \in Values : Construct(o, v) \/ Assign(o, v)
          \/ \E s \in Objects :
                \/ Copy(o, s) \/ Move(o, s) \/ MoveAssign(o, s)
                \/ CopyParam(o, s) \/ MoveParam(o, s)

Spec == Init /\ [][Next]_vars

-------------------------------------------------------------------------------
(* Properties.                                                             *)

\* "two Buffers owning the same pointer -> double-free": no resource is released
\* that is not allocated.
NoDoubleFree == ~badFree

\* Nothing leaks and nothing dangles: the allocated resources are those the
\* objects point to, each pointed to by one live object.
OneOwner ==
    /\ allocated = {data[o] : o \in Slots} \ {Null}
    /\ \A o \in Slots \ live : data[o] = Null
    /\ \A o, p \in Slots : o # p /\ data[o] = data[p] => data[o] = Null

\* Copies are deep, moves and swaps carry the value with them, in self-assignment
\* too: an object that stands for a value holds a block with that value in it.  Only
\* a moved-from object, or a copy of one, stands for none.
ValueRight ==
    \A o \in live : value[o] # Null => data[o] # Null /\ content[data[o]] = value[o]

\* With the types the proof needs.
OwnershipInv ==
    /\ data \in [Slots -> Resources \cup {Null}]
    /\ live \subseteq Slots /\ target \in Slots
    /\ (target = Param) => Param \notin live
    /\ (target # Param) => {target, Param} \subseteq live
    /\ badFree = FALSE
    /\ OneOwner

-------------------------------------------------------------------------------
(* Proofs.                                                                 *)

\* An object that points to a resource is its only owner, and the resource is
\* allocated: releasing it is right, and takes it from nobody else.
LEMMA Owner ==
  ASSUME OwnershipInv, NEW o \in Slots, data[o] # Null
  PROVE  /\ data[o] \in allocated
         /\ \A p \in Slots : p # o => data[p] # data[o]
BY DEF OwnershipInv, OneOwner

\* A new object with a new resource: the constructors that allocate.
LEMMA Acquire ==
  ASSUME OwnershipInv,
         NEW o \in Slots, o \notin live,
         NEW r \in Resources \ allocated,
         allocated' = allocated \cup {r},
         data' = [data EXCEPT ![o] = r],
         live' = live \cup {o},
         badFree' = badFree,
         target' \in Slots, target' = Param => Param \notin live',
         target' # Param => {target', Param} \subseteq live'
  PROVE  OwnershipInv'
<1>1. data[o] = Null
  BY DEF OwnershipInv, OneOwner
<1>2. /\ data' \in [Slots -> Resources \cup {Null}]
      /\ \A p \in Slots : data'[p] = IF p = o THEN r ELSE data[p]
  BY DEF OwnershipInv
<1>3. r # Null /\ \A p \in Slots : data[p] # r
  BY OwnershipAssumption DEF OwnershipInv, OneOwner
<1>4. allocated' = {data'[p] : p \in Slots} \ {Null}
  BY <1>1, <1>2, <1>3 DEF OwnershipInv, OneOwner
<1>5. OneOwner'
  BY <1>1, <1>2, <1>3, <1>4 DEF OwnershipInv, OneOwner
<1> QED
  BY <1>2, <1>5 DEF OwnershipInv

\* The resource of s goes to an object that has none: the move constructor.
LEMMA Transfer ==
  ASSUME OwnershipInv,
         NEW o \in Slots, NEW s \in Slots, o # s, data[o] = Null, s \in live,
         data' = [data EXCEPT ![o] = data[s], ![s] = Null],
         live' = live \cup {o},
         allocated' = allocated, badFree' = badFree,
         target' \in Slots, target' = Param => Param \notin live',
         target' # Param => {target', Param} \subseteq live'
  PROVE  OwnershipInv'
<1>1. /\ data' \in [Slots -> Resources \cup {Null}]
      /\ \A p \in Slots : data'[p] = IF p = s THEN Null ELSE IF p = o THEN data[s] ELSE data[p]
  BY DEF OwnershipInv
<1>2. allocated' = {data'[p] : p \in Slots} \ {Null}
  BY <1>1 DEF OwnershipInv, OneOwner
<1>3. OneOwner'
  BY <1>1, <1>2 DEF OwnershipInv, OneOwner
<1> QED
  BY <1>1, <1>3 DEF OwnershipInv

\* The destructor releases what the object points to, and only that.
LEMMA Dispose ==
  ASSUME OwnershipInv,
         NEW o \in Slots, DestroyAt(o),
         target' \in Slots, target' = Param => Param \notin live',
         target' # Param => {target', Param} \subseteq live'
  PROVE  OwnershipInv'
<1>1. /\ data' \in [Slots -> Resources \cup {Null}]
      /\ \A p \in Slots : data'[p] = IF p = o THEN Null ELSE data[p]
  BY DEF OwnershipInv, DestroyAt
<1>2. badFree' = FALSE
  BY Owner DEF OwnershipInv, DestroyAt, Release
<1>3. allocated' = allocated \ {data[o]} /\ live' = live \ {o}
  BY DEF DestroyAt, Release
<1>4. allocated' = {data'[p] : p \in Slots} \ {Null}
  BY <1>1, <1>3, Owner DEF OwnershipInv, OneOwner
<1>5. OneOwner'
  BY <1>1, <1>3, <1>4 DEF OwnershipInv, OneOwner
<1> QED
  BY <1>1, <1>2, <1>3, <1>5 DEF OwnershipInv

\* The inductive invariant: the allocated resources are those the objects point
\* to, each has one owner, which is live, and no release was wrong.
THEOREM OwnershipInvariant == Spec => []OwnershipInv
<1>1. Init => OwnershipInv
  BY OwnershipAssumption DEF Init, OwnershipInv, OneOwner, Slots
<1>2. OwnershipInv /\ [Next]_vars => OwnershipInv'
  <2> SUFFICES ASSUME OwnershipInv, [Next]_vars PROVE OwnershipInv'
    OBVIOUS
  <2>o. \A x \in Objects : x \in Slots /\ x # Param
    BY OwnershipAssumption DEF Slots
  <2>p. Param \in Slots
    BY DEF Slots
  <2>1. ASSUME NEW o \in Objects, NEW v \in Values, Construct(o, v) PROVE OwnershipInv'
    <3>1. PICK r \in Resources \ allocated :
            /\ allocated' = allocated \cup {r}
            /\ data' = [data EXCEPT ![o] = r]
            /\ live' = live \cup {o}
      BY <2>1 DEF Construct, ConstructAt
    <3>2. target' = Param /\ Param \notin live' /\ badFree' = badFree /\ o \notin live
      BY <2>1, <2>o, <3>1 DEF Construct, Idle, OwnershipInv
    <3> QED
      BY <2>o, <2>p, <3>1, <3>2, Acquire
  <2>2. ASSUME NEW o \in Objects, NEW s \in Objects, Copy(o, s) PROVE OwnershipInv'
    <3>1. PICK r \in Resources \ allocated :
            /\ allocated' = allocated \cup {r}
            /\ data' = [data EXCEPT ![o] = r]
            /\ live' = live \cup {o}
      BY <2>2 DEF Copy, CopyAt, CopyBlock
    <3>2. target' = Param /\ Param \notin live' /\ badFree' = badFree /\ o \notin live
      BY <2>2, <2>o, <3>1 DEF Copy, Idle, OwnershipInv
    <3> QED
      BY <2>o, <2>p, <3>1, <3>2, Acquire
  <2>3. ASSUME NEW o \in Objects, NEW s \in Objects, Move(o, s) PROVE OwnershipInv'
    <3>1. /\ data' = [data EXCEPT ![o] = data[s], ![s] = Null]
          /\ live' = live \cup {o} /\ allocated' = allocated /\ badFree' = badFree
          /\ o \notin live /\ s \in live /\ target = Param /\ target' = target
      BY <2>3 DEF Move, MoveAt, Emptied, Idle
    <3>2. Param \notin live' /\ data[o] = Null
      BY <2>o, <3>1 DEF OwnershipInv, OneOwner
    <3> QED
      BY <2>o, <2>p, <3>1, <3>2, Transfer
  <2>4. ASSUME NEW o \in Objects, Destroy(o) PROVE OwnershipInv'
    <3>1. DestroyAt(o) /\ target = Param /\ target' = target
      BY <2>4 DEF Destroy, Idle
    <3>2. Param \notin live'
      BY <3>1 DEF DestroyAt, OwnershipInv
    <3> QED
      BY <2>o, <2>p, <3>1, <3>2, Dispose
  <2>5. ASSUME NEW o \in Objects, NEW v \in Values, Assign(o, v) PROVE OwnershipInv'
    BY <2>5 DEF Assign, OwnershipInv, OneOwner
  <2>6. ASSUME NEW o \in Objects, NEW s \in Objects, MoveAssign(o, s) PROVE OwnershipInv'
    <3>1. /\ o # s /\ o \in live /\ s \in live
          /\ data' = [data EXCEPT ![o] = data[s], ![s] = Null]
          /\ allocated' = allocated \ {data[o]}
          /\ badFree' = (badFree \/ (data[o] # Null /\ data[o] \notin allocated))
          /\ live' = live /\ target' = target
      BY <2>6 DEF MoveAssign, IsSelf, Old, Release, Emptied
    <3>2. /\ data' \in [Slots -> Resources \cup {Null}]
          /\ \A p \in Slots : data'[p] = IF p = s THEN Null ELSE IF p = o THEN data[s] ELSE data[p]
      BY <3>1, <2>o DEF OwnershipInv
    <3>3. badFree' = FALSE
      BY <3>1, <2>o, Owner DEF OwnershipInv
    <3>4. allocated' = {data'[p] : p \in Slots} \ {Null}
      BY <3>1, <3>2, <2>o, Owner DEF OwnershipInv, OneOwner
    <3>5. OneOwner'
      BY <3>1, <3>2, <3>4, <2>o DEF OwnershipInv, OneOwner
    <3> QED
      BY <3>1, <3>2, <3>3, <3>5 DEF OwnershipInv
  <2>7. ASSUME NEW o \in Objects, NEW s \in Objects, CopyParam(o, s) PROVE OwnershipInv'
    <3>1. PICK r \in Resources \ allocated :
            /\ allocated' = allocated \cup {r}
            /\ data' = [data EXCEPT ![Param] = r]
            /\ live' = live \cup {Param}
      BY <2>7 DEF CopyParam, CopyAt, CopyBlock
    <3>2. target' = o /\ o \in live /\ badFree' = badFree /\ Param \notin live
      BY <2>7 DEF CopyParam, Idle, OwnershipInv
    <3> QED
      BY <2>o, <2>p, <3>1, <3>2, Acquire
  <2>8. ASSUME NEW o \in Objects, NEW s \in Objects, MoveParam(o, s) PROVE OwnershipInv'
    <3>1. /\ data' = [data EXCEPT ![Param] = data[s], ![s] = Null]
          /\ live' = live \cup {Param} /\ allocated' = allocated /\ badFree' = badFree
          /\ o \in live /\ s \in live /\ target = Param /\ target' = o
      BY <2>8 DEF MoveParam, MoveAt, Emptied, Idle
    <3>2. data[Param] = Null
      BY <2>p, <3>1 DEF OwnershipInv, OneOwner
    <3> QED
      BY <2>o, <2>p, <3>1, <3>2, Transfer
  <2>9. CASE Swap
    <3>1. /\ target \in Slots /\ target # Param /\ {target, Param} \subseteq live
          /\ data' = [data EXCEPT ![target] = data[Param], ![Param] = data[target]]
          /\ UNCHANGED <<live, allocated, target, badFree>>
      BY <2>9 DEF Swap, SwapBack, Idle, OwnershipInv
    <3>2. /\ data' \in [Slots -> Resources \cup {Null}]
          /\ \A p \in Slots : data'[p] = IF p = Param THEN data[target]
                                         ELSE IF p = target THEN data[Param] ELSE data[p]
      BY <3>1, <2>p DEF OwnershipInv
    <3>3. {data'[p] : p \in Slots} = {data[p] : p \in Slots}
      BY <3>1, <3>2, <2>p
    <3>4. OneOwner'
      BY <3>1, <3>2, <3>3, <2>p DEF OwnershipInv, OneOwner
    <3> QED
      BY <3>1, <3>2, <3>4 DEF OwnershipInv
  <2>10. CASE EndParam
    <3>1. DestroyAt(Param) /\ target' = Param
      BY <2>10 DEF EndParam
    <3>2. Param \notin live'
      BY <3>1 DEF DestroyAt
    <3> QED
      BY <2>p, <3>1, <3>2, Dispose
  <2>11. CASE UNCHANGED vars
    BY <2>11 DEF vars, OwnershipInv, OneOwner
  <2> QED
    BY <2>1, <2>2, <2>3, <2>4, <2>5, <2>6, <2>7, <2>8, <2>9, <2>10, <2>11 DEF Next
<1> QED
  BY <1>1, <1>2, PTL DEF Spec

\* No class ever releases a resource twice.
THEOREM NeverDoubleFree == Spec => []NoDoubleFree
<1>1. OwnershipInv => NoDoubleFree
  BY DEF OwnershipInv, NoDoubleFree
<1> QED
  BY <1>1, OwnershipInvariant, PTL

\* Nothing leaks and nothing dangles.
THEOREM AlwaysOneOwner == Spec => []OneOwner
<1>1. OwnershipInv => OneOwner
  BY DEF OwnershipInv
<1> QED
  BY <1>1, OwnershipInvariant, PTL

\* With the types the proof needs.
ValueInv ==
    /\ content \in [Resources -> Values]
    /\ value \in [Slots -> Values \cup {Null}]
    /\ ValueRight

\* A new object gets a new block with v in it, and stands for v or for nothing: the
\* blocks of the others are allocated, so none of them is written to.
LEMMA Fill ==
  ASSUME OwnershipInv, ValueInv,
         NEW o \in Slots, NEW r \in Resources \ allocated,
         NEW v \in Values, NEW w \in {v, Null},
         data' = [data EXCEPT ![o] = r],
         content' = [content EXCEPT ![r] = v],
         value' = [value EXCEPT ![o] = w],
         live' = live \cup {o}
  PROVE  ValueInv'
<1>1. /\ \A p \in Slots : data'[p] = IF p = o THEN r ELSE data[p]
      /\ \A p \in Slots : value'[p] = IF p = o THEN w ELSE value[p]
      /\ \A q \in Resources : content'[q] = IF q = r THEN v ELSE content[q]
      /\ content' \in [Resources -> Values]
      /\ value' \in [Slots -> Values \cup {Null}]
  BY DEF OwnershipInv, ValueInv
<1>2. r # Null
  BY OwnershipAssumption
<1>3. ASSUME NEW p \in live', value'[p] # Null
      PROVE  data'[p] # Null /\ content'[data'[p]] = value'[p]
  <2>1. p \in Slots
    BY DEF OwnershipInv
  <2>2. CASE p = o
    BY <1>1, <1>2, <1>3, <2>1, <2>2
  <2>3. CASE p # o
    <3>1. p \in live /\ data'[p] = data[p] /\ value'[p] = value[p]
      BY <1>1, <2>1, <2>3
    <3>2. data[p] # Null /\ content[data[p]] = value[p]
      BY <1>3, <3>1 DEF ValueInv, ValueRight
    <3>3. data[p] \in Resources /\ data[p] # r
      BY <2>1, <3>2, Owner DEF OwnershipInv
    <3> QED
      BY <1>1, <3>1, <3>2, <3>3
  <2> QED
    BY <2>2, <2>3
<1> QED
  BY <1>1, <1>3 DEF ValueInv, ValueRight

\* The copy constructor: what is copied is what the source stands for, if anything.
LEMMA CopyFills ==
  ASSUME OwnershipInv, ValueInv,
         NEW o \in Slots, NEW s \in live, CopyAt(o, s)
  PROVE  ValueInv'
<1>1. PICK r \in Resources \ allocated, v \in Bytes(s) :
        /\ data' = [data EXCEPT ![o] = r]
        /\ content' = [content EXCEPT ![r] = v]
        /\ value' = [value EXCEPT ![o] = value[s]]
        /\ live' = live \cup {o}
  BY DEF CopyAt, CopyBlock
<1>2. s \in Slots
  BY DEF OwnershipInv
<1>3. v \in Values
  BY <1>1, <1>2 DEF Bytes, OwnershipInv, ValueInv
<1>4. value[s] \in {v, Null}
  BY <1>1, <1>2 DEF Bytes, ValueInv, ValueRight
<1> QED
  BY <1>1, <1>3, <1>4, Fill

\* A block and the value in it go from s to another object: the moves.
LEMMA Carry ==
  ASSUME OwnershipInv, ValueInv,
         NEW o \in Slots, NEW s \in live, o # s,
         data' = [data EXCEPT ![o] = data[s], ![s] = Null],
         value' = [value EXCEPT ![o] = value[s], ![s] = Null],
         content' = content,
         live' \subseteq live \cup {o}
  PROVE  ValueInv'
<1>1. s \in Slots
  BY DEF OwnershipInv
<1>2. /\ \A p \in Slots : data'[p] = IF p = s THEN Null ELSE IF p = o THEN data[s] ELSE data[p]
      /\ \A p \in Slots : value'[p] = IF p = s THEN Null ELSE IF p = o THEN value[s] ELSE value[p]
      /\ value' \in [Slots -> Values \cup {Null}]
  BY <1>1 DEF OwnershipInv, ValueInv
<1>3. ASSUME NEW p \in live', value'[p] # Null
      PROVE  data'[p] # Null /\ content'[data'[p]] = value'[p]
  <2>1. p \in Slots /\ p # s
    BY <1>2, <1>3 DEF OwnershipInv
  <2>2. CASE p = o
    <3>1. data'[p] = data[s] /\ value'[p] = value[s]
      BY <1>2, <2>1, <2>2
    <3>2. data[s] # Null /\ content[data[s]] = value[s]
      BY <1>3, <3>1 DEF ValueInv, ValueRight
    <3> QED
      BY <3>1, <3>2
  <2>3. CASE p # o
    <3>1. p \in live /\ data'[p] = data[p] /\ value'[p] = value[p]
      BY <1>2, <2>1, <2>3
    <3>2. data[p] # Null /\ content[data[p]] = value[p]
      BY <1>3, <3>1 DEF ValueInv, ValueRight
    <3> QED
      BY <3>1, <3>2
  <2> QED
    BY <2>2, <2>3
<1> QED
  BY <1>2, <1>3 DEF ValueInv, ValueRight

\* Copies are deep, and moves and swaps carry the value with them.
THEOREM ValuesKept == Spec => []ValueRight
<1>1. Init => ValueInv
  BY DEF Init, ValueInv, ValueRight
<1>2. OwnershipInv /\ ValueInv /\ [Next]_vars => ValueInv'
  <2> SUFFICES ASSUME OwnershipInv, ValueInv, [Next]_vars PROVE ValueInv'
    OBVIOUS
  <2>o. \A x \in Objects : x \in Slots /\ x # Param
    BY OwnershipAssumption DEF Slots
  <2>p. Param \in Slots
    BY DEF Slots
  <2>1. ASSUME NEW o \in Objects, NEW v \in Values, Construct(o, v) PROVE ValueInv'
    <3>1. PICK r \in Resources \ allocated :
            /\ data' = [data EXCEPT ![o] = r]
            /\ content' = [content EXCEPT ![r] = v]
            /\ value' = [value EXCEPT ![o] = v]
            /\ live' = live \cup {o}
      BY <2>1 DEF Construct, ConstructAt
    <3> QED
      BY <2>o, <3>1, Fill
  <2>2. ASSUME NEW o \in Objects, NEW s \in Objects, Copy(o, s) PROVE ValueInv'
    BY <2>2, <2>o, CopyFills DEF Copy
  <2>3. ASSUME NEW o \in Objects, NEW s \in Objects, Move(o, s) PROVE ValueInv'
    BY <2>3, <2>o, Carry DEF Move, MoveAt, Emptied
  <2>4. ASSUME NEW o \in Slots, DestroyAt(o), UNCHANGED <<content, value>> PROVE ValueInv'
    <3>1. /\ live' = live \ {o}
          /\ \A p \in live' : data'[p] = data[p]
      BY <2>4 DEF DestroyAt, OwnershipInv
    <3> QED
      BY <2>4, <3>1 DEF ValueInv, ValueRight
  <2>5. ASSUME NEW o \in Objects, NEW v \in Values, Assign(o, v) PROVE ValueInv'
    <3>1. /\ o \in live /\ data[o] # Null /\ data[o] \in Resources
          /\ data' = data /\ live' = live
      BY <2>5, <2>o DEF Assign, OwnershipInv
    <3>2. /\ \A q \in Resources : content'[q] = IF q = data[o] THEN v ELSE content[q]
          /\ \A p \in Slots : value'[p] = IF p = o THEN v ELSE value[p]
          /\ content' \in [Resources -> Values]
          /\ value' \in [Slots -> Values \cup {Null}]
      BY <2>5, <2>o, <3>1 DEF Assign, ValueInv
    <3>3. ASSUME NEW p \in live, value'[p] # Null
          PROVE  data[p] # Null /\ content'[data[p]] = value'[p]
      <4>1. p \in Slots
        BY DEF OwnershipInv
      <4>2. CASE p = o
        BY <3>1, <3>2, <4>1, <4>2
      <4>3. CASE p # o
        <5>1. data[p] # Null /\ content[data[p]] = value[p] /\ value'[p] = value[p]
          BY <3>2, <3>3, <4>1, <4>3 DEF ValueInv, ValueRight
        <5>2. data[p] \in Resources /\ data[p] # data[o]
          BY <2>o, <3>1, <4>1, <4>3, <5>1, Owner DEF OwnershipInv
        <5> QED
          BY <3>2, <5>1, <5>2
      <4> QED
        BY <4>2, <4>3
    <3> QED
      BY <3>1, <3>2, <3>3 DEF ValueInv, ValueRight
  <2>6. ASSUME NEW o \in Objects, NEW s \in Objects, MoveAssign(o, s) PROVE ValueInv'
    <3>1. /\ o # s /\ o \in live /\ s \in live /\ live' = live /\ content' = content
          /\ data' = [data EXCEPT ![o] = data[s], ![s] = Null]
          /\ value' = [value EXCEPT ![o] = value[s], ![s] = Null]
      BY <2>6 DEF MoveAssign, IsSelf, Emptied
    <3> QED
      BY <2>o, <3>1, Carry
  <2>7. ASSUME NEW o \in Objects, NEW s \in Objects, CopyParam(o, s) PROVE ValueInv'
    BY <2>7, <2>p, CopyFills DEF CopyParam
  <2>8. ASSUME NEW o \in Objects, NEW s \in Objects, MoveParam(o, s) PROVE ValueInv'
    BY <2>8, <2>o, <2>p, Carry DEF MoveParam, MoveAt, Emptied
  <2>9. CASE Swap
    <3>1. /\ target \in Slots /\ target # Param /\ {target, Param} \subseteq live
          /\ live' = live /\ content' = content
          /\ \A p \in Slots : data'[p] = IF p = Param THEN data[target]
                                         ELSE IF p = target THEN data[Param] ELSE data[p]
          /\ \A p \in Slots : value'[p] = IF p = Param THEN value[target]
                                          ELSE IF p = target THEN value[Param] ELSE value[p]
          /\ value' \in [Slots -> Values \cup {Null}]
      BY <2>9, <2>p DEF Swap, SwapBack, Idle, OwnershipInv, ValueInv
    <3>2. \A p \in live : p \in Slots
      BY DEF OwnershipInv
    <3> QED
      BY <3>1, <3>2 DEF ValueInv, ValueRight
  <2>10. CASE UNCHANGED vars
    BY <2>10 DEF vars, ValueInv, ValueRight
  <2> QED
    BY <2>o, <2>p, <2>1, <2>2, <2>3, <2>4, <2>5, <2>6, <2>7, <2>8, <2>9, <2>10
       DEF Next, Destroy, EndParam
<1>3. ValueInv => ValueRight
  BY DEF ValueInv
<1> QED
  BY <1>1, <1>2, <1>3, OwnershipInvariant, PTL DEF Spec
================================================================================
