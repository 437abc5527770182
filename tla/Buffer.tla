------------------------------- MODULE Buffer -------------------------------
(***************************************************************************)
(* The class Buffer of move_semantics_demo/main.cpp: an array on the heap  *)
(* behind a raw pointer, with the five special members written by hand.    *)
(* Any program that owns a few Buffers is modelled, not only main: objects *)
(* are constructed, copied, moved, assigned to each other or to themselves *)
(* and destroyed in any order, and every allocation may throw bad_alloc.   *)
(*                                                                         *)
(* heap maps the address of every live array to its contents; delete[] or  *)
(* a read at any other address is undefined behaviour.                     *)
(***************************************************************************)
EXTENDS Integers, Sequences

CONSTANTS
    Objects,      \* names under which Buffers live
    Addresses,    \* where arrays may be allocated
    Sizes,        \* sizes the constructor is called with
    Ints          \* what an int of a new array may hold

nullptr  == "nullptr"
bad_alloc == "bad_alloc"

\* new never returns a null pointer.
ASSUME BufferAssumption ==
    Sizes \subseteq Nat /\ {nullptr, bad_alloc} \cap Addresses = {}

VARIABLES
    object,       \* live Buffers: [size_, data_]
    heap,         \* live arrays: address -> contents
    undefined,    \* an array was deleted twice or used after delete[]
    value         \* history: the contents each live Buffer should have

bufferVars == <<object, heap, undefined, value>>

Live == DOMAIN object

BufferInit ==
    /\ object = <<>> /\ heap = <<>> /\ value = <<>>
    /\ undefined = FALSE

-----------------------------------------------------------------------------

Without(f, x) == [k \in DOMAIN f \ {x} |-> f[k]]
With(f, x, v) == [k \in DOMAIN f \union {x} |-> IF k = x THEN v ELSE f[k]]

\* A pointer that is neither null nor the address of a live array.
Dangling(h, p) == p # nullptr /\ p \notin DOMAIN h

\* size > 0 ? new int[size] : nullptr, where new may throw.
New(h, size) == IF size > 0 THEN (Addresses \ DOMAIN h) \union {bad_alloc} ELSE {nullptr}

\* The heap with the array at data, and after delete[] of it.
Stored(h, data, contents) == IF data = nullptr THEN h ELSE With(h, data, contents)
Deleted(h, data) == IF data = nullptr THEN h ELSE Without(h, data)

\* What a copy reads through other.data_.
Contents(o) == IF object[o].data_ \in DOMAIN heap THEN heap[object[o].data_] ELSE <<>>

\* The array is not initialised: its ints are whatever they are.
Constructor(o) ==
    /\ o \notin Live
    /\ \E size \in Sizes : \E data \in New(heap, size) \ {bad_alloc} :
          \E contents \in [1 .. size -> Ints] :
             /\ heap' = Stored(heap, data, contents)
             /\ object' = With(object, o, [size_ |-> size, data_ |-> data])
             /\ value' = With(value, o, contents)
    /\ UNCHANGED undefined

Destructor(o) ==
    /\ o \in Live
    /\ undefined' = (undefined \/ Dangling(heap, object[o].data_))
    /\ heap' = Deleted(heap, object[o].data_)
    /\ object' = Without(object, o)
    /\ value' = Without(value, o)

\* A constructor that throws leaves no object behind.
CopyConstructor(o, other) ==
    /\ o \notin Live /\ other \in Live
    /\ undefined' = (undefined \/ Dangling(heap, object[other].data_))
    /\ \E data \in New(heap, object[other].size_) \ {bad_alloc} :
          /\ heap' = Stored(heap, data, Contents(other))
          /\ object' = With(object, o, [size_ |-> object[other].size_, data_ |-> data])
    /\ value' = With(value, o, value[other])

\* Mutant: the old array is deleted before the new one is allocated.
CopyAssignment_delete_first(o, other) ==
    /\ {o, other} \subseteq Live /\ o # other
    /\ LET freed == Deleted(heap, object[o].data_)
       IN  \E data \in New(freed, object[other].size_) :
              IF data = bad_alloc
              THEN heap' = freed /\ UNCHANGED <<object, undefined, value>>
              ELSE /\ heap' = Stored(freed, data, Contents(other))
                   /\ object' = [object EXCEPT ![o] = [size_ |-> object[other].size_, data_ |-> data]]
                   /\ value' = [value EXCEPT ![o] = value[other]]
                   /\ UNCHANGED undefined

\* The new array is allocated and filled before the old one is deleted; an
\* assignment that throws, and one of an object to itself, changes nothing.
CopyAssignment(o, other) ==
    /\ {o, other} \subseteq Live
    /\ IF o = other THEN UNCHANGED bufferVars
       ELSE \E newData \in New(heap, object[other].size_) :
              IF newData = bad_alloc THEN UNCHANGED bufferVars
              ELSE /\ undefined' = (\/ undefined
                                    \/ Dangling(heap, object[other].data_)
                                    \/ Dangling(heap, object[o].data_))
                   /\ heap' = Deleted(Stored(heap, newData, Contents(other)), object[o].data_)
                   /\ object' = [object EXCEPT ![o] = [size_ |-> object[other].size_, data_ |-> newData]]
                   /\ value' = [value EXCEPT ![o] = value[other]]

\* The array changes hands and the other object is left empty.
MoveConstructor(o, other) ==
    /\ o \notin Live /\ other \in Live
    /\ object' = With([object EXCEPT ![other] = [size_ |-> 0, data_ |-> nullptr]], o, object[other])
    /\ value' = With([value EXCEPT ![other] = <<>>], o, value[other])
    /\ UNCHANGED <<heap, undefined>>

MoveAssignment(o, other) ==
    /\ {o, other} \subseteq Live
    /\ IF o = other THEN UNCHANGED bufferVars
       ELSE /\ undefined' = (undefined \/ Dangling(heap, object[o].data_))
            /\ heap' = Deleted(heap, object[o].data_)
            /\ object' = [object EXCEPT ![o] = object[other],
                                        ![other] = [size_ |-> 0, data_ |-> nullptr]]
            /\ value' = [value EXCEPT ![o] = value[other], ![other] = <<>>]

BufferNext ==
    \/ \E o \in Objects : Constructor(o) \/ Destructor(o)
    \/ \E o, other \in Objects :
          \/ CopyConstructor(o, other) \/ MoveConstructor(o, other)
          \/ CopyAssignment(o, other) \/ MoveAssignment(o, other)

BufferSpec == BufferInit /\ [][BufferNext]_bufferVars

-----------------------------------------------------------------------------

Owners(p) == {o \in Live : object[o].data_ = p}

\* The five special members keep ownership unique (lines 9-120): after any
\* sequence of constructions, copies, moves, assignments, destructions and
\* failed allocations every live array has exactly one owner, no Buffer points
\* at an array that was deleted, size_ is the length of the array, copies are
\* equal to what they were copied from whatever happened to it since, and
\* delete[] never met an array twice.
OwnedOnce ==
    /\ ~undefined
    /\ \A p \in DOMAIN heap : \E o \in Live : Owners(p) = {o}
    /\ \A o \in Live : /\ ~Dangling(heap, object[o].data_)
                       /\ object[o].size_ = Len(value[o])
                       /\ Contents(o) = value[o]

=============================================================================
