----------------------------- MODULE Observer -----------------------------
(***************************************************************************)
(* design_mode/observer_mode: a subject and the objects it informs.  The    *)
(* interest is in DeleteObject, which cuts elements out of the slice that   *)
(* it ranges over: range keeps the length and the array that the slice had, *)
(* and the cut moves the elements of that array.                            *)
(***************************************************************************)
EXTENDS Integers, Sequences, SequencesExt

CONSTANTS Objects,  \* the observers
          MaxAdds   \* bound: the length of the slice

ASSUME ObserverAssumption == MaxAdds \in Nat

VARIABLES objArr,   \* RealSubject.ObjArr
          told,     \* how many updates each object got from the last notification
          panicked  \* a slice expression was out of range

observerVars == <<objArr, told, panicked>>

ObserverTypeOK ==
    /\ objArr \in Seq(Objects) /\ Len(objArr) <= MaxAdds
    /\ told \in [Objects -> Nat] /\ panicked \in BOOLEAN

ObserverInit == objArr = <<>> /\ told = [o \in Objects |-> 0] /\ panicked = FALSE

-----------------------------------------------------------------------------
Times(seq, obj) == Cardinality({i \in 1..Len(seq) : seq[i] = obj})

AddObject(obj) ==
    /\ ~panicked /\ Len(objArr) < MaxAdds
    /\ objArr' = Append(objArr, obj)
    /\ UNCHANGED <<told, panicked>>

\* append(a[:i], a[i+1:]...) on a slice [array, len, panics]: the elements after
\* the i-th move down, the last one stays where it was too.  Faulty, for mutation:
\* the ones from the i-th on.
CutLate(a, i) ==
    [a EXCEPT !.len = @ - 1,
              !.array = [k \in DOMAIN @ |-> IF k \in i + 1..a.len - 1 THEN @[k + 1] ELSE @[k]]]
Cut(a, i) ==
    IF i > a.len THEN [a EXCEPT !.panics = TRUE]
    ELSE [a EXCEPT !.len = @ - 1,
                   !.array = [k \in DOMAIN @ |-> IF k \in i..a.len - 1 THEN @[k + 1] ELSE @[k]]]

Deleted(obj) ==
    LET Body(a, i) == IF ~a.panics /\ a.array[i] = obj THEN Cut(a, i) ELSE a
    IN FoldLeft(Body, [array |-> objArr, len |-> Len(objArr), panics |-> FALSE],
                [i \in 1..Len(objArr) |-> i])

DeleteObject(obj) ==
    /\ ~panicked
    /\ objArr' = SubSeq(Deleted(obj).array, 1, Deleted(obj).len)
    /\ panicked' = Deleted(obj).panics
    /\ UNCHANGED told

NotifyObjects ==
    /\ ~panicked
    /\ told' = [o \in Objects |-> Times(objArr, o)]
    /\ UNCHANGED <<objArr, panicked>>

ObserverNext ==
    \/ \E obj \in Objects : AddObject(obj) \/ DeleteObject(obj)
    \/ NotifyObjects

-----------------------------------------------------------------------------
\* Deleting an object that is registered once, or not at all, removes it, leaves
\* the others in their order and does not panic, although the array changes under
\* the range (subject.go:21-27).  Of one that is registered twice this is not
\* true: it may stay, and if its last place is the last of the slice the second
\* cut is out of range.
DeleteIsExact ==
    [][\A obj \in Objects :
        (DeleteObject(obj) /\ Times(objArr, obj) <= 1) =>
            ~panicked' /\ objArr' = SelectSeq(objArr, LAMBDA o : o # obj)]_observerVars
=============================================================================
