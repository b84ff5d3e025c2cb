------------------------------ MODULE Custody ------------------------------
(***************************************************************************)
(* What the executor promises about files, without saying how: a file of   *)
(* the library may be recycled and put back, a recycled file is kept for   *)
(* KeepDays days, and nothing else makes a file go except whoever owns the *)
(* library (the user, an *arr, a removal without a recycle bin).           *)
(***************************************************************************)
EXTENDS Integers

CONSTANTS CustodyFiles, KeepDays
VARIABLES place, clock

Unborn == <<"unborn", 0>>
InLibrary == <<"library", 0>>
Gone == <<"gone", 0>>
Recycled(d) == <<"bin", d>>

CustodyInit == place \in [CustodyFiles -> {Unborn, InLibrary}] /\ clock = 1

Arrive(f) == place[f] = Unborn /\ place' = [place EXCEPT ![f] = InLibrary]
Leave(f) == place[f] = InLibrary /\ place' = [place EXCEPT ![f] = Gone]
\* The day under which a file is recycled is today, or the day before when
\* midnight passes during the removal.
Recycle(f) == \E d \in 1..clock : place[f] = InLibrary /\ place' = [place EXCEPT ![f] = Recycled(d)]
PutBack(f) == place[f][1] = "bin" /\ place' = [place EXCEPT ![f] = InLibrary]
\* The bin is emptied of whole days at once; of a file recycled twice the
\* earlier copy may be what remains.
Overdue(f) == place[f][1] = "bin" /\ clock - place[f][2] > KeepDays
Expire ==
  /\ place' = [f \in CustodyFiles |-> place'[f]]
  /\ \A f \in CustodyFiles :
       \/ place'[f] = place[f]
       \/ Overdue(f) /\ (place'[f] = Gone \/ \E d \in 1..place[f][2] : place'[f] = Recycled(d))

CustodyNext ==
  \/ (\E f \in CustodyFiles : Arrive(f) \/ Leave(f) \/ Recycle(f) \/ PutBack(f)) /\ UNCHANGED clock
  \/ Expire /\ UNCHANGED clock
  \/ clock' = clock + 1 /\ UNCHANGED place

CustodySpec == CustodyInit /\ [][CustodyNext]_<<place, clock>>
=============================================================================
