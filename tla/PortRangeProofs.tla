--------------------------- MODULE PortRangeProofs --------------------------
(* Proofs about PortRange, for every range of ports and word size. *)
EXTENDS PortRange, TLAPS

(* The flag of a port is set exactly while one caller holds the port; the  *)
(* last answer, if it was a refusal of aquire_port or a panic, had cause.  *)
FlagsCount ==
  /\ \A p \in Port : grants[p] = IF used[p - First] THEN 1 ELSE 0
  /\ \A p \in Word \ Port : grants[p] = 0

FullWhenRefused ==
  ret.op = "aquire" /\ ret.res = NoPort => \A i \in Index : used[i]

IInv == TypeOK /\ FlagsCount /\ FullWhenRefused /\ CrashOnlyAtBoundary

-----------------------------------------------------------------------------
(* The index of a port lies in the vector, and the port of an index in the *)
(* range: start + idx does not overflow, nor does port - start.            *)
LEMMA PortIndex ==
  /\ Port \subseteq Word
  /\ \A i \in Index : /\ First + i \in Port
                      /\ (First + i) % U16 = First + i
                      /\ (First + i) - First = i
  /\ \A p \in Port : /\ p - First \in Index
                     /\ ReleaseIndex(p) = p - First
  /\ \A p \in Word : p - First \in Index => p \in Port
BY RangeAssumption DEF Port, Index, Word, ReleaseIndex

(* A release below the range lands outside the vector: the subtraction     *)
(* wraps to an index past its end.                                         *)
LEMMA ReleaseOutside ==
  ASSUME NEW p \in Word, p <= Last
  PROVE  ReleaseIndex(p) \in Index <=> p \in Port
<1>1. CASE p < First
  <2>1. p - First + U16 \in 0 .. U16 - 1
    BY <1>1, RangeAssumption DEF Word
  <2>2. ReleaseIndex(p) = p - First + U16
    BY <2>1, RangeAssumption DEF ReleaseIndex
  <2> QED BY <1>1, <2>2, RangeAssumption DEF Index, Port, Word
<1>2. CASE p >= First
  <2>1. p - First \in 0 .. U16 - 1 /\ p - First + U16 = (p - First) + U16
    BY <1>2, RangeAssumption DEF Word
  <2>2. ReleaseIndex(p) = p - First
    BY <2>1, RangeAssumption DEF ReleaseIndex
  <2> QED BY <1>2, <2>2, RangeAssumption DEF Index, Port, Word
<1> QED BY <1>1, <1>2, RangeAssumption DEF Word

LEMMA InitInv == Init => IInv
BY RangeAssumption, PortIndex
   DEF Init, IInv, TypeOK, FlagsCount, FullWhenRefused, CrashOnlyAtBoundary, Call,
       Word, NoPort, Crash, NoArg

(* What the first free flag gives out, or what acquire_port gives out on   *)
(* demand: a port that nobody held.                                        *)
LEMMA TakeStep ==
  ASSUME IInv, NEW i \in Index, ~used[i], Mark(i), Grant(First + i)
  PROVE  /\ used' \in [Index -> BOOLEAN]
         /\ grants' \in [Word -> Nat]
         /\ FlagsCount'
<1> USE DEF IInv, TypeOK, Mark, Grant
<1>1. First + i \in Port /\ First + i \in Word
  BY PortIndex
<1>2. used' \in [Index -> BOOLEAN]
  OBVIOUS
<1>3. grants' \in [Word -> Nat]
  BY <1>1
<1>4. ASSUME NEW p \in Port
      PROVE  grants'[p] = IF used'[p - First] THEN 1 ELSE 0
  <2>1. p - First \in Index /\ p \in Word
    BY PortIndex
  <2>2. CASE p = First + i
    BY <2>1, <2>2, <1>1, PortIndex DEF FlagsCount
  <2>3. CASE p # First + i
    <3>1. p - First # i
      BY <2>3, RangeAssumption DEF Port, Index
    <3> QED BY <3>1, <2>1, <2>3, <1>1 DEF FlagsCount
  <2> QED BY <2>2, <2>3
<1>5. ASSUME NEW p \in Word \ Port
      PROVE  grants'[p] = 0
  BY <1>5, <1>1 DEF FlagsCount
<1> QED BY <1>2, <1>3, <1>4, <1>5 DEF FlagsCount

(* The record of a call is well typed. *)
LEMMA ResultType ==
  ASSUME NEW op \in {"new", "aquire", "acquire", "release"},
         NEW a \in Word \cup {NoArg}, NEW r \in Word \cup {NoPort, Crash},
         Result(op, a, r)
  PROVE  /\ ret' \in Call
         /\ ret'.op = op /\ ret'.arg = a /\ ret'.res = r
BY DEF Result, Call

LEMMA Answers ==
  /\ NoPort \notin Word /\ Crash \notin Word /\ NoPort # Crash
  /\ First \in Word /\ Last \in Word
BY RangeAssumption DEF NoPort, Crash, Word

LEMMA AquireInv == IInv /\ AquirePort => IInv'
<1> SUFFICES ASSUME IInv, AquirePort PROVE IInv'
  OBVIOUS
<1>1. CASE \E i \in Index : /\ FirstClear(i) /\ Mark(i) /\ Grant((First + i) % U16)
                            /\ Result("aquire", NoArg, (First + i) % U16)
  <2>1. PICK i \in Index : /\ ~used[i] /\ Mark(i) /\ Grant(First + i)
                           /\ Result("aquire", NoArg, First + i)
    BY <1>1, PortIndex DEF FirstClear
  <2>2. First + i \in Word
    BY PortIndex
  <2>3. /\ used' \in [Index -> BOOLEAN] /\ grants' \in [Word -> Nat] /\ FlagsCount'
    BY <2>1, TakeStep
  <2>4. /\ ret' \in Call
        /\ ret'.op = "aquire" /\ ret'.res = First + i
    BY <2>1, <2>2, ResultType
  <2>5. ret'.res # NoPort /\ ret'.res # Crash
    BY <2>2, <2>4, Answers
  <2> QED
    BY <2>3, <2>4, <2>5 DEF IInv, TypeOK, FullWhenRefused, CrashOnlyAtBoundary
<1>2. CASE /\ \A i \in Index : used[i]
           /\ Result("aquire", NoArg, NoPort)
           /\ UNCHANGED << used, grants >>
  <2>1. /\ ret' \in Call /\ ret'.op = "aquire" /\ ret'.res = NoPort
    BY <1>2, ResultType
  <2> QED
    BY <1>2, <2>1, Answers
       DEF IInv, TypeOK, FlagsCount, FullWhenRefused, CrashOnlyAtBoundary
<1> QED BY <1>1, <1>2 DEF AquirePort

LEMMA AcquireInv == ASSUME NEW p \in Word, IInv, AcquirePort(p) PROVE IInv'
<1> DEFINE i == p - First
<1>1. CASE /\ Result("acquire", p, NoPort) /\ UNCHANGED << used, grants >>
  <2>1. /\ ret' \in Call /\ ret'.op = "acquire" /\ ret'.res = NoPort
    BY <1>1, ResultType
  <2> QED
    BY <1>1, <2>1, Answers
       DEF IInv, TypeOK, FlagsCount, FullWhenRefused, CrashOnlyAtBoundary
<1>2. CASE /\ ~OutOfRange(p) /\ i \notin Index
           /\ Result("acquire", p, Crash) /\ UNCHANGED << used, grants >>
  <2>1. p = Last
    BY <1>2, RangeAssumption DEF OutOfRange, Index, Word
  <2>2. /\ ret' \in Call /\ ret'.op = "acquire" /\ ret'.res = Crash /\ ret'.arg = p
    BY <1>2, ResultType
  <2> QED
    BY <1>2, <2>1, <2>2, Answers
       DEF IInv, TypeOK, FlagsCount, FullWhenRefused, CrashOnlyAtBoundary
<1>3. CASE /\ i \in Index /\ ~used[i] /\ Mark(i) /\ Grant(p)
           /\ Result("acquire", p, p)
  <2>1. First + i = p
    BY RangeAssumption DEF Word
  <2>2. /\ used' \in [Index -> BOOLEAN] /\ grants' \in [Word -> Nat] /\ FlagsCount'
    BY <1>3, <2>1, TakeStep
  <2>3. /\ ret' \in Call /\ ret'.op = "acquire" /\ ret'.res = p
    BY <1>3, ResultType
  <2> QED
    BY <2>2, <2>3, Answers DEF IInv, TypeOK, FullWhenRefused, CrashOnlyAtBoundary
<1> QED BY <1>1, <1>2, <1>3 DEF AcquirePort

LEMMA ReleaseInv == ASSUME NEW p \in Word, IInv, ReleasePort(p) PROVE IInv'
<1> DEFINE i == ReleaseIndex(p)
<1>1. CASE /\ p > Last
           /\ Result("release", p, NoPort) /\ UNCHANGED << used, grants >>
  <2>1. /\ ret' \in Call /\ ret'.op = "release" /\ ret'.res = NoPort /\ ret'.arg = p
    BY <1>1, ResultType
  <2> QED
    BY <1>1, <2>1, Answers, RangeAssumption
       DEF IInv, TypeOK, FlagsCount, FullWhenRefused, CrashOnlyAtBoundary, Word
<1>2. CASE /\ p <= Last /\ i \notin Index
           /\ Result("release", p, Crash) /\ UNCHANGED << used, grants >>
  <2>1. p = Last \/ p < First
    BY <1>2, ReleaseOutside, RangeAssumption DEF Port, Word
  <2>2. /\ ret' \in Call /\ ret'.op = "release" /\ ret'.res = Crash /\ ret'.arg = p
    BY <1>2, ResultType
  <2> QED
    BY <1>2, <2>1, <2>2, Answers
       DEF IInv, TypeOK, FlagsCount, FullWhenRefused, CrashOnlyAtBoundary
<1>3. CASE /\ grants[p] > 0 \/ p \notin Port
           /\ p <= Last /\ i \in Index
           /\ used' = [used EXCEPT ![i] = FALSE]
           /\ grants' = [grants EXCEPT ![p] = IF @ > 0 THEN @ - 1 ELSE 0]
           /\ Result("release", p, p)
  <2>1. p \in Port /\ i = p - First
    BY <1>3, ReleaseOutside, PortIndex
  <2>2. grants[p] = 1 /\ used[i]
    BY <1>3, <2>1 DEF IInv, FlagsCount
  <2>3. /\ used' \in [Index -> BOOLEAN] /\ grants' \in [Word -> Nat]
        /\ grants' = [grants EXCEPT ![p] = 0]
    BY <1>3, <2>2 DEF IInv, TypeOK
  <2>4. FlagsCount'
    <3>1. ASSUME NEW q \in Port
          PROVE  grants'[q] = IF used'[q - First] THEN 1 ELSE 0
      <4>1. q - First \in Index /\ q \in Word /\ (q # p => q - First # i)
        BY <2>1, PortIndex, RangeAssumption DEF Port
      <4> QED BY <1>3, <2>1, <2>3, <4>1 DEF IInv, TypeOK, FlagsCount
    <3>2. ASSUME NEW q \in Word \ Port PROVE grants'[q] = 0
      BY <2>1, <2>3 DEF IInv, TypeOK, FlagsCount
    <3> QED BY <3>1, <3>2 DEF FlagsCount
  <2>5. /\ ret' \in Call /\ ret'.op = "release" /\ ret'.res = p /\ ret'.arg = p
    BY <1>3, ResultType
  <2> QED
    BY <2>1, <2>3, <2>4, <2>5, Answers
       DEF IInv, TypeOK, FullWhenRefused, CrashOnlyAtBoundary, Port
<1> QED BY <1>1, <1>2, <1>3 DEF ReleasePort

LEMMA StepInv == IInv /\ [Next]_vars => IInv'
<1> SUFFICES ASSUME IInv, [Next]_vars PROVE IInv'
  OBVIOUS
<1>1. CASE Next
  BY <1>1, AquireInv, AcquireInv, ReleaseInv DEF Next
<1>2. CASE UNCHANGED vars
  BY <1>2 DEF vars, IInv, TypeOK, FlagsCount, FullWhenRefused, CrashOnlyAtBoundary
<1> QED BY <1>1, <1>2

-----------------------------------------------------------------------------
(* The strengthening is an invariant of every run of every range. *)
THEOREM Invariance == Spec => []IInv
BY InitInv, StepInv, PTL DEF Spec

THEOREM TypeCorrect == Spec => []TypeOK
BY Invariance, PTL DEF IInv

(* aquire_port and acquire_port of connman.rs never hand out a port that   *)
(* is held, nor one outside the range.                                     *)
THEOREM ExclusiveHolds == Spec => []Exclusive
<1>1. IInv => Exclusive
  BY DEF IInv, TypeOK, FlagsCount, Exclusive
<1> QED BY <1>1, Invariance, PTL

(* aquire_port refuses only when every port is held: no port is lost.      *)
THEOREM NothingLostHolds == Spec => []NothingLost
<1>1. IInv => NothingLost
  BY PortIndex DEF IInv, TypeOK, FlagsCount, FullWhenRefused, NothingLost
<1> QED BY <1>1, Invariance, PTL

(* A call panics only for the end of the range or, releasing, below it.    *)
THEOREM CrashOnlyAtBoundaryHolds == Spec => []CrashOnlyAtBoundary
BY Invariance, PTL DEF IInv

-----------------------------------------------------------------------------
(* The refinement, call by call. *)

(* Setting a clear flag takes a free port out of the pool. *)
LEMMA TakeMaps ==
  ASSUME TypeOK, NEW i \in Index, ~used[i], Mark(i)
  PROVE  /\ First + i \in Port /\ First + i \notin Held
         /\ Held' = Held \cup {First + i}
<1>1. First + i \in Port /\ (First + i) - First = i
  BY PortIndex
<1>2. ASSUME NEW p \in Port
      PROVE  used'[p - First] <=> used[p - First] \/ p = First + i
  <2>1. p - First \in Index /\ (p - First = i <=> p = First + i)
    BY PortIndex, RangeAssumption DEF Port, Index
  <2> QED BY <2>1 DEF Mark, TypeOK
<1> QED BY <1>1, <1>2 DEF Held

(* Clearing the flag of a held port gives it back. *)
LEMMA GiveMaps ==
  ASSUME TypeOK, NEW p \in Port, used[p - First],
         used' = [used EXCEPT ![p - First] = FALSE]
  PROVE  p \in Held /\ Held' = Held \ {p}
<1>1. ASSUME NEW q \in Port
      PROVE  used'[q - First] <=> used[q - First] /\ q # p
  <2>1. q - First \in Index /\ (q - First = p - First <=> q = p)
    BY PortIndex, RangeAssumption DEF Port
  <2> QED BY <2>1 DEF TypeOK
<1> QED BY <1>1 DEF Held

LEMMA AquireMaps == IInv /\ AquirePort => Pool!Next
<1> SUFFICES ASSUME IInv, AquirePort PROVE Pool!Next
  OBVIOUS
<1>1. CASE \E i \in Index : /\ FirstClear(i) /\ Mark(i)
                            /\ Result("aquire", NoArg, (First + i) % U16)
  <2>1. PICK i \in Index : /\ ~used[i] /\ Mark(i)
                           /\ Result("aquire", NoArg, First + i)
    BY <1>1, PortIndex DEF FirstClear
  <2>2. Pool!Take(First + i) /\ First + i \in Port
    BY <2>1, TakeMaps DEF IInv, Result, Pool!Take, Pool!Record
  <2> QED BY <2>2 DEF Pool!Next
<1>2. CASE /\ \A i \in Index : used[i]
           /\ Result("aquire", NoArg, NoPort)
           /\ UNCHANGED << used, grants >>
  <2>1. Held = Port /\ Held' = Held
    BY <1>2, PortIndex DEF Held
  <2>2. Pool!Exhausted
    BY <1>2, <2>1 DEF Result, Pool!Exhausted, Pool!Record
  <2> QED BY <2>2 DEF Pool!Next
<1> QED BY <1>1, <1>2 DEF AquirePort

LEMMA AcquireMaps == ASSUME NEW p \in Word, IInv, AcquirePort(p) PROVE Pool!Next
<1> DEFINE i == p - First
<1>1. CASE i \in Index /\ ~used[i] /\ Mark(i) /\ Result("acquire", p, p)
  <2>1. First + i = p
    BY RangeAssumption DEF Word
  <2>2. Pool!Take(p) /\ p \in Port
    BY <1>1, <2>1, TakeMaps DEF IInv, Result, Pool!Take, Pool!Record
  <2> QED BY <2>2 DEF Pool!Next
<1>2. ASSUME p \in Held \cup (Word \ Port), UNCHANGED used,
             NEW f \in {NoPort, Crash}, Result("acquire", p, f)
      PROVE  Pool!Next
  <2>1. Pool!Refuse(p)
    BY <1>2 DEF Held, Result, Pool!Refuse, Pool!Record
  <2> QED BY <2>1 DEF Pool!Next
<1>3. OutOfRange(p) \/ i \notin Index => p \in Word \ Port
  BY RangeAssumption DEF OutOfRange, Index, Port, Word
<1>4. i \in Index /\ used[i] => p \in Held
  BY PortIndex DEF Held
<1> QED BY <1>1, <1>2, <1>3, <1>4 DEF AcquirePort

LEMMA ReleaseMaps == ASSUME NEW p \in Word, IInv, ReleasePort(p) PROVE Pool!Next
<1>1. ASSUME p \in Word \ Port, UNCHANGED used,
             NEW f \in {NoPort, Crash}, Result("release", p, f)
      PROVE  Pool!Next
  <2>1. Pool!Reject(p)
    BY <1>1 DEF Held, Result, Pool!Reject, Pool!Record
  <2> QED BY <2>1 DEF Pool!Next
<1>2. CASE p > Last \/ ReleaseIndex(p) \notin Index
  <2>1. p \in Word \ Port
    BY <1>2, PortIndex, RangeAssumption DEF Port, Word
  <2>2. /\ UNCHANGED used
        /\ Result("release", p, NoPort) \/ Result("release", p, Crash)
    BY <1>2, RangeAssumption DEF ReleasePort, Word
  <2> QED BY <1>1, <2>1, <2>2
<1>3. CASE p <= Last /\ ReleaseIndex(p) \in Index
  <2>1. /\ grants[p] > 0 \/ p \notin Port
        /\ used' = [used EXCEPT ![ReleaseIndex(p)] = FALSE]
        /\ Result("release", p, p)
    BY <1>3, RangeAssumption DEF ReleasePort, Word
  <2>2. p \in Port /\ ReleaseIndex(p) = p - First
    BY <1>3, ReleaseOutside, PortIndex
  <2>3. used[p - First]
    BY <2>1, <2>2 DEF IInv, FlagsCount
  <2>4. Pool!Give(p)
    BY <2>1, <2>2, <2>3, GiveMaps DEF IInv, Result, Pool!Give, Pool!Record
  <2> QED BY <2>2, <2>4 DEF Pool!Next
<1> QED BY <1>2, <1>3, RangeAssumption DEF Word

LEMMA StepMaps == IInv /\ [Next]_vars => [Pool!Next]_(Pool!vars)
<1> SUFFICES ASSUME IInv, [Next]_vars PROVE Pool!Next \/ UNCHANGED Pool!vars
  OBVIOUS
<1>1. CASE UNCHANGED vars
  BY <1>1 DEF vars, Held, Pool!vars
<1>2. CASE Next
  BY <1>2, AquireMaps, AcquireMaps, ReleaseMaps DEF Next
<1> QED BY <1>1, <1>2

(* PortRange implements PortPool: whatever the range, every call takes a   *)
(* port nobody holds, gives a held one back, or fails for a reason and     *)
(* changes nothing.                                                        *)
THEOREM Refinement == Spec => ImplementsPool
<1>1. Init => Pool!Init
  BY PortIndex DEF Init, Held, Pool!Init, Pool!Record
<1>2. IInv /\ [Next]_vars => [Pool!Next]_(Pool!vars)
  BY StepMaps
<1> QED BY <1>1, <1>2, Invariance, PTL DEF Spec, ImplementsPool, Pool!Spec
=============================================================================
