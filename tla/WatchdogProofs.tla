--------------------------- MODULE WatchdogProofs ---------------------------
(***************************************************************************)
(* Proofs about Watchdog, for any number of operators, any thresholds and  *)
(* any number of faults.                                                   *)
(***************************************************************************)
EXTENDS Watchdog, TLAPS

FaultBound == faults =< MaxFaults

(* The type invariant, in parts. *)
NumberType ==
  /\ switch \in {0, 1} /\ flag \in {0, 1}
  /\ rearms \in Nat /\ streak \in Nat /\ faults \in Nat

FlagType ==
  /\ manual_off \in BOOLEAN /\ watchdog_off \in BOOLEAN
  /\ attached \in BOOLEAN /\ unit \in BOOLEAN

PcType == pc \in [Proc -> Label]

CycleType ==
  /\ canary_ok \in BOOLEAN /\ lifeline_ok \in BOOLEAN
  /\ lifeline_all_ok \in BOOLEAN
  /\ ks \in {"", "0", "1"} /\ reset \in BOOLEAN

CountType ==
  canary_fail \in Nat /\ lifeline_fail \in Nat /\ clean \in Nat

(* What a cycle's probes yield. *)
LEMMA ProbeType ==
  CanaryUp \in BOOLEAN /\ SomeLifeline \in BOOLEAN /\ EveryLifeline \in BOOLEAN
  BY DEF CanaryUp, SomeLifeline, EveryLifeline

(* Each step keeps the type of the numbers. *)
LEMMA NumberTypeStep ==
  NumberType /\ [Next]_vars => NumberType'
  <1> SUFFICES ASSUME NumberType, [Next]_vars PROVE NumberType'
    OBVIOUS
  <1> USE TripAssumption DEF TripAssumption, NumberType
  <1>1. ASSUME NEW p \in Operator, OffRequest(p) PROVE NumberType'
    BY <1>1 DEF OffRequest, config, history
  <1>2. ASSUME NEW p \in Operator, OnRequest(p) PROVE NumberType'
    BY <1>2 DEF OnRequest, config, history
  <1>3. ASSUME NEW p \in Proc, OffSet(p) PROVE NumberType'
    BY <1>3 DEF OffSet, markers, xdp, count, cycle, history, Goto, Fault,
      Works, OffExit
  <1>4. ASSUME NEW p \in Proc, OffRead(p) PROVE NumberType'
    BY <1>4 DEF OffRead, config, markers, xdp, count, cycle, history, Goto,
      Fault, Works, OffExit
  <1>5. ASSUME NEW p \in Proc, OffTouch(p) PROVE NumberType'
    BY <1>5 DEF OffTouch, config
  <1>6. ASSUME NEW p \in Proc, OnSet(p) PROVE NumberType'
    BY <1>6 DEF OnSet, markers, xdp, count, cycle, history, Goto, Fault,
      Works, OnExit
  <1>7. ASSUME NEW p \in Proc, OnRead(p) PROVE NumberType'
    BY <1>7 DEF OnRead, config, markers, xdp, count, cycle, history, Goto,
      Fault, Works, OnExit
  <1>8. ASSUME NEW p \in Proc, OnRemove(p) PROVE NumberType'
    BY <1>8 DEF OnRemove, config
  <1>9. ASSUME NEW p \in Proc, Kill(p) PROVE NumberType'
    BY <1>9 DEF Kill, config, history, Fault
  <1>10. CASE CycleStart
    BY <1>10 DEF CycleStart, config, history
  <1>11. CASE ReadSwitch
    <2>1. UNCHANGED <<switch, flag, rearms, streak>> /\ (Works \/ Fault)
      BY <1>11, Zenon DEF ReadSwitch, config, history
    <2>2. QED
      BY <2>1 DEF Works, Fault
  <1>12. CASE ReadAttached
    BY <1>12 DEF ReadAttached, config, Fault, Works
  <1>13. CASE Tally
    BY <1>13 DEF Tally, config, Bump
  <1>14. CASE Armed
    BY <1>14 DEF Armed, config, history
  <1>15. CASE SoftOffStop
    BY <1>15 DEF SoftOffStop, config, markers, count, cycle, history, Goto,
      Fault, Works, StopUnit
  <1>16. CASE Tripped
    BY <1>16 DEF Tripped, config, history
  <1>17. CASE Latched
    BY <1>17 DEF Latched, config, markers, xdp, count, cycle, history, Goto,
      Fault, Works, StopUnit
  <1>18. CASE Verify
    BY <1>18 DEF Verify, config, history, Fault, Works
  <1>19. CASE Check
    BY <1>19 DEF Check, history, config, Fault, Works
  <1>20. CASE Record
    BY <1>20 DEF Record, history, Fault, Works
  <1>21. CASE TallyCut
    BY <1>21 DEF TallyCut, config, history, Fault
  <1>22. CASE Attach
    BY <1>22 DEF Attach, config, history, Fault, Works
  <1>23. CASE Detach
    BY <1>23 DEF Detach, config, markers, count, cycle, history, Fault, Works,
      StopUnit
  <1>24. CASE Reboot
    BY <1>24 DEF Reboot, Fault
  <1>25. CASE NetworkChange
    BY <1>25 DEF NetworkChange, config, history
  <1>26. CASE UNCHANGED vars
    BY <1>26 DEF vars, config, history
  <1>27. QED
    BY <1>1, <1>2, <1>3, <1>4, <1>5, <1>6, <1>7, <1>8, <1>9, <1>10, <1>11,
      <1>12, <1>13, <1>14, <1>15, <1>16, <1>17, <1>18, <1>19, <1>20, <1>21,
      <1>22, <1>23, <1>24, <1>25, <1>26 DEF Next, CommandStep, CycleStep

(* Each step keeps the type of the markers and flags. *)
LEMMA FlagTypeStep ==
  FlagType /\ [Next]_vars => FlagType'
  <1> SUFFICES ASSUME FlagType, [Next]_vars PROVE FlagType'
    OBVIOUS
  <1> USE DEF FlagType
  <1>1. ASSUME NEW p \in Operator, OffRequest(p) PROVE FlagType'
    BY <1>1 DEF OffRequest, markers, xdp, history
  <1>2. ASSUME NEW p \in Operator, OnRequest(p) PROVE FlagType'
    BY <1>2 DEF OnRequest, markers, xdp, history
  <1>3. ASSUME NEW p \in Proc, OffSet(p) PROVE FlagType'
    BY <1>3 DEF OffSet, markers, xdp, history
  <1>4. ASSUME NEW p \in Proc, OffRead(p) PROVE FlagType'
    BY <1>4 DEF OffRead, markers, xdp, history
  <1>5. ASSUME NEW p \in Proc, OffTouch(p) PROVE FlagType'
    BY <1>5 DEF OffTouch, config, xdp
  <1>6. ASSUME NEW p \in Proc, OnSet(p) PROVE FlagType'
    BY <1>6 DEF OnSet, markers, xdp, history
  <1>7. ASSUME NEW p \in Proc, OnRead(p) PROVE FlagType'
    BY <1>7 DEF OnRead, markers, xdp, history
  <1>8. ASSUME NEW p \in Proc, OnRemove(p) PROVE FlagType'
    BY <1>8 DEF OnRemove, xdp
  <1>9. ASSUME NEW p \in Proc, Kill(p) PROVE FlagType'
    BY <1>9 DEF Kill, markers, xdp, history
  <1>10. CASE CycleStart
    BY <1>10 DEF CycleStart, markers, xdp, history
  <1>11. CASE ReadSwitch
    BY <1>11 DEF ReadSwitch, markers, xdp, history
  <1>12. CASE ReadAttached
    BY <1>12 DEF ReadAttached, markers, xdp
  <1>13. CASE Tally
    BY <1>13 DEF Tally, markers, xdp
  <1>14. CASE Armed
    BY <1>14 DEF Armed, markers, xdp, history
  <1>15. CASE SoftOffStop
    BY <1>15 DEF SoftOffStop, markers, history, StopUnit
  <1>16. CASE Tripped
    BY <1>16 DEF Tripped, markers, xdp, history
  <1>17. CASE Latched
    BY <1>17 DEF Latched, markers, xdp, history, StopUnit
  <1>18. CASE Verify
    BY <1>18 DEF Verify, markers, history
  <1>19. CASE Check
    BY <1>19 DEF Check, history, markers, xdp
  <1>20. CASE Record
    BY <1>20 DEF Record, markers, xdp, history
  <1>21. CASE TallyCut
    BY <1>21 DEF TallyCut, markers, xdp, history
  <1>22. CASE Attach
    BY <1>22 DEF Attach, markers, history
  <1>23. CASE Detach
    BY <1>23 DEF Detach, markers, history, StopUnit
  <1>24. CASE Reboot
    BY <1>24 DEF Reboot
  <1>25. CASE NetworkChange
    BY <1>25 DEF NetworkChange, markers, xdp, history
  <1>26. CASE UNCHANGED vars
    BY <1>26 DEF vars, history, markers, xdp
  <1>27. QED
    BY <1>1, <1>2, <1>3, <1>4, <1>5, <1>6, <1>7, <1>8, <1>9, <1>10, <1>11,
      <1>12, <1>13, <1>14, <1>15, <1>16, <1>17, <1>18, <1>19, <1>20, <1>21,
      <1>22, <1>23, <1>24, <1>25, <1>26 DEF Next, CommandStep, CycleStep

(* Each step keeps the labels of the processes. *)
LEMMA PcTypeStep ==
  PcType /\ [Next]_vars => PcType'
  <1> SUFFICES ASSUME PcType, [Next]_vars PROVE PcType'
    OBVIOUS
  <1> USE DEF Proc, Label, Rearming, PcType
  <1>1. ASSUME NEW p \in Operator, OffRequest(p) PROVE PcType'
    BY <1>1 DEF OffRequest, Goto
  <1>2. ASSUME NEW p \in Operator, OnRequest(p) PROVE PcType'
    BY <1>2 DEF OnRequest, Goto
  <1>3. ASSUME NEW p \in Proc, OffSet(p) PROVE PcType'
    BY <1>3 DEF OffSet, Goto, OffExit
  <1>4. ASSUME NEW p \in Proc, OffRead(p) PROVE PcType'
    BY <1>4 DEF OffRead, Goto, OffExit
  <1>5. ASSUME NEW p \in Proc, OffTouch(p) PROVE PcType'
    BY <1>5 DEF OffTouch, Goto, OffExit
  <1>6. ASSUME NEW p \in Proc, OnSet(p) PROVE PcType'
    BY <1>6 DEF OnSet, Goto, OnExit
  <1>7. ASSUME NEW p \in Proc, OnRead(p) PROVE PcType'
    BY <1>7 DEF OnRead, Goto, OnExit
  <1>8. ASSUME NEW p \in Proc, OnRemove(p) PROVE PcType'
    BY <1>8 DEF OnRemove, Goto, OnExit
  <1>9. ASSUME NEW p \in Proc, Kill(p) PROVE PcType'
    BY <1>9 DEF Kill, Goto
  <1>10. CASE CycleStart
    BY <1>10 DEF CycleStart, Goto
  <1>11. CASE ReadSwitch
    BY <1>11 DEF ReadSwitch, Goto
  <1>12. CASE ReadAttached
    BY <1>12 DEF ReadAttached, Goto, CycleEnd
  <1>13. CASE Tally
    BY <1>13 DEF Tally, Goto
  <1>14. CASE Armed
    BY <1>14 DEF Armed, Goto, CycleEnd
  <1>15. CASE SoftOffStop
    BY <1>15 DEF SoftOffStop, Goto
  <1>16. CASE Tripped
    BY <1>16 DEF Tripped, Goto, CycleEnd
  <1>17. CASE Latched
    BY <1>17 DEF Latched, Goto
  <1>18. CASE Verify
    BY <1>18 DEF Verify, Goto
  <1>19. CASE Check
    BY <1>19 DEF Check, history, Goto, CycleEnd
  <1>20. CASE Record
    BY <1>20 DEF Record, Goto, CycleEnd
  <1>21. CASE TallyCut
    BY <1>21 DEF TallyCut, Goto, CycleEnd
  <1>22. CASE Attach
    BY <1>22 DEF Attach
  <1>23. CASE Detach
    BY <1>23 DEF Detach
  <1>24. CASE Reboot
    BY <1>24 DEF Reboot
  <1>25. CASE NetworkChange
    BY <1>25 DEF NetworkChange
  <1>26. CASE UNCHANGED vars
    BY <1>26 DEF vars
  <1>27. QED
    BY <1>1, <1>2, <1>3, <1>4, <1>5, <1>6, <1>7, <1>8, <1>9, <1>10, <1>11,
      <1>12, <1>13, <1>14, <1>15, <1>16, <1>17, <1>18, <1>19, <1>20, <1>21,
      <1>22, <1>23, <1>24, <1>25, <1>26 DEF Next, CommandStep, CycleStep

(* Each step keeps the type of a cycle's variables. *)
LEMMA CycleTypeStep ==
  CycleType /\ [Next]_vars => CycleType'
  <1> SUFFICES ASSUME CycleType, [Next]_vars PROVE CycleType'
    OBVIOUS
  <1> USE DEF CycleType
  <1>1. ASSUME NEW p \in Operator, OffRequest(p) PROVE CycleType'
    BY <1>1 DEF OffRequest, cycle
  <1>2. ASSUME NEW p \in Operator, OnRequest(p) PROVE CycleType'
    BY <1>2 DEF OnRequest, cycle
  <1>3. ASSUME NEW p \in Proc, OffSet(p) PROVE CycleType'
    BY <1>3 DEF OffSet, cycle
  <1>4. ASSUME NEW p \in Proc, OffRead(p) PROVE CycleType'
    BY <1>4 DEF OffRead, cycle
  <1>5. ASSUME NEW p \in Proc, OffTouch(p) PROVE CycleType'
    BY <1>5 DEF OffTouch, cycle
  <1>6. ASSUME NEW p \in Proc, OnSet(p) PROVE CycleType'
    BY <1>6 DEF OnSet, cycle
  <1>7. ASSUME NEW p \in Proc, OnRead(p) PROVE CycleType'
    BY <1>7 DEF OnRead, cycle
  <1>8. ASSUME NEW p \in Proc, OnRemove(p) PROVE CycleType'
    BY <1>8 DEF OnRemove, cycle
  <1>9. ASSUME NEW p \in Proc, Kill(p) PROVE CycleType'
    BY <1>9 DEF Kill, cycle, ForgetCycle
  <1>10. CASE CycleStart
    <2>1. canary_ok' = CanaryUp /\ lifeline_ok' = SomeLifeline
          /\ lifeline_all_ok' = EveryLifeline /\ ks' = "" /\ reset' = FALSE
      BY <1>10, Zenon DEF CycleStart
    <2>2. QED
      BY <2>1, ProbeType, Zenon
  <1>11. CASE ReadSwitch
    BY <1>11 DEF ReadSwitch, SwitchText
  <1>12. CASE ReadAttached
    BY <1>12 DEF ReadAttached, cycle, ForgetCycle, CycleEnd
  <1>13. CASE Tally
    BY <1>13 DEF Tally, cycle
  <1>14. CASE Armed
    BY <1>14 DEF Armed, cycle, ForgetCycle, CycleEnd
  <1>15. CASE SoftOffStop
    BY <1>15 DEF SoftOffStop, cycle
  <1>16. CASE Tripped
    BY <1>16 DEF Tripped, ForgetCycle, CycleEnd
  <1>17. CASE Latched
    BY <1>17 DEF Latched, cycle
  <1>18. CASE Verify
    BY <1>18 DEF Verify, cycle
  <1>19. CASE Check
    BY <1>19 DEF Check, history, cycle, ForgetCycle, CycleEnd
  <1>20. CASE Record
    BY <1>20 DEF Record, ForgetCycle, CycleEnd
  <1>21. CASE TallyCut
    BY <1>21 DEF TallyCut, ForgetCycle, CycleEnd
  <1>22. CASE Attach
    BY <1>22 DEF Attach, cycle
  <1>23. CASE Detach
    BY <1>23 DEF Detach, cycle
  <1>24. CASE Reboot
    BY <1>24 DEF Reboot, ForgetCycle
  <1>25. CASE NetworkChange
    BY <1>25 DEF NetworkChange, cycle
  <1>26. CASE UNCHANGED vars
    BY <1>26 DEF vars, cycle
  <1>27. QED
    BY <1>1, <1>2, <1>3, <1>4, <1>5, <1>6, <1>7, <1>8, <1>9, <1>10, <1>11,
      <1>12, <1>13, <1>14, <1>15, <1>16, <1>17, <1>18, <1>19, <1>20, <1>21,
      <1>22, <1>23, <1>24, <1>25, <1>26 DEF Next, CommandStep, CycleStep

(* Each step keeps the type of the counters. *)
LEMMA CountTypeStep ==
  CountType /\ [Next]_vars => CountType'
  <1> SUFFICES ASSUME CountType, [Next]_vars PROVE CountType'
    OBVIOUS
  <1> USE TripAssumption DEF TripAssumption, CountType
  <1>1. ASSUME NEW p \in Operator, OffRequest(p) PROVE CountType'
    BY <1>1 DEF OffRequest, count
  <1>2. ASSUME NEW p \in Operator, OnRequest(p) PROVE CountType'
    BY <1>2 DEF OnRequest, count
  <1>3. ASSUME NEW p \in Proc, OffSet(p) PROVE CountType'
    BY <1>3 DEF OffSet, count
  <1>4. ASSUME NEW p \in Proc, OffRead(p) PROVE CountType'
    BY <1>4 DEF OffRead, count
  <1>5. ASSUME NEW p \in Proc, OffTouch(p) PROVE CountType'
    BY <1>5 DEF OffTouch, count
  <1>6. ASSUME NEW p \in Proc, OnSet(p) PROVE CountType'
    BY <1>6 DEF OnSet, count
  <1>7. ASSUME NEW p \in Proc, OnRead(p) PROVE CountType'
    BY <1>7 DEF OnRead, count
  <1>8. ASSUME NEW p \in Proc, OnRemove(p) PROVE CountType'
    BY <1>8 DEF OnRemove, count
  <1>9. ASSUME NEW p \in Proc, Kill(p) PROVE CountType'
    BY <1>9 DEF Kill, count
  <1>10. CASE CycleStart
    BY <1>10 DEF CycleStart, count
  <1>11. CASE ReadSwitch
    BY <1>11 DEF ReadSwitch, count
  <1>12. CASE ReadAttached
    BY <1>12 DEF ReadAttached, count, ZeroCounts
  <1>13. CASE Tally
    BY <1>13 DEF Tally, Bump, NewCanary, NewLifeline, NewClean
  <1>14. CASE Armed
    BY <1>14 DEF Armed, count
  <1>15. CASE SoftOffStop
    BY <1>15 DEF SoftOffStop, count
  <1>16. CASE Tripped
    BY <1>16 DEF Tripped
  <1>17. CASE Latched
    BY <1>17 DEF Latched, count
  <1>18. CASE Verify
    BY <1>18 DEF Verify
  <1>19. CASE Check
    BY <1>19 DEF Check, history, count
  <1>20. CASE Record
    BY <1>20 DEF Record, count
  <1>21. CASE TallyCut
    BY <1>21 DEF TallyCut, Bump, NewCanary, NewLifeline
  <1>22. CASE Attach
    BY <1>22 DEF Attach, count
  <1>23. CASE Detach
    BY <1>23 DEF Detach, count
  <1>24. CASE Reboot
    BY <1>24 DEF Reboot, ZeroCounts
  <1>25. CASE NetworkChange
    BY <1>25 DEF NetworkChange, count
  <1>26. CASE UNCHANGED vars
    BY <1>26 DEF vars, count
  <1>27. QED
    BY <1>1, <1>2, <1>3, <1>4, <1>5, <1>6, <1>7, <1>8, <1>9, <1>10, <1>11,
      <1>12, <1>13, <1>14, <1>15, <1>16, <1>17, <1>18, <1>19, <1>20, <1>21,
      <1>22, <1>23, <1>24, <1>25, <1>26 DEF Next, CommandStep, CycleStep

(* Each step keeps the faults within their bound. *)
LEMMA FaultBoundStep ==
  NumberType /\ FaultBound /\ [Next]_vars => FaultBound'
  <1> SUFFICES ASSUME NumberType, FaultBound, [Next]_vars PROVE FaultBound'
    OBVIOUS
  <1> USE TripAssumption DEF TripAssumption, NumberType, FaultBound
  <1>1. ASSUME NEW p \in Operator, OffRequest(p) PROVE FaultBound'
    BY <1>1 DEF OffRequest
  <1>2. ASSUME NEW p \in Operator, OnRequest(p) PROVE FaultBound'
    BY <1>2 DEF OnRequest
  <1>3. ASSUME NEW p \in Proc, OffSet(p) PROVE FaultBound'
    <2>1. Works \/ Fault
      BY <1>3, Zenon DEF OffSet
    <2>2. QED
      BY <2>1 DEF Works, Fault
  <1>4. ASSUME NEW p \in Proc, OffRead(p) PROVE FaultBound'
    <2>1. Works \/ Fault
      BY <1>4, Zenon DEF OffRead
    <2>2. QED
      BY <2>1 DEF Works, Fault
  <1>5. ASSUME NEW p \in Proc, OffTouch(p) PROVE FaultBound'
    BY <1>5 DEF OffTouch
  <1>6. ASSUME NEW p \in Proc, OnSet(p) PROVE FaultBound'
    <2>1. Works \/ Fault
      BY <1>6, Zenon DEF OnSet
    <2>2. QED
      BY <2>1 DEF Works, Fault
  <1>7. ASSUME NEW p \in Proc, OnRead(p) PROVE FaultBound'
    <2>1. Works \/ Fault
      BY <1>7, Zenon DEF OnRead
    <2>2. QED
      BY <2>1 DEF Works, Fault
  <1>8. ASSUME NEW p \in Proc, OnRemove(p) PROVE FaultBound'
    BY <1>8 DEF OnRemove
  <1>9. ASSUME NEW p \in Proc, Kill(p) PROVE FaultBound'
    BY <1>9 DEF Kill, Fault
  <1>10. CASE CycleStart
    BY <1>10 DEF CycleStart
  <1>11. CASE ReadSwitch
    <2>1. Works \/ Fault
      BY <1>11, Zenon DEF ReadSwitch
    <2>2. QED
      BY <2>1 DEF Works, Fault
  <1>12. CASE ReadAttached
    BY <1>12 DEF ReadAttached, Fault, Works
  <1>13. CASE Tally
    BY <1>13 DEF Tally
  <1>14. CASE Armed
    BY <1>14 DEF Armed
  <1>15. CASE SoftOffStop
    <2>1. Works \/ Fault
      BY <1>15, Zenon DEF SoftOffStop, StopUnit
    <2>2. QED
      BY <2>1 DEF Works, Fault
  <1>16. CASE Tripped
    BY <1>16 DEF Tripped
  <1>17. CASE Latched
    <2>1. Works \/ Fault
      BY <1>17, Zenon DEF Latched, StopUnit
    <2>2. QED
      BY <2>1 DEF Works, Fault
  <1>18. CASE Verify
    BY <1>18 DEF Verify, Fault, Works
  <1>19. CASE Check
    BY <1>19 DEF Check, history, Fault, Works
  <1>20. CASE Record
    BY <1>20 DEF Record, Fault, Works
  <1>21. CASE TallyCut
    BY <1>21 DEF TallyCut, Fault
  <1>22. CASE Attach
    BY <1>22 DEF Attach, Fault, Works
  <1>23. CASE Detach
    <2>1. Works \/ Fault
      BY <1>23, Zenon DEF Detach, StopUnit
    <2>2. QED
      BY <2>1 DEF Works, Fault
  <1>24. CASE Reboot
    BY <1>24 DEF Reboot, Fault
  <1>25. CASE NetworkChange
    BY <1>25 DEF NetworkChange
  <1>26. CASE UNCHANGED vars
    BY <1>26 DEF vars
  <1>27. QED
    BY <1>1, <1>2, <1>3, <1>4, <1>5, <1>6, <1>7, <1>8, <1>9, <1>10, <1>11,
      <1>12, <1>13, <1>14, <1>15, <1>16, <1>17, <1>18, <1>19, <1>20, <1>21,
      <1>22, <1>23, <1>24, <1>25, <1>26 DEF Next, CommandStep, CycleStep

(* Each step keeps the re-arms within the flag and the faults. *)
LEMMA RearmInvStep ==
  NumberType /\ PcType /\ RearmInv /\ [Next]_vars => RearmInv'
  <1> SUFFICES ASSUME NumberType, PcType, RearmInv, [Next]_vars PROVE RearmInv'
    OBVIOUS
  <1> USE ProcAssumption DEF ProcAssumption, Proc, Rearming, NumberType,
    PcType, RearmInv
  <1>1. ASSUME NEW p \in Operator, OffRequest(p) PROVE RearmInv'
    BY <1>1 DEF OffRequest, config, history, Goto
  <1>2. ASSUME NEW p \in Operator, OnRequest(p) PROVE RearmInv'
    BY <1>2 DEF OnRequest, config, history, Goto
  <1>3. ASSUME NEW p \in Proc, OffSet(p) PROVE RearmInv'
    BY <1>3 DEF OffSet, history, Goto, Fault, Works, OffExit
  <1>4. ASSUME NEW p \in Proc, OffRead(p) PROVE RearmInv'
    BY <1>4 DEF OffRead, config, history, Goto, Fault, Works, OffExit
  <1>5. ASSUME NEW p \in Proc, OffTouch(p) PROVE RearmInv'
    BY <1>5 DEF OffTouch, config, Goto, OffExit
  <1>6. ASSUME NEW p \in Proc, OnSet(p) PROVE RearmInv'
    BY <1>6 DEF OnSet, history, Goto, Fault, Works, OnExit
  <1>7. ASSUME NEW p \in Proc, OnRead(p) PROVE RearmInv'
    BY <1>7 DEF OnRead, config, history, Goto, Fault, Works, OnExit
  <1>8. ASSUME NEW p \in Proc, OnRemove(p) PROVE RearmInv'
    BY <1>8 DEF OnRemove, config, Goto, OnExit
  <1>9. ASSUME NEW p \in Proc, Kill(p) PROVE RearmInv'
    BY <1>9 DEF Kill, config, history, Goto, Fault
  <1>10. CASE CycleStart
    BY <1>10 DEF CycleStart, config, history, Goto
  <1>11. CASE ReadSwitch
    <2>1. UNCHANGED <<switch, flag, rearms, streak>> /\ (Works \/ Fault)
      BY <1>11, Zenon DEF ReadSwitch, config, history
    <2>2. pc[Wd] = "switch" /\ pc' = [pc EXCEPT ![Wd] = "listing"]
      BY <1>11, Zenon DEF ReadSwitch, Goto
    <2>3. QED
      BY <2>1, <2>2 DEF Works, Fault
  <1>12. CASE ReadAttached
    BY <1>12 DEF ReadAttached, config, Goto, Fault, Works, CycleEnd
  <1>13. CASE Tally
    BY <1>13 DEF Tally, config, Goto
  <1>14. CASE Armed
    BY <1>14 DEF Armed, config, history, Goto, CycleEnd
  <1>15. CASE SoftOffStop
    BY <1>15 DEF SoftOffStop, config, markers, count, cycle, history, Goto,
      Fault, Works, StopUnit
  <1>16. CASE Tripped
    BY <1>16 DEF Tripped, config, history, Goto, CycleEnd
  <1>17. CASE Latched
    BY <1>17 DEF Latched, config, markers, xdp, count, cycle, history, Goto,
      Fault, Works, StopUnit
  <1>18. CASE Verify
    BY <1>18 DEF Verify, config, history, Goto, Fault, Works
  <1>19. CASE Check
    BY <1>19 DEF Check, history, config, Goto, Fault, Works, CycleEnd, MayRearm
  <1>20. CASE Record
    BY <1>20 DEF Record, history, Goto, Fault, Works, CycleEnd
  <1>21. CASE TallyCut
    BY <1>21 DEF TallyCut, config, history, Goto, Fault, CycleEnd
  <1>22. CASE Attach
    BY <1>22 DEF Attach, config, history, Fault, Works
  <1>23. CASE Detach
    BY <1>23 DEF Detach, config, markers, count, cycle, history, Fault, Works,
      StopUnit
  <1>24. CASE Reboot
    BY <1>24 DEF Reboot, Fault
  <1>25. CASE NetworkChange
    BY <1>25 DEF NetworkChange, config, history
  <1>26. CASE UNCHANGED vars
    BY <1>26 DEF vars, config, history
  <1>27. QED
    BY <1>1, <1>2, <1>3, <1>4, <1>5, <1>6, <1>7, <1>8, <1>9, <1>10, <1>11,
      <1>12, <1>13, <1>14, <1>15, <1>16, <1>17, <1>18, <1>19, <1>20, <1>21,
      <1>22, <1>23, <1>24, <1>25, <1>26 DEF Next, CommandStep, CycleStep

(* Each step keeps the clean counter behind the cycles since the soft-off. *)
LEMMA StreakInvStep ==
  NumberType /\ PcType /\ CountType /\ StreakInv /\ [Next]_vars => StreakInv'
  <1> SUFFICES ASSUME NumberType, PcType, CountType, StreakInv, [Next]_vars PROVE StreakInv'
    OBVIOUS
  <1> USE ProcAssumption, TripAssumption DEF ProcAssumption, TripAssumption,
    Proc, NumberType, PcType, CountType, StreakInv
  <1>1. ASSUME NEW p \in Operator, OffRequest(p) PROVE StreakInv'
    BY <1>1 DEF OffRequest, count, cycle, history, Goto
  <1>2. ASSUME NEW p \in Operator, OnRequest(p) PROVE StreakInv'
    BY <1>2 DEF OnRequest, count, cycle, history, Goto
  <1>3. ASSUME NEW p \in Proc, OffSet(p) PROVE StreakInv'
    BY <1>3 DEF OffSet, count, cycle, history, Goto, OffExit
  <1>4. ASSUME NEW p \in Proc, OffRead(p) PROVE StreakInv'
    BY <1>4 DEF OffRead, count, cycle, history, Goto, OffExit
  <1>5. ASSUME NEW p \in Proc, OffTouch(p) PROVE StreakInv'
    <2>1. UNCHANGED <<lifeline_ok, lifeline_all_ok, clean>>
      BY <1>5, Zenon DEF OffTouch, count, cycle
    <2>2. pc[p] = "off_touch"
          /\ pc' = [pc EXCEPT ![p] = IF p = Wd THEN "tripped" ELSE "idle"]
      BY <1>5 DEF OffTouch, OffExit, Goto
    <2>3. clean' =< streak'
      <3>1. CASE p = Wd
        <4>1. clean = 0
          BY <2>2, <3>1
        <4>2. streak' = 0
          BY <1>5, <3>1, Zenon DEF OffTouch
        <4>3. QED
          BY <2>1, <4>1, <4>2
      <3>2. CASE p # Wd
        BY <1>5, <2>1, <3>2 DEF OffTouch
      <3>3. QED
        BY <3>1, <3>2
    <2>4. pc'[Wd] = "armed" \/ pc'[Wd] \in {"off_set", "off_read", "off_touch"}
          => p # Wd /\ pc'[Wd] = pc[Wd]
      BY <2>2
    <2>5. UNCHANGED <<canary_fail, lifeline_fail>>
      BY <1>5, Zenon DEF OffTouch, count
    <2>6. QED
      BY <2>1, <2>3, <2>4, <2>5
  <1>6. ASSUME NEW p \in Proc, OnSet(p) PROVE StreakInv'
    BY <1>6 DEF OnSet, count, cycle, history, Goto, OnExit
  <1>7. ASSUME NEW p \in Proc, OnRead(p) PROVE StreakInv'
    BY <1>7 DEF OnRead, count, cycle, history, Goto, OnExit
  <1>8. ASSUME NEW p \in Proc, OnRemove(p) PROVE StreakInv'
    BY <1>8 DEF OnRemove, count, cycle, Goto, OnExit
  <1>9. ASSUME NEW p \in Proc, Kill(p) PROVE StreakInv'
    BY <1>9 DEF Kill, count, cycle, history, Goto, ForgetCycle
  <1>10. CASE CycleStart
    BY <1>10 DEF CycleStart, count, history, SomeLifeline, EveryLifeline, Goto
  <1>11. CASE ReadSwitch
    BY <1>11 DEF ReadSwitch, count, history, Goto
  <1>12. CASE ReadAttached
    <2>1. pc'[Wd] \in {"tally", "idle"}
      BY <1>12 DEF ReadAttached, CycleEnd, Goto
    <2>2. \/ UNCHANGED <<count, cycle, streak>>
          \/ clean' = 0 /\ streak' = 0 /\ lifeline_all_ok' = FALSE
      BY <1>12, Zenon DEF ReadAttached, CycleEnd, ForgetCycle, ZeroCounts
    <2>3. (lifeline_all_ok' => lifeline_ok') /\ clean' =< streak'
      BY <2>2 DEF count, cycle
    <2>4. QED
      BY <2>1, <2>3
  <1>13. CASE Tally
    <2>1. UNCHANGED <<lifeline_ok, lifeline_all_ok>>
      BY <1>13, Zenon DEF Tally, cycle
    <2>2. clean' = NewClean /\ canary_fail' = NewCanary
          /\ lifeline_fail' = NewLifeline
          /\ streak' = IF CleanCycle THEN Bump(streak, CleanRearm) ELSE 0
      BY <1>13, Zenon DEF Tally
    <2>3. clean' =< streak'
      <3>1. CASE CleanCycle
        BY <2>2, <3>1 DEF NewClean, Bump
      <3>2. CASE ~CleanCycle
        BY <2>2, <3>2 DEF NewClean
      <3>3. QED
        BY <3>1, <3>2
    <2>4. canary_fail' > 0 \/ lifeline_fail' > 0 => clean' = 0
      <3>1. CASE CleanCycle
        BY <2>2, <3>1 DEF CleanCycle, NewCanary, NewLifeline
      <3>2. CASE ~CleanCycle
        BY <2>2, <3>2 DEF NewClean
      <3>3. QED
        BY <3>1, <3>2
    <2>5. pc'[Wd] \in {"armed", "latched"}
      BY <1>13 DEF Tally, Goto
    <2>6. QED
      BY <2>1, <2>3, <2>4, <2>5
  <1>14. CASE Armed
    <2>1. UNCHANGED <<canary_fail, lifeline_fail, clean, streak>>
          /\ pc[Wd] = "armed"
      BY <1>14, Zenon DEF Armed, count, history
    <2>2. \/ UNCHANGED <<lifeline_ok, lifeline_all_ok>>
          \/ lifeline_all_ok' = FALSE
      BY <1>14, Zenon DEF Armed, cycle, CycleEnd, ForgetCycle
    <2>3. \/ /\ canary_fail >= CanaryTrip \/ lifeline_fail >= LifelineTrip
             /\ pc' = [pc EXCEPT ![Wd] = "off_set"]
          \/ pc' = [pc EXCEPT ![Wd] = "idle"]
      BY <1>14, Zenon DEF Armed, CycleEnd, Goto
    <2>4. pc'[Wd] = "off_set" => clean = 0
      BY <2>1, <2>3
    <2>5. pc'[Wd] \in {"off_set", "idle"}
      BY <2>3
    <2>6. QED
      BY <2>1, <2>2, <2>4, <2>5
  <1>15. CASE SoftOffStop
    BY <1>15 DEF SoftOffStop, count, cycle, history, Goto
  <1>16. CASE Tripped
    BY <1>16 DEF Tripped, history, Goto, ForgetCycle, CycleEnd
  <1>17. CASE Latched
    BY <1>17 DEF Latched, count, cycle, history, Goto
  <1>18. CASE Verify
    BY <1>18 DEF Verify, cycle, history, Goto
  <1>19. CASE Check
    <2>1. lifeline_all_ok' => lifeline_ok'
      BY <1>19 DEF Check, history, count, cycle, Goto, ForgetCycle, CycleEnd
    <2>2. clean' =< streak'
      BY <1>19 DEF Check, history, count, cycle, Goto, ForgetCycle, CycleEnd
    <2>3. pc'[Wd] = "armed" /\ (canary_fail' > 0 \/ lifeline_fail' > 0) => clean' = 0
      BY <1>19 DEF Check, history, count, cycle, Goto, ForgetCycle, CycleEnd
    <2>4. pc'[Wd] \in {"off_set", "off_read", "off_touch"} => clean' = 0
      BY <1>19 DEF Check, history, count, cycle, Goto, ForgetCycle, CycleEnd
    <2>5. QED
      BY <2>1, <2>2, <2>3, <2>4
  <1>20. CASE Record
    BY <1>20 DEF Record, count, history, Goto, ForgetCycle, CycleEnd
  <1>21. CASE TallyCut
    BY <1>21 DEF TallyCut, history, Bump, Goto, ForgetCycle, CycleEnd,
      NewCanary, NewLifeline
  <1>22. CASE Attach
    BY <1>22 DEF Attach, count, cycle, history
  <1>23. CASE Detach
    BY <1>23 DEF Detach, count, cycle, history
  <1>24. CASE Reboot
    <2>1. clean' = 0 /\ streak' = 0 /\ lifeline_all_ok' = FALSE
      BY <1>24, Zenon DEF Reboot, ZeroCounts, ForgetCycle
    <2>2. pc'[Wd] = "idle"
      BY <1>24 DEF Reboot
    <2>3. QED
      BY <2>1, <2>2
  <1>25. CASE NetworkChange
    BY <1>25 DEF NetworkChange, count, cycle, history
  <1>26. CASE UNCHANGED vars
    BY <1>26 DEF vars, count, cycle, history
  <1>27. QED
    BY <1>1, <1>2, <1>3, <1>4, <1>5, <1>6, <1>7, <1>8, <1>9, <1>10, <1>11,
      <1>12, <1>13, <1>14, <1>15, <1>16, <1>17, <1>18, <1>19, <1>20, <1>21,
      <1>22, <1>23, <1>24, <1>25, <1>26 DEF Next, CommandStep, CycleStep

(* A re-arm starts, and stays, with enough clean cycles behind it. *)
LEMMA RearmEarnedStep ==
  NumberType /\ PcType /\ CountType /\ StreakInv /\ RearmEarned /\ [Next]_vars => RearmEarned'
  <1> SUFFICES ASSUME NumberType, PcType, CountType, StreakInv, RearmEarned, [Next]_vars PROVE RearmEarned'
    OBVIOUS
  <1> USE ProcAssumption, TripAssumption DEF ProcAssumption, TripAssumption,
    Proc, Rearming, NumberType, PcType, CountType, StreakInv, RearmEarned
  <1>1. ASSUME NEW p \in Operator, OffRequest(p) PROVE RearmEarned'
    BY <1>1 DEF OffRequest, config, history, Goto
  <1>2. ASSUME NEW p \in Operator, OnRequest(p) PROVE RearmEarned'
    BY <1>2 DEF OnRequest, config, history, Goto
  <1>3. ASSUME NEW p \in Proc, OffSet(p) PROVE RearmEarned'
    BY <1>3 DEF OffSet, history, Goto, OffExit
  <1>4. ASSUME NEW p \in Proc, OffRead(p) PROVE RearmEarned'
    BY <1>4 DEF OffRead, config, history, Goto, OffExit
  <1>5. ASSUME NEW p \in Proc, OffTouch(p) PROVE RearmEarned'
    BY <1>5 DEF OffTouch, config, Goto, OffExit
  <1>6. ASSUME NEW p \in Proc, OnSet(p) PROVE RearmEarned'
    BY <1>6 DEF OnSet, history, Goto, OnExit
  <1>7. ASSUME NEW p \in Proc, OnRead(p) PROVE RearmEarned'
    BY <1>7 DEF OnRead, config, history, Goto, OnExit
  <1>8. ASSUME NEW p \in Proc, OnRemove(p) PROVE RearmEarned'
    BY <1>8 DEF OnRemove, config, Goto, OnExit
  <1>9. ASSUME NEW p \in Proc, Kill(p) PROVE RearmEarned'
    BY <1>9 DEF Kill, config, history, Goto
  <1>10. CASE CycleStart
    BY <1>10 DEF CycleStart, config, history, Goto
  <1>11. CASE ReadSwitch
    BY <1>11 DEF ReadSwitch, config, history, Goto
  <1>12. CASE ReadAttached
    BY <1>12 DEF ReadAttached, config, Goto, CycleEnd
  <1>13. CASE Tally
    BY <1>13 DEF Tally, config, Bump, Goto
  <1>14. CASE Armed
    BY <1>14 DEF Armed, config, history, Goto, CycleEnd
  <1>15. CASE SoftOffStop
    BY <1>15 DEF SoftOffStop, config, history, Goto
  <1>16. CASE Tripped
    BY <1>16 DEF Tripped, config, history, Goto, CycleEnd
  <1>17. CASE Latched
    BY <1>17 DEF Latched, config, history, Goto
  <1>18. CASE Verify
    BY <1>18 DEF Verify, config, history, Goto
  <1>19. CASE Check
    BY <1>19 DEF Check, history, config, Goto, CycleEnd, MayRearm
  <1>20. CASE Record
    BY <1>20 DEF Record, history, Goto, CycleEnd
  <1>21. CASE TallyCut
    BY <1>21 DEF TallyCut, config, history, Goto, CycleEnd
  <1>22. CASE Attach
    BY <1>22 DEF Attach, config, history
  <1>23. CASE Detach
    BY <1>23 DEF Detach, config, history
  <1>24. CASE Reboot
    BY <1>24 DEF Reboot
  <1>25. CASE NetworkChange
    BY <1>25 DEF NetworkChange, config, history
  <1>26. CASE UNCHANGED vars
    BY <1>26 DEF vars, config, history
  <1>27. QED
    BY <1>1, <1>2, <1>3, <1>4, <1>5, <1>6, <1>7, <1>8, <1>9, <1>10, <1>11,
      <1>12, <1>13, <1>14, <1>15, <1>16, <1>17, <1>18, <1>19, <1>20, <1>21,
      <1>22, <1>23, <1>24, <1>25, <1>26 DEF Next, CommandStep, CycleStep
-----------------------------------------------------------------------------
(* The parts of the type invariant are the type invariant. *)
LEMMA TypeParts ==
  TypeOK <=> /\ NumberType /\ FlagType /\ PcType /\ CycleType /\ CountType
             /\ net \in Network
  BY Zenon DEF TypeOK, NumberType, FlagType, PcType, CycleType, CountType

(* Only the network changes the network. *)
LEMMA NetStep == net \in Network /\ [Next]_vars => net' \in Network
  <1> SUFFICES ASSUME net \in Network, [Next]_vars,
                      ~UNCHANGED net, ~NetworkChange
               PROVE  FALSE
    BY DEF NetworkChange
  <1>1. ASSUME NEW p \in Operator, OffRequest(p) \/ OnRequest(p) PROVE FALSE
    BY <1>1, Zenon DEF OffRequest, OnRequest
  <1>2. ASSUME NEW p \in Proc, CommandStep(p) \/ Kill(p) PROVE FALSE
    BY <1>2, Zenon
    DEF CommandStep, OffSet, OffRead, OffTouch, OnSet, OnRead, OnRemove, Kill
  <1>3. CASE CycleStep
    BY <1>3, Zenon
    DEF CycleStep, CycleStart, ReadSwitch, ReadAttached, Tally, Armed,
        SoftOffStop, Tripped, Latched, Verify, Check, Record
  <1>4. CASE TallyCut \/ Attach \/ Detach \/ Reboot
    BY <1>4, Zenon DEF TallyCut, Attach, Detach, Reboot
  <1>5. CASE UNCHANGED vars
    BY <1>5, Zenon DEF vars
  <1>6. QED
    BY <1>1, <1>2, <1>3, <1>4, <1>5 DEF Next

(* The boot is well typed and has nothing to account for. *)
LEMMA InitHolds == Init => TypeOK /\ WatchdogInv /\ FaultBound
  <1> SUFFICES ASSUME Init PROVE TypeOK /\ WatchdogInv /\ FaultBound
    OBVIOUS
  <1>1. pc[Wd] = "idle" /\ PcType
    BY DEF Init, Proc, PcType, Label, Rearming
  <1>2. NumberType
    BY DEF Init, NumberType
  <1>3. FlagType
    BY DEF Init, FlagType
  <1>4. CycleType
    BY Zenon DEF Init, CycleType
  <1>5. CountType
    BY DEF Init, CountType
  <1>6. net \in Network
    BY DEF Init
  <1>7. RearmInv
    <2>1. rearms = 0 /\ faults = 0 /\ flag = 0
      BY Zenon DEF Init
    <2>2. QED
      BY <1>1, <2>1 DEF RearmInv
  <1>8. StreakInv
    <2>1. clean = 0 /\ streak = 0 /\ lifeline_all_ok = FALSE
      BY Zenon DEF Init
    <2>2. QED
      BY <1>1, <2>1 DEF StreakInv
  <1>9. RearmEarned
    BY <1>1 DEF RearmEarned, Rearming
  <1>10. FaultBound
    <2>1. faults = 0
      BY Zenon DEF Init
    <2>2. QED
      BY <2>1, TripAssumption DEF FaultBound, TripAssumption
  <1>11. QED
    BY <1>1, <1>2, <1>3, <1>4, <1>5, <1>6, <1>7, <1>8, <1>9, <1>10, TypeParts
    DEF WatchdogInv

(* Each step keeps the type invariant. *)
LEMMA TypeStep == TypeOK /\ [Next]_vars => TypeOK'
  <1>1. TypeOK' <=> /\ NumberType' /\ FlagType' /\ PcType' /\ CycleType'
                    /\ CountType' /\ net' \in Network
    BY Zenon DEF TypeOK, NumberType, FlagType, PcType, CycleType, CountType,
                 Network, Label, Rearming, Proc
  <1>2. QED
    BY <1>1, TypeParts, NumberTypeStep, FlagTypeStep, PcTypeStep,
       CycleTypeStep, CountTypeStep, NetStep

(* Each step keeps the inductive invariant. *)
LEMMA WatchdogStep == TypeOK /\ WatchdogInv /\ [Next]_vars => WatchdogInv'
  BY TypeParts, RearmInvStep, StreakInvStep, RearmEarnedStep DEF WatchdogInv

(***************************************************************************)
(* The type invariant of the switches, whatever the operators, thresholds  *)
(* and faults.                                                             *)
(***************************************************************************)
THEOREM TypeCorrect == Spec => []TypeOK
  <1>1. QED
    BY InitHolds, TypeStep, PTL DEF Spec

(* The inductive invariant. *)
THEOREM Invariant == Spec => []WatchdogInv
  <1>1. QED
    BY InitHolds, WatchdogStep, TypeCorrect, PTL DEF Spec

(***************************************************************************)
(* At most one automatic re-arm per boot (bin/nodeguard-watchdog:410-418), *)
(* plus one for every fault that kept a re-arm from being recorded.        *)
(***************************************************************************)
THEOREM RearmsBounded == Spec => []OncePerBoot
  <1>1. WatchdogInv => OncePerBoot
    BY DEF WatchdogInv, RearmInv, OncePerBoot
  <1>2. QED
    BY <1>1, Invariant, PTL

(***************************************************************************)
(* Where nothing fails and nobody is killed, the watchdog re-arms at most  *)
(* once per boot: what RearmsOnce says, and what faults alone can break.   *)
(***************************************************************************)
THEOREM OnceWithoutFaults == ASSUME MaxFaults = 0 PROVE Spec => []RearmsOnce
  <1>1. TypeOK /\ WatchdogInv /\ FaultBound => RearmsOnce
    BY TypeParts DEF WatchdogInv, RearmInv, FaultBound, RearmsOnce, NumberType
  <1>2. TypeOK /\ FaultBound /\ [Next]_vars => FaultBound'
    BY FaultBoundStep, TypeParts
  <1>3. Spec => []FaultBound
    BY <1>2, InitHolds, TypeCorrect, PTL DEF Spec
  <1>4. QED
    BY <1>1, <1>3, TypeCorrect, Invariant, PTL

(* An automatic re-arm follows CleanRearm clean cycles, all of them after *)
(* the soft-off it undoes (bin/nodeguard-watchdog:375-379, 411).          *)
THEOREM RearmsEarned == Spec => []RearmEarned
  <1>1. WatchdogInv => RearmEarned
    BY DEF WatchdogInv
  <1>2. QED
    BY <1>1, Invariant, PTL
=============================================================================
