---------------------------- MODULE Boot_proofs ----------------------------
(***************************************************************************)
(* What holds of the settings for every default, every number of clicks    *)
(* and every voltage, whenever the power goes.                             *)
(***************************************************************************)
EXTENDS Boot, SequenceTheorems, TLAPS

(* The statements of the worker: nothing, a change and its write, the      *)
(* write alone, or what is left of a factory reset.                        *)
Wiping(j) ==
    /\ Len(j) \in 1..21
    /\ j[Len(j)] = Reboot
    /\ \A i \in 1..(Len(j) - 1) : j[i] = Delete(20 - Len(j) + i)

Limits(k) == IF k = "RAMP_FLOOR" THEN {DefaultFloor} \cup 1..10
             ELSE IF k = "RAMP_CEILING" THEN {DefaultCeiling} \cup 246..255
             ELSE 0..255

Changing(j) == \E k \in Keys : \E v \in Limits(k) : j = <<Assign(k, v), WriteByte(k)>>

Writing(j) == \E k \in Keys : j = <<WriteByte(k)>>

Statement == [op : {"assign"}, key : Keys, value : 0..255] \cup [op : {"write"}, key : Keys]
             \cup [op : {"delete"}, id : 0..19] \cup [op : {"reboot"}]

JobInv ==
    /\ job \in Seq(Statement)
    /\ job = <<>> \/ Changing(job) \/ Writing(job) \/ Wiping(job)
    /\ job # <<>> => Ready

(* No way to set or to restore a floor or a ceiling leaves its range.      *)
LimitsInv == \A k \in Keys : ram[k] \in Limits(k) /\ flash[k] \in Limits(k) \cup {None}

(* What main has brought from flash, until the worker changes it.          *)
ReadAt == [RAMP_FLOOR |-> 5, RAMP_CEILING |-> 6, UI_MODE |-> 7]

Restored(k) == IF condition # "broken" /\ flash[k] # None THEN flash[k] ELSE Defaults[k]

BootInv ==
    /\ main \in 4..9 => (mounted <=> condition # "broken")
    /\ main \in 0..8 => \A k \in LateKeys :
          ram[k] = IF main >= ReadAt[k] THEN Restored(k) ELSE Defaults[k]

(* In a flash in order only the write that is still to come is missing.    *)
SyncInv ==
    condition = "good" /\ Ready =>
        \A k \in LateKeys : \/ ram[k] = Saved(k)
                            \/ Wiping(job)
                            \/ job # <<>> /\ job[Len(job)] = WriteByte(k)

(* A factory reset has deleted the ids it has passed.                      *)
WipeInv ==
    condition = "good" /\ Wiping(job) =>
        \A k \in Keys : Id[k] < 21 - Len(job) => flash[k] = None

IInv == TypeOK /\ JobInv /\ LimitsInv /\ BootInv /\ SyncInv /\ WipeInv

-----------------------------------------------------------------------------
(* Facts about the operators.                                              *)

(* What main does, statement by statement.                                 *)
LEMMA Statements ==
    /\ Len(BootSequence) = 9
    /\ BootSequence[1].op = "sleep" /\ BootSequence[4].op = "mount"
    /\ \A i \in {2, 3, 5, 6, 7} : BootSequence[i].op = "read"
    /\ BootSequence[2].key = "THERMAL_LIMIT" /\ BootSequence[3].key = "BATT_CALIB_OFFSET"
    /\ BootSequence[5].key = "RAMP_FLOOR" /\ BootSequence[6].key = "RAMP_CEILING"
    /\ BootSequence[7].key = "UI_MODE"
    /\ BootSequence[8].op = "fsm_init" /\ BootSequence[9].op = "multi_tap_input_init"
BY DEF BootSequence, Read, Call

(* The defaults are within the limits, and bytes.                          *)
LEMMA DefaultLimits ==
    /\ \A k \in Keys : Defaults[k] \in Limits(k) /\ Limits(k) \subseteq 0..255
    /\ Defaults \in [Keys -> 0..255]
BY DefaultsAssumption DEF Defaults, Limits, Keys, UI_SIMPLE, UI_ADVANCED, NoOffset

(* Every key has an id of its own among those the factory reset deletes.   *)
LEMMA Ids ==
    /\ \A k \in Keys : Id[k] \in 0..19
    /\ \A k, l \in Keys : Id[k] = Id[l] => k = l
BY DEF Id, Keys

(* A ceiling that is set lies where no repair is needed, above every floor. *)
LEMMA CeilingRange ==
    ASSUME NEW n \in Counts, NEW floor \in Limits("RAMP_FLOOR")
    PROVE  Ceiling(n, floor) \in 246..255
BY CountsAssumption, RangeAssumption, DefaultsAssumption DEF Ceiling, Limits

(* A calibration ends in a byte.                                           *)
LEMMA CalibrationByte ==
    ASSUME NEW actual \in Int, NEW mv \in Int, NEW offset \in Int
    PROVE  batt_calibrate_voltage(actual, mv, offset) \in 0..255
<1>1. \A n \in Int : CQuotient(n, Unit) \in Int
  BY DEF CQuotient, Unit
<1>2. \A n \in Int : Byte(n) \in 0..255
  BY DEF Byte
<1> DEFINE raw == batt_read_voltage_mv(mv, offset) - OffsetMv(offset)
<1>3. raw \in Int
  BY DEF batt_read_voltage_mv, OffsetMv, NoOffset, Unit
<1>4. CQuotient(actual - raw + 50, Unit) + NoOffset \in Int
  <2> HIDE DEF raw
  <2> QED BY <1>1, <1>3 DEF NoOffset
<1> QED BY <1>2, <1>4 DEF batt_calibrate_voltage

(* A change is neither a write alone nor a factory reset, and so on.       *)
LEMMA Shapes ==
    /\ ~Wiping(<<>>) /\ ~Changing(<<>>) /\ ~Writing(<<>>)
    /\ \A j : Changing(j) => ~Writing(j) /\ ~Wiping(j)
    /\ \A j : Writing(j) => ~Wiping(j)
<1>1. /\ Reboot.op = "reboot" /\ \A k : WriteByte(k).op = "write"
      /\ \A k, v : Assign(k, v).op = "assign"
  BY DEF Assign, WriteByte, Reboot
<1>2. /\ Len(<<>>) = 0
      /\ \A a : Len(<<a>>) = 1 /\ <<a>>[1] = a
      /\ \A a, b : Len(<<a, b>>) = 2 /\ <<a, b>>[2] = b
  OBVIOUS
<1>3. \A j : Changing(j) => Len(j) = 2 /\ j[Len(j)].op = "write"
  BY <1>1, <1>2 DEF Changing
<1>4. \A j : Writing(j) => Len(j) = 1 /\ j[Len(j)].op = "write"
  BY <1>1, <1>2 DEF Writing
<1>5. \A j : Wiping(j) => Len(j) # 0 /\ j[Len(j)].op = "reboot"
  <2>1. \A n : n \in 1..21 => n # 0
    OBVIOUS
  <2>2. \A j : Wiping(j) => Len(j) \in 1..21 /\ j[Len(j)] = Reboot
    BY ZenonT(20) DEF Wiping
  <2> QED BY <1>1, <2>1, <2>2, ZenonT(20)
<1>6. ~Changing(<<>>) /\ ~Writing(<<>>) /\ ~Wiping(<<>>)
  BY <1>2, <1>3, <1>4, <1>5
<1>7. "write" # "reboot"
  OBVIOUS
<1> QED BY <1>3, <1>4, <1>5, <1>6, <1>7
(* The first statement tells the shape, and what is left has a shape too.  *)
LEMMA WipeTail ==
    ASSUME NEW j \in Seq(Statement), Wiping(j)
    PROVE  \/ Head(j).op = "reboot" /\ Len(j) = 1
           \/ /\ Head(j).op = "delete" /\ Head(j).id = 21 - Len(j)
              /\ Wiping(Tail(j)) /\ Len(Tail(j)) = Len(j) - 1
<1> DEFINE n == Len(j)
<1>1. n \in 1..21 /\ Head(j) = j[1]
  BY DEF Wiping
<1>b. \A m \in 1..21 : m # 1 => /\ 1 \in 1..(m - 1) /\ m - 1 \in 1..(m - 1)
                                /\ (m - 1) + 1 = m
  OBVIOUS
<1>a. /\ 20 - n + 1 = 21 - n
      /\ \A i \in Int : 20 - n + (i + 1) = 20 - (n - 1) + i
  BY <1>1
<1>2. CASE Len(j) = 1
  <2>1. j[1] = Reboot
    BY <1>2 DEF Wiping
  <2> QED BY <1>1, <1>2, <2>1 DEF Reboot
<1>3. CASE Len(j) # 1
  <2>1. j[1] = Delete(21 - n)
    <3>1. 1 \in 1..(n - 1)
      BY <1>1, <1>3, <1>b
    <3>2. j[1] = Delete(20 - n + 1)
      BY <3>1 DEF Wiping
    <3> QED BY <1>a, <3>2
  <2>2. Head(j).op = "delete" /\ Head(j).id = 21 - Len(j)
    BY <1>1, <2>1 DEF Delete
  <2>3. /\ Len(Tail(j)) = Len(j) - 1
        /\ \A i \in 1..(Len(j) - 1) : Tail(j)[i] = j[i + 1]
    BY <1>1, <1>3
  <2>4. Tail(j)[Len(Tail(j))] = Reboot
    <3>1. n - 1 \in 1..(n - 1) /\ (n - 1) + 1 = n
      BY <1>1, <1>3, <1>b
    <3>2. Tail(j)[n - 1] = j[n]
      BY <2>3, <3>1
    <3>3. j[n] = Reboot
      BY DEF Wiping
    <3> QED BY <2>3, <3>2, <3>3
  <2>5. \A i \in 1..(Len(Tail(j)) - 1) : Tail(j)[i] = Delete(20 - Len(Tail(j)) + i)
    <3>1. TAKE i \in 1..(Len(Tail(j)) - 1)
    <3>2. Tail(j)[i] = j[i + 1] /\ i + 1 \in 1..(Len(j) - 1)
      BY <1>1, <2>3
    <3>3. j[i + 1] = Delete(20 - Len(j) + (i + 1))
      BY <3>2 DEF Wiping
    <3>4. 20 - Len(j) + (i + 1) = 20 - Len(Tail(j)) + i
      <4>1. i \in Int
        BY <1>1, <2>3
      <4> QED BY <1>a, <2>3, <4>1
    <3> QED BY <3>2, <3>3, <3>4
  <2>6. Len(Tail(j)) \in 1..21
    BY <1>1, <1>3, <2>3
  <2> QED BY <2>2, <2>3, <2>4, <2>5, <2>6 DEF Wiping
<1> QED BY <1>2, <1>3

(* What is left of a change after its first assignment.                   *)
LEMMA ChangeTail ==
    ASSUME NEW j, Changing(j)
    PROVE  \E k \in Keys : /\ Head(j).op = "assign" /\ Head(j).key = k
                           /\ Head(j).value \in Limits(k)
                           /\ Tail(j) = <<WriteByte(k)>>
<1>1. PICK k \in Keys : \E v \in Limits(k) : j = <<Assign(k, v), WriteByte(k)>>
  BY DEF Changing
<1>2. PICK v \in Limits(k) : j = <<Assign(k, v), WriteByte(k)>>
  BY <1>1
<1>3. Head(j) = Assign(k, v) /\ Tail(j) = <<WriteByte(k)>>
  BY <1>2
<1> QED BY <1>3 DEF Assign

(* A write is one statement: nothing is left after it.                     *)
LEMMA WriteTail ==
    ASSUME NEW j, Writing(j)
    PROVE  \E k \in Keys : /\ Head(j).op = "write" /\ Head(j).key = k
                           /\ j[Len(j)] = WriteByte(k) /\ Tail(j) = <<>>
<1>1. PICK k \in Keys : j = <<WriteByte(k)>>
  BY DEF Writing
<1>2. Head(j) = WriteByte(k) /\ Tail(j) = <<>> /\ j[Len(j)] = WriteByte(k)
  BY <1>1
<1> QED BY <1>2 DEF WriteByte

-----------------------------------------------------------------------------
(* The steps.                                                              *)

(* Power comes, for the first time or again.                               *)
LEMMA Starts ==
    ASSUME main' = 0, job' = <<>>, ram' = Defaults, mounted' = FALSE, click_timer' = "zero",
           shutdown' = "none", condition' \in {"good", "worn", "broken"},
           restarted' \in {"power", "reboot", "fatal", "no"},
           flash' \in [Keys -> 0..255 \cup {None}],
           \A k \in Keys : flash'[k] \in Limits(k) \cup {None}
    PROVE  IInv'
<1>1. ~Ready'
  BY Statements DEF Ready
<1>2. TypeOK'
  <2>1. mounted' \in BOOLEAN
    OBVIOUS
  <2>2. main' \in 0..Halted'
    BY Statements DEF Halted
  <2>3. ram' \in [Keys -> 0..255]
    BY DefaultLimits
  <2>4. click_timer' \in {"zero", "running", "initialised"}
    OBVIOUS
  <2>5. shutdown' \in {"none", "queued", "done"}
    OBVIOUS
  <2> QED BY <2>1, <2>2, <2>3, <2>4, <2>5, Zenon DEF TypeOK
<1>3. JobInv'
  BY DEF JobInv
<1>4. LimitsInv'
  BY DefaultLimits DEF LimitsInv
<1>5. BootInv'
  BY DEF BootInv, ReadAt, LateKeys, Keys
<1>6. SyncInv' /\ WipeInv'
  BY <1>1, Shapes DEF SyncInv, WipeInv
<1> QED BY <1>2, <1>3, <1>4, <1>5, <1>6 DEF IInv

(* A restart, whatever its cause, is a start from what is in flash.        *)
LEMMA Restarts ==
    ASSUME IInv, NEW cause \in {"power", "reboot", "fatal"}, Restart(cause)
    PROVE  IInv'
<1>1. flash' = flash
  BY DEF Restart
<1> QED BY <1>1, Starts DEF Restart, IInv, TypeOK, LimitsInv

(* Steps that concern only the button, the monitor and the processor.      *)
LEMMA Unaffected ==
    ASSUME IInv, UNCHANGED <<main, job, ram, flash, condition, mounted>>, TypeOK'
    PROVE  IInv'
<1>1. JobInv' /\ LimitsInv' /\ BootInv'
  BY DEF IInv, JobInv, LimitsInv, BootInv, Restored, Ready
<1>2. SyncInv' /\ WipeInv'
  BY DEF IInv, SyncInv, WipeInv, Saved, Ready
<1> QED BY <1>1, <1>2 DEF IInv

(* A kernel that halts does nothing more; power is what starts it again.   *)
LEMMA Halts ==
    ASSUME IInv, job = <<>>, Halt
    PROVE  IInv'
<1>1. TypeOK'
  <2>1. mounted' \in BOOLEAN
    BY DEF IInv, TypeOK, Halt, staticVars
  <2>2. main' \in 0..Halted'
    BY Statements DEF Halt, Halted
  <2>3. UNCHANGED <<ram, flash, condition, mounted, click_timer, shutdown, restarted>>
    BY DEF Halt, restVars, deviceVars, staticVars
  <2>4. TypeOK
    BY DEF IInv
  <2> QED BY <2>2, <2>3, <2>4, Zenon DEF TypeOK
<1>a. LimitsInv'
  BY DEF IInv, LimitsInv, Halt, restVars, deviceVars, staticVars
<1>2. main' = 10 /\ job' = <<>> /\ ~Ready'
  BY Statements DEF Halt, Halted, Ready
<1>3. JobInv' /\ BootInv' /\ SyncInv' /\ WipeInv'
  BY <1>2, Shapes DEF JobInv, BootInv, SyncInv, WipeInv
<1> QED BY <1>1, <1>a, <1>3 DEF IInv
(* What main is about to execute, and that the worker does nothing then.   *)
LEMMA Position ==
    ASSUME IInv, main \in 0..8
    PROVE  /\ job = <<>> /\ ~Ready /\ ram \in [Keys -> 0..255]
           /\ main \in {0, 1, 2, 3, 4, 5, 6, 7, 8}
           /\ Current.op = "read" => main \in {1, 2, 4, 5, 6} /\ Current.key \in Keys
           /\ Current.op = "mount" => main = 3
           /\ Current.op = "fsm_init" => main = 7
           /\ Current.op = "multi_tap_input_init" => main = 8
<1>1. main \in {0, 1, 2, 3, 4, 5, 6, 7, 8}
  OBVIOUS
<1>2. ~Ready /\ job = <<>>
  BY <1>1, Statements DEF IInv, JobInv, Ready
<1> QED BY <1>1, <1>2, Statements DEF Current, Keys, IInv, TypeOK

(* A step of main that leaves it short of its end.                         *)
LEMMA Advances ==
    ASSUME IInv, main \in 0..7, main' = main + 1,
           UNCHANGED <<job, flash, condition, click_timer, shutdown>>,
           mounted' \in BOOLEAN, restarted' \in {"no", restarted},
           ram' \in [Keys -> 0..255], LimitsInv', BootInv'
    PROVE  IInv'
<1>1. job = <<>> /\ main' \in 1..8
  BY Position
<1>2. ~Ready'
  BY <1>1, Statements DEF Ready
<1>3. TypeOK'
  <2>1. main' \in 0..Halted'
    BY <1>1, Statements DEF Halted
  <2>2. TypeOK
    BY DEF IInv
  <2> QED BY <2>1, <2>2, Zenon DEF TypeOK
<1>4. JobInv'
  BY <1>1 DEF IInv, JobInv
<1>5. SyncInv' /\ WipeInv'
  BY <1>1, <1>2, Shapes DEF SyncInv, WipeInv
<1> QED BY <1>3, <1>4, <1>5 DEF IInv

(* main sleeps: only its position changes.                                 *)
LEMMA SleepsStep == ASSUME IInv, Sleeps PROVE IInv'
<1>1. main = 0 /\ main' = 1 /\ UNCHANGED <<job, flash, condition, ram, mounted, click_timer, shutdown>>
  BY DEF Sleeps, deviceVars, staticVars
<1>2. BootInv'
  BY <1>1 DEF IInv, BootInv, ReadAt, LateKeys, Restored
<1>3. LimitsInv'
  BY <1>1 DEF IInv, LimitsInv
<1>4. ram' \in [Keys -> 0..255] /\ mounted' \in BOOLEAN /\ restarted' = "no"
  BY <1>1 DEF IInv, TypeOK, Sleeps
<1> QED BY <1>1, <1>2, <1>3, <1>4, Advances

(* The key that is read has its default before, and what is to be restored *)
(* afterwards; the keys read before keep theirs.                           *)
LEMMA ReadStep == ASSUME IInv, nvs_read_byte PROVE IInv'
<1>1. main \in 1..8 /\ Current.op = "read" /\ main' = main + 1
  BY Statements DEF nvs_read_byte
<1>2. main \in {1, 2, 4, 5, 6} /\ Current.key \in Keys /\ ram \in [Keys -> 0..255]
  BY <1>1, Position
<1>3. UNCHANGED <<job, flash, condition, mounted, click_timer, shutdown, restarted>>
  BY DEF nvs_read_byte, restVars, deviceVars
<1>4. ram' = IF mounted /\ flash[Current.key] # None
             THEN [ram EXCEPT ![Current.key] = flash[Current.key]] ELSE ram
  BY DEF nvs_read_byte
<1>5. \A k \in Keys : flash[k] \in 0..255 \cup {None}
  BY DEF IInv, TypeOK
<1>6. ram' \in [Keys -> 0..255]
  BY <1>2, <1>4, <1>5
<1>7. LimitsInv'
  BY <1>2, <1>3, <1>4 DEF IInv, LimitsInv
<1>8. BootInv'
  <2>1. ASSUME main' \in 4..9  PROVE mounted' <=> condition' # "broken"
    <3>1. main \in 4..9
      BY <1>1, <1>2, <2>1
    <3> QED BY <1>3, <3>1, Zenon DEF IInv, BootInv
  <2>2. ASSUME NEW k \in LateKeys
        PROVE  ram'[k] = IF main' >= ReadAt[k] THEN Restored(k)' ELSE Defaults[k]
    <3>1. ram[k] = IF main >= ReadAt[k] THEN Restored(k) ELSE Defaults[k]
      BY <1>1 DEF IInv, BootInv
    <3>2. /\ main = 1 => Current.key = "THERMAL_LIMIT"
          /\ main = 2 => Current.key = "BATT_CALIB_OFFSET"
          /\ main = 4 => Current.key = "RAMP_FLOOR"
          /\ main = 5 => Current.key = "RAMP_CEILING"
          /\ main = 6 => Current.key = "UI_MODE"
      BY Statements DEF Current
    <3>3. Restored(k)' = Restored(k)
      BY <1>3 DEF Restored
    <3>4. CASE Current.key = k
      <4>1. main \in 4..9 /\ main + 1 = ReadAt[k]
        BY <1>2, <3>2, <3>4 DEF ReadAt, LateKeys
      <4>2. mounted <=> condition # "broken"
        BY <4>1, Zenon DEF IInv, BootInv
      <4>3. ram'[k] = Restored(k)
        BY <1>2, <1>4, <3>1, <3>4, <4>1, <4>2 DEF Restored
      <4> QED BY <1>1, <3>3, <4>1, <4>3
    <3>5. CASE Current.key # k
      <4>1. ram'[k] = ram[k]
        BY <1>2, <1>4, <3>5 DEF LateKeys, Keys
      <4>2. main + 1 >= ReadAt[k] <=> main >= ReadAt[k]
        BY <1>2, <3>2, <3>5 DEF ReadAt, LateKeys
      <4> QED BY <1>1, <3>1, <3>3, <4>1, <4>2
    <3> QED BY <3>4, <3>5
  <2> QED BY <2>1, <2>2 DEF BootInv
<1>9. mounted' \in BOOLEAN
  BY <1>3 DEF IInv, TypeOK
<1> QED BY <1>1, <1>2, <1>3, <1>6, <1>7, <1>8, <1>9, Advances

(* The flash is mounted: from here on the keys read are the saved ones.    *)
LEMMA MountStep == ASSUME IInv, nvs_init_fs PROVE IInv'
<1>1. main \in 1..8 /\ Current.op = "mount" /\ main' = main + 1
  BY Statements DEF nvs_init_fs
<1>2. main = 3
  BY <1>1, Position
<1>3. UNCHANGED <<job, flash, condition, ram, click_timer, shutdown, restarted>>
  BY DEF nvs_init_fs, restVars, deviceVars
<1>4. mounted' \in BOOLEAN /\ (mounted' <=> condition' # "broken")
  BY <1>3, Zenon DEF nvs_init_fs
<1>5. \A k \in LateKeys : ram'[k] = IF main' >= ReadAt[k] THEN Restored(k)' ELSE Defaults[k]
  BY <1>1, <1>2, <1>3 DEF IInv, BootInv, ReadAt, LateKeys
<1>6. BootInv'
  BY <1>4, <1>5 DEF BootInv
<1>7. LimitsInv' /\ ram' \in [Keys -> 0..255]
  BY <1>3 DEF IInv, TypeOK, LimitsInv
<1> QED BY <1>1, <1>2, <1>3, <1>4, <1>6, <1>7, Advances

(* The state machine is given its home node.                               *)
LEMMA FsmInitStep == ASSUME IInv, fsm_init PROVE IInv'
<1>1. main \in 1..8 /\ Current.op = "fsm_init" /\ main' = main + 1
  BY Statements DEF fsm_init
<1>2. main = 7
  BY <1>1, Position
<1>3. UNCHANGED <<job, flash, condition, ram, mounted, click_timer, shutdown, restarted>>
  BY DEF fsm_init, restVars, deviceVars, staticVars
<1>4. \A k \in LateKeys : ram'[k] = IF main' >= ReadAt[k] THEN Restored(k)' ELSE Defaults[k]
  BY <1>1, <1>2, <1>3 DEF IInv, BootInv, ReadAt, LateKeys, Restored
<1>5. mounted' <=> condition' # "broken"
  <2>1. main \in 4..9
    BY <1>2
  <2> QED BY <1>3, <2>1, Zenon DEF IInv, BootInv
<1>6. BootInv'
  BY <1>4, <1>5 DEF BootInv
<1>7. LimitsInv' /\ ram' \in [Keys -> 0..255] /\ mounted' \in BOOLEAN
  BY <1>3 DEF IInv, TypeOK, LimitsInv
<1> QED BY <1>1, <1>2, <1>3, <1>6, <1>7, Advances

(* main has finished: what it has restored is what is saved.               *)
LEMMA InputInitStep == ASSUME IInv, multi_tap_input_init PROVE IInv'
<1>1. main \in 1..8 /\ Current.op = "multi_tap_input_init"
  BY Statements DEF multi_tap_input_init
<1>2. main = 8 /\ job = <<>>
  BY <1>1, Position
<1>3. CASE Fatal
  BY <1>2, <1>3, Restarts, Halts DEF Fatal
<1>4. CASE /\ main' = main + 1 /\ click_timer' = "initialised"
           /\ UNCHANGED <<job, restVars, ram, mounted, shutdown>>
  <2>1. main' = 9 /\ job' = <<>> /\ Ready'
        /\ UNCHANGED <<job, flash, condition, ram, mounted, shutdown, restarted>>
    BY <1>2, <1>4, Statements DEF restVars, deviceVars, Ready
  <2>2. TypeOK'
    <3>1. main' \in 0..Halted'
      BY <2>1, Statements DEF Halted
    <3>2. TypeOK
      BY DEF IInv
    <3>3. click_timer' \in {"zero", "running", "initialised"}
      BY <1>4
    <3> QED BY <2>1, <3>1, <3>2, <3>3, Zenon DEF TypeOK
  <2>3. JobInv' /\ LimitsInv'
    BY <2>1 DEF IInv, JobInv, LimitsInv
  <2>4. BootInv'
    <3>1. main \in 4..9 /\ main' \notin 0..8
      BY <1>2, <2>1
    <3> QED BY <2>1, <3>1, Zenon DEF IInv, BootInv
  <2>5. \A k \in LateKeys : ram[k] = Restored(k)
    BY <1>2 DEF IInv, BootInv, ReadAt, LateKeys
  <2>6. SyncInv'
    BY <2>1, <2>5 DEF SyncInv, Saved, Restored
  <2>7. WipeInv'
    BY <2>1, Shapes DEF WipeInv
  <2> QED BY <2>2, <2>3, <2>4, <2>6, <2>7 DEF IInv
<1> QED BY <1>3, <1>4 DEF multi_tap_input_init
(* The button, the monitor and a shutdown that is carried out.             *)
LEMMA OutsideStep ==
    ASSUME IInv, EarlyKey \/ EarlyKeyExpires \/ safety_emergency_shutdown
    PROVE  IInv'
<1>1. /\ UNCHANGED <<main, job, ram, flash, condition, mounted, restarted>>
      /\ click_timer' \in {"zero", "running", click_timer}
      /\ shutdown' \in {"queued", shutdown}
  BY DEF EarlyKey, EarlyKeyExpires, safety_emergency_shutdown, restVars, deviceVars
<1>2. TypeOK
  BY DEF IInv
<1>3. /\ click_timer' \in {"zero", "running", "initialised"}
      /\ shutdown' \in {"none", "queued", "done"}
  BY <1>1, <1>2 DEF TypeOK
<1>4. TypeOK'
  BY <1>1, <1>2, <1>3, Zenon DEF TypeOK, Halted
<1> QED BY <1>1, <1>4, Unaffected

(* The worker carries out the shutdown, or halts where there is no home.   *)
LEMMA EmergencyStep == ASSUME IInv, fsm_emergency_off PROVE IInv'
<1>1. job = <<>>
  BY DEF fsm_emergency_off
<1>2. CASE Fatal
  BY <1>1, <1>2, Restarts, Halts DEF Fatal
<1>3. CASE shutdown' = "done" /\ UNCHANGED <<main, job, restVars, ram, mounted, click_timer>>
  <2>1. UNCHANGED <<main, job, ram, flash, condition, mounted, restarted, click_timer>>
    BY <1>3 DEF restVars, deviceVars
  <2>2. TypeOK
    BY DEF IInv
  <2>3. shutdown' \in {"none", "queued", "done"}
    BY <1>3
  <2>4. TypeOK'
    BY <2>1, <2>2, <2>3, Zenon DEF TypeOK, Halted
  <2> QED BY <2>1, <2>4, Unaffected
<1> QED BY <1>2, <1>3 DEF fsm_emergency_off

-----------------------------------------------------------------------------
(* The worker takes a message: nothing is changed yet.                     *)
LEMMA HandlesStep ==
    ASSUME IInv, NEW statements \in Seq(Statement), Handles(statements),
           Changing(statements) \/ (Wiping(statements) /\ Len(statements) = 21)
    PROVE  IInv'
<1>1. /\ Ready /\ job = <<>> /\ job' = statements
      /\ UNCHANGED <<main, flash, condition, ram, mounted, click_timer, shutdown, restarted>>
  BY DEF Handles, restVars, deviceVars, staticVars
<1>2. Ready'
  BY <1>1, Statements DEF Ready
<1>3. TypeOK' /\ LimitsInv' /\ BootInv'
  <2>1. TypeOK /\ LimitsInv /\ BootInv
    BY DEF IInv
  <2>2. TypeOK'
    BY <1>1, <2>1, Zenon DEF TypeOK, Halted
  <2>3. LimitsInv'
    BY <1>1, <2>1 DEF LimitsInv
  <2>4. BootInv'
    BY <1>1, <2>1 DEF BootInv, Restored
  <2> QED BY <2>2, <2>3, <2>4
<1>4. JobInv'
  BY <1>1, <1>2 DEF JobInv
<1>5. SyncInv'
  BY <1>1, Shapes DEF IInv, SyncInv, Saved
<1>6. WipeInv'
  <2>1. Wiping(job') => 21 - Len(job') = 0
    BY <1>1, Shapes
  <2>2. \A k \in Keys : ~(Id[k] < 0)
    BY Ids
  <2> QED BY <2>1, <2>2 DEF WipeInv
<1> QED BY <1>3, <1>4, <1>5, <1>6 DEF IInv

(* A change of a callback, given limits that its values keep.              *)
LEMMA ChangesStep ==
    ASSUME IInv, NEW k \in Keys, NEW v \in Limits(k), Handles(<<Assign(k, v), WriteByte(k)>>)
    PROVE  IInv'
<1>1. v \in 0..255
  BY DefaultLimits
<1>2. Assign(k, v) \in Statement /\ WriteByte(k) \in Statement
  BY <1>1 DEF Assign, WriteByte, Statement
<1>3. <<Assign(k, v), WriteByte(k)>> \in Seq(Statement)
  BY <1>2
<1>4. Changing(<<Assign(k, v), WriteByte(k)>>)
  BY DEF Changing
<1> QED BY <1>3, <1>4, HandlesStep

(* Each of the user's changes stays within the limits of its key.          *)
LEMMA UserStep == ASSUME IInv, User PROVE IInv'
<1>1. ram \in [Keys -> 0..255] /\ ram["RAMP_FLOOR"] \in Limits("RAMP_FLOOR")
  BY DEF IInv, TypeOK, LimitsInv, Keys
<1>2. CASE cb_config_floor_set
  <2>1. PICK n \in Counts : Handles(<<Assign("RAMP_FLOOR", n), WriteByte("RAMP_FLOOR")>>)
    BY <1>2 DEF cb_config_floor_set
  <2>2. n \in Limits("RAMP_FLOOR") /\ "RAMP_FLOOR" \in Keys
    BY CountsAssumption DEF Limits, Keys
  <2> QED BY <2>1, <2>2, ChangesStep
<1>3. CASE cb_config_ceiling_set
  <2>1. PICK n \in Counts :
          Handles(<<Assign("RAMP_CEILING", Ceiling(n, ram["RAMP_FLOOR"])), WriteByte("RAMP_CEILING")>>)
    BY <1>3 DEF cb_config_ceiling_set
  <2>2. Ceiling(n, ram["RAMP_FLOOR"]) \in Limits("RAMP_CEILING") /\ "RAMP_CEILING" \in Keys
    BY <1>1, CeilingRange DEF Limits, Keys
  <2> QED BY <2>1, <2>2, ChangesStep
<1>4. CASE ui_toggle_mode
  <2> DEFINE v == IF ram["UI_MODE"] = UI_SIMPLE THEN UI_ADVANCED ELSE UI_SIMPLE
  <2>1. v \in Limits("UI_MODE") /\ "UI_MODE" \in Keys
    BY DEF Limits, Keys, UI_SIMPLE, UI_ADVANCED
  <2> QED BY <1>4, <2>1, ChangesStep DEF ui_toggle_mode
<1>5. CASE cb_cal_thermal_limit_set
  <2>1. PICK n \in Counts :
          Handles(<<Assign("THERMAL_LIMIT", 30 + n), WriteByte("THERMAL_LIMIT")>>)
    BY <1>5 DEF cb_cal_thermal_limit_set
  <2>2. 30 + n \in Limits("THERMAL_LIMIT") /\ "THERMAL_LIMIT" \in Keys
    BY CountsAssumption DEF Limits, Keys
  <2> QED BY <2>1, <2>2, ChangesStep
<1>6. CASE cb_cal_voltage_set
  <2>1. PICK n \in Counts, mv \in Voltages :
          Handles(<<Assign("BATT_CALIB_OFFSET",
                           batt_calibrate_voltage(n * 100, mv, ram["BATT_CALIB_OFFSET"])),
                    WriteByte("BATT_CALIB_OFFSET")>>)
    BY <1>6 DEF cb_cal_voltage_set
  <2>2. "BATT_CALIB_OFFSET" \in Keys /\ Limits("BATT_CALIB_OFFSET") = 0..255
    BY DEF Limits, Keys
  <2>3. n * 100 \in Int /\ mv \in Int /\ ram["BATT_CALIB_OFFSET"] \in Int
    BY <1>1, <2>2, CountsAssumption, VoltagesAssumption
  <2>4. batt_calibrate_voltage(n * 100, mv, ram["BATT_CALIB_OFFSET"]) \in 0..255
    BY <2>3, CalibrationByte
  <2> QED BY <2>1, <2>2, <2>4, ChangesStep
<1>7. CASE action_factory_reset
  <2> DEFINE s == nvs_wipe_all \o <<Reboot>>
  <2>1. /\ Len(nvs_wipe_all) = 20 /\ nvs_wipe_all \in Seq(Statement)
        /\ \A i \in 1..20 : nvs_wipe_all[i] = Delete(i - 1)
    BY DEF nvs_wipe_all, Delete, Statement
  <2>2. <<Reboot>> \in Seq(Statement)
    BY DEF Reboot, Statement
  <2>3. /\ s \in Seq(Statement) /\ Len(s) = 21 /\ s[21] = Reboot
        /\ \A i \in 1..20 : s[i] = Delete(i - 1)
    <3>1. Len(<<Reboot>>) = 1 /\ <<Reboot>>[1] = Reboot
      OBVIOUS
    <3>2. s \in Seq(Statement) /\ Len(s) = 21
      <4>1. s \in Seq(Statement) /\ Len(s) = Len(nvs_wipe_all) + Len(<<Reboot>>)
        BY <2>1, <2>2, ConcatProperties, ZenonT(30)
      <4> HIDE DEF s
      <4> QED BY <2>1, <3>1, <4>1
    <3>3. s[21] = Reboot
      BY <2>1, <2>2, <3>1, <3>2, ConcatProperties
    <3>4. \A i \in 1..20 : s[i] = nvs_wipe_all[i]
      BY <2>1, <2>2, <3>1, <3>2, ConcatProperties
    <3> QED BY <2>1, <3>2, <3>3, <3>4
  <2>4. Wiping(s)
    <3> HIDE DEF s
    <3>1. \A i \in 1..20 : 20 - 21 + i = i - 1
      OBVIOUS
    <3>2. \A i \in 1..20 : s[i] = Delete(20 - 21 + i)
      BY <2>3, <3>1
    <3> QED BY <2>3, <3>2 DEF Wiping
  <2> QED BY <1>7, <2>3, <2>4, HandlesStep DEF action_factory_reset
<1> QED BY <1>2, <1>3, <1>4, <1>5, <1>6, <1>7 DEF User
-----------------------------------------------------------------------------
(* The worker executes the statement at the head of its job.               *)

(* A setting is assigned in memory; its write is what comes next.          *)
LEMMA AssignStep == ASSUME IInv, Assigns PROVE IInv'
<1>1. /\ job \in Seq(Statement) /\ job # <<>> /\ Head(job).op = "assign" /\ Ready
      /\ Changing(job) \/ Writing(job) \/ Wiping(job)
  BY DEF IInv, JobInv, Assigns
<1>2. Changing(job)
  BY <1>1, WriteTail, WipeTail
<1>3. PICK k \in Keys : /\ Head(job).key = k /\ Head(job).value \in Limits(k)
                        /\ Tail(job) = <<WriteByte(k)>>
  BY <1>2, ChangeTail
<1>4. /\ job' = <<WriteByte(k)>> /\ ram' = [ram EXCEPT ![k] = Head(job).value]
      /\ UNCHANGED <<main, flash, condition, mounted, click_timer, shutdown, restarted>>
  BY <1>3 DEF Assigns, restVars, deviceVars
<1>5. Head(job).value \in 0..255 /\ ram \in [Keys -> 0..255]
  BY <1>3, DefaultLimits DEF IInv, TypeOK
<1>6. TypeOK'
  <2>1. TypeOK
    BY DEF IInv
  <2>2. ram' \in [Keys -> 0..255]
    BY <1>4, <1>5
  <2> QED BY <1>4, <2>1, <2>2, Zenon DEF TypeOK, Halted
<1>7. Writing(job') /\ job' # <<>> /\ job'[Len(job')] = WriteByte(k)
  BY <1>4 DEF Writing
<1>8. JobInv'
  <2>1. WriteByte(k) \in Statement
    BY DEF WriteByte, Statement
  <2>2. job' \in Seq(Statement)
    BY <1>4, <2>1
  <2>3. Ready'
    BY <1>1, <1>4, Statements DEF Ready
  <2> QED BY <1>7, <2>2, <2>3 DEF JobInv
<1>9. LimitsInv'
  BY <1>3, <1>4, <1>5 DEF IInv, LimitsInv
<1>10. BootInv'
  <2>1. main = 9
    BY <1>1, Statements DEF Ready
  <2>2. main \in 4..9 /\ main' \notin 0..8
    BY <1>4, <2>1
  <2> QED BY <1>4, <2>2, Zenon DEF IInv, BootInv
<1>11. SyncInv'
  <2>1. job[Len(job)] = WriteByte(k)
    <3>1. PICK l \in Keys : \E v \in Limits(l) : job = <<Assign(l, v), WriteByte(l)>>
      BY <1>2 DEF Changing
    <3>2. job[Len(job)] = WriteByte(l) /\ Tail(job) = <<WriteByte(l)>>
      BY <3>1
    <3>3. WriteByte(l) = WriteByte(k)
      BY <1>3, <3>2
    <3> QED BY <3>2, <3>3
  <2>2. ASSUME NEW l \in LateKeys, l # k, condition = "good"
        PROVE  ram[l] = Saved(l)
    <3>1. WriteByte(l) # WriteByte(k)
      BY <2>2 DEF WriteByte
    <3> QED BY <1>1, <1>2, <2>1, <2>2, <3>1, Shapes DEF IInv, SyncInv
  <2>3. \A l \in LateKeys : l # k => ram'[l] = ram[l] /\ Saved(l)' = Saved(l)
    BY <1>4, <1>5 DEF Saved, LateKeys, Keys
  <2> QED BY <1>4, <1>7, <2>2, <2>3 DEF SyncInv
<1>12. WipeInv'
  BY <1>7, Shapes DEF WipeInv
<1> QED BY <1>6, <1>8, <1>9, <1>10, <1>11, <1>12 DEF IInv

(* A setting is written, or the write is refused.                          *)
LEMMA WriteStep == ASSUME IInv, nvs_write_byte PROVE IInv'
<1>1. /\ job \in Seq(Statement) /\ job # <<>> /\ Head(job).op = "write" /\ Ready
      /\ Changing(job) \/ Writing(job) \/ Wiping(job)
  BY DEF IInv, JobInv, nvs_write_byte
<1>2. Writing(job)
  BY <1>1, ChangeTail, WipeTail
<1>3. PICK k \in Keys : Head(job).key = k /\ job[Len(job)] = WriteByte(k) /\ Tail(job) = <<>>
  BY <1>2, WriteTail
<1>4. /\ job' = <<>>
      /\ flash' = [flash EXCEPT ![k] = ram[k]] \/ (condition # "good" /\ flash' = flash)
      /\ UNCHANGED <<main, ram, condition, mounted, click_timer, shutdown, restarted>>
  BY <1>3 DEF nvs_write_byte, Store, staticVars
<1>5. ram \in [Keys -> 0..255] /\ flash \in [Keys -> 0..255 \cup {None}]
  BY DEF IInv, TypeOK
<1>6. TypeOK'
  <2>1. TypeOK
    BY DEF IInv
  <2>2. flash' \in [Keys -> 0..255 \cup {None}]
    BY <1>4, <1>5
  <2> QED BY <1>4, <2>1, <2>2, Zenon DEF TypeOK, Halted
<1>7. JobInv'
  BY <1>4 DEF JobInv
<1>8. LimitsInv'
  BY <1>4, <1>5 DEF IInv, LimitsInv
<1>9. BootInv'
  <2>1. main = 9
    BY <1>1, Statements DEF Ready
  <2>2. main \in 4..9 /\ main' \notin 0..8
    BY <1>4, <2>1
  <2> QED BY <1>4, <2>2, Zenon DEF IInv, BootInv
<1>10. SyncInv'
  <2>1. ASSUME NEW l \in LateKeys, condition = "good" PROVE ram[l] = Saved(l)'
    <3>1. flash' = [flash EXCEPT ![k] = ram[k]] /\ l \in Keys
      BY <1>4, <2>1 DEF LateKeys, Keys
    <3>2. CASE l = k
      BY <1>5, <3>1, <3>2 DEF Saved, None
    <3>3. CASE l # k
      <4>1. WriteByte(l) # WriteByte(k)
        BY <3>3 DEF WriteByte
      <4>2. ram[l] = Saved(l)
        BY <1>1, <1>2, <1>3, <2>1, <4>1, Shapes DEF IInv, SyncInv
      <4> QED BY <1>5, <3>1, <3>3, <4>2 DEF Saved
    <3> QED BY <3>2, <3>3
  <2> QED BY <1>4, <2>1 DEF SyncInv
<1>11. WipeInv'
  BY <1>4, Shapes DEF WipeInv
<1> QED BY <1>6, <1>7, <1>8, <1>9, <1>10, <1>11 DEF IInv

(* One more id is deleted.                                                 *)
LEMMA DeleteStep == ASSUME IInv, nvs_delete PROVE IInv'
<1>1. /\ job \in Seq(Statement) /\ job # <<>> /\ Head(job).op = "delete" /\ Ready
      /\ Changing(job) \/ Writing(job) \/ Wiping(job)
  BY DEF IInv, JobInv, nvs_delete
<1>2. Wiping(job)
  BY <1>1, ChangeTail, WriteTail
<1>3. /\ Head(job).id = 21 - Len(job) /\ Wiping(job') /\ Len(job') = Len(job) - 1
      /\ job' = Tail(job)
  BY <1>1, <1>2, WipeTail DEF nvs_delete
<1>4. UNCHANGED <<main, ram, condition, mounted, click_timer, shutdown, restarted>>
  BY DEF nvs_delete, staticVars
<1>5. ram \in [Keys -> 0..255] /\ flash \in [Keys -> 0..255 \cup {None}]
  BY DEF IInv, TypeOK
<1>6. \/ \E k \in Keys : /\ Id[k] = 21 - Len(job)
                         /\ \/ flash' = [flash EXCEPT ![k] = None]
                            \/ condition # "good" /\ flash' = flash
      \/ flash' = flash /\ \A k \in Keys : Id[k] # 21 - Len(job)
  <2>1. CASE \E k \in Keys : Id[k] = Head(job).id
    <3> DEFINE k == CHOOSE l \in Keys : Id[l] = Head(job).id
    <3>1. k \in Keys /\ Id[k] = Head(job).id
      BY <2>1
    <3>2. Store(k, None)
      BY <2>1 DEF nvs_delete
    <3> QED BY <1>3, <3>1, <3>2 DEF Store
  <2>2. CASE ~ \E k \in Keys : Id[k] = Head(job).id
    BY <1>3, <2>2 DEF nvs_delete
  <2> QED BY <2>1, <2>2
<1>7. /\ flash' \in [Keys -> 0..255 \cup {None}]
      /\ \A k \in Keys : flash'[k] \in {flash[k], None}
  BY <1>5, <1>6
<1>8. TypeOK'
  <2>1. TypeOK
    BY DEF IInv
  <2> QED BY <1>4, <1>7, <2>1, Zenon DEF TypeOK, Halted
<1>9. JobInv'
  <2>1. job' \in Seq(Statement)
    BY <1>1, <1>3
  <2>2. Ready'
    BY <1>1, <1>4, Statements DEF Ready
  <2> QED BY <1>3, <2>1, <2>2 DEF JobInv
<1>10. LimitsInv'
  BY <1>4, <1>7 DEF IInv, LimitsInv
<1>11. BootInv'
  <2>1. main = 9
    BY <1>1, Statements DEF Ready
  <2>2. main \in 4..9 /\ main' \notin 0..8
    BY <1>4, <2>1
  <2> QED BY <1>4, <2>2, Zenon DEF IInv, BootInv
<1>12. SyncInv'
  BY <1>3 DEF SyncInv
<1>13. WipeInv'
  <2>1. Len(job) \in 1..21
    BY <1>2 DEF Wiping
  <2>2. ASSUME condition = "good", NEW k \in Keys, Id[k] < 21 - Len(job')
        PROVE  flash'[k] = None
    <3>1. Id[k] < 21 - Len(job) \/ Id[k] = 21 - Len(job)
      <4>1. \A a \in 0..19, n \in 1..21 : a < 21 - (n - 1) => a < 21 - n \/ a = 21 - n
        OBVIOUS
      <4>2. Id[k] < 21 - (Len(job) - 1)
        BY <1>3, <2>2
      <4> QED BY <2>1, <4>1, <4>2, Ids
    <3>2. CASE Id[k] < 21 - Len(job)
      BY <1>2, <1>7, <2>2, <3>2 DEF IInv, WipeInv
    <3>3. CASE Id[k] = 21 - Len(job)
      BY <1>5, <1>6, <2>2, <3>3, Ids
    <3> QED BY <3>1, <3>2, <3>3
  <2> QED BY <1>4, <2>2 DEF WipeInv
<1> QED BY <1>8, <1>9, <1>10, <1>11, <1>12, <1>13 DEF IInv
-----------------------------------------------------------------------------
(* The theorems.                                                           *)

(* The inductive invariant: what main has brought so far, which statements *)
(* the worker may still have to execute, and what of the settings is not   *)
(* saved yet in each case.                                                 *)
THEOREM Invariance == Spec => []IInv
<1>1. Init => IInv
  <2> SUFFICES ASSUME Init PROVE IInv
    OBVIOUS
  <2>1. ~Ready /\ main = 0
    BY Statements DEF Init, Statics, Ready
  <2>2. TypeOK
    <3>1. mounted \in BOOLEAN
      BY DEF Init, Statics
    <3>2. main \in 0..Halted
      BY <2>1, Statements DEF Halted
    <3>3. ram \in [Keys -> 0..255] /\ flash \in [Keys -> 0..255 \cup {None}]
      BY DefaultLimits DEF Init, Statics
    <3>4. /\ condition \in {"good", "worn", "broken"} /\ click_timer = "zero"
          /\ shutdown = "none" /\ restarted = "power"
      BY DEF Init, Statics
    <3>5. /\ click_timer \in {"zero", "running", "initialised"}
          /\ shutdown \in {"none", "queued", "done"}
          /\ restarted \in {"power", "reboot", "fatal", "no"}
      BY <3>4
    <3> QED BY <3>1, <3>2, <3>3, <3>4, <3>5, Zenon DEF TypeOK
  <2>3. JobInv /\ LimitsInv
    BY DefaultLimits DEF Init, Statics, JobInv, LimitsInv
  <2>4. BootInv
    BY <2>1 DEF Init, Statics, BootInv, ReadAt, LateKeys
  <2>5. SyncInv /\ WipeInv
    BY <2>1, Shapes DEF Init, Statics, SyncInv, WipeInv
  <2> QED BY <2>2, <2>3, <2>4, <2>5 DEF IInv
<1>2. IInv /\ [Next]_vars => IInv'
  <2> SUFFICES ASSUME IInv, [Next]_vars PROVE IInv'
    OBVIOUS
  <2>1. CASE Sleeps
    BY <2>1, SleepsStep
  <2>2. CASE nvs_read_byte
    BY <2>2, ReadStep
  <2>3. CASE nvs_init_fs
    BY <2>3, MountStep
  <2>4. CASE fsm_init
    BY <2>4, FsmInitStep
  <2>5. CASE multi_tap_input_init
    BY <2>5, InputInitStep
  <2>6. CASE EarlyKey \/ EarlyKeyExpires \/ safety_emergency_shutdown
    BY <2>6, OutsideStep
  <2>7. CASE PowerLoss \/ sys_reboot
    BY <2>7, Restarts DEF PowerLoss, sys_reboot
  <2>8. CASE User
    BY <2>8, UserStep
  <2>9. CASE fsm_emergency_off
    BY <2>9, EmergencyStep
  <2>10. CASE Assigns
    BY <2>10, AssignStep
  <2>11. CASE nvs_write_byte
    BY <2>11, WriteStep
  <2>12. CASE nvs_delete
    BY <2>12, DeleteStep
  <2>13. CASE UNCHANGED vars
    <3>1. UNCHANGED <<main, job, ram, flash, condition, mounted, click_timer, shutdown, restarted>>
      BY <2>13 DEF vars, deviceVars, staticVars
    <3>2. TypeOK
      BY DEF IInv
    <3>3. TypeOK'
      BY <3>1, <3>2, Zenon DEF TypeOK, Halted
    <3> QED BY <3>1, <3>3, Unaffected
  <2> QED BY <2>1, <2>2, <2>3, <2>4, <2>5, <2>6, <2>7, <2>8, <2>9, <2>10, <2>11, <2>12, <2>13
          DEF Next, User
<1> QED BY <1>1, <1>2, PTL DEF Spec

(* Settings stay bytes, in memory and in flash.                            *)
THEOREM TypeCorrect == Spec => []TypeOK
<1>1. IInv => TypeOK
  BY DEF IInv
<1> QED BY <1>1, Invariance, PTL

(* The floor stays below the ceiling, through every sequence of changes,   *)
(* refused writes, lost power and interrupted factory resets.              *)
THEOREM LimitsCorrect == Spec => []LimitsOrdered
<1>1. IInv => LimitsOrdered
  <2>1. \A low \in Limits("RAMP_FLOOR"), high \in Limits("RAMP_CEILING") : low < high
    BY DefaultsAssumption, RangeAssumption DEF Limits
  <2> QED BY <2>1 DEF IInv, LimitsInv, LimitsOrdered, Keys
<1> QED BY <1>1, Invariance, PTL

(* The light in use applies what a flash in order has saved.               *)
THEOREM AppliesCorrect == Spec => []AppliesWhatIsSaved
<1>1. IInv => AppliesWhatIsSaved
  BY Shapes DEF IInv, SyncInv, AppliesWhatIsSaved
<1> QED BY <1>1, Invariance, PTL

(* A factory reset that comes to its end has deleted every setting.        *)
THEOREM ForgetsCorrect == Spec => []FactoryResetForgets
<1>1. IInv => FactoryResetForgets
  <2> SUFFICES ASSUME IInv, job = <<Reboot>>, condition = "good"
               PROVE  \A k \in Keys : flash[k] = None
    BY DEF FactoryResetForgets
  <2>1. Len(job) = 1 /\ job[1] = Reboot
    OBVIOUS
  <2>2. Wiping(job)
    BY <2>1 DEF Wiping
  <2>3. \A k \in Keys : Id[k] < 21 - 1
    BY Ids
  <2> QED BY <2>1, <2>2, <2>3 DEF IInv, WipeInv
<1> QED BY <1>1, Invariance, PTL
(* Division as in C by the unit, rounded towards zero after adding a half: *)
(* below by less than half a unit, above by up to one and a half.          *)
LEMMA Rounding ==
    ASSUME NEW d \in Int
    PROVE  /\ CQuotient(d + 50, Unit) \in Int
           /\ CQuotient(d + 50, Unit) * 100 - d \in -49..149
<1>1. CASE d + 50 >= 0
  <2>1. /\ (d + 50) \div 100 \in Int
        /\ ((d + 50) \div 100) * 100 <= d + 50 /\ d + 50 < ((d + 50) \div 100) * 100 + 100
    BY <1>1
  <2> QED BY <1>1, <2>1 DEF CQuotient, Unit
<1>2. CASE d + 50 < 0
  <2> DEFINE m == - (d + 50)
             q == m \div 100
  <2>1. m \in Nat /\ d = - m - 50
    BY <1>2
  <2>2. q \in Int /\ q * 100 <= m /\ m < q * 100 + 100
    <3> HIDE DEF m
    <3> QED BY <2>1
  <2>3. CQuotient(d + 50, Unit) = - q
    BY <1>2 DEF CQuotient, Unit
  <2>4. - q \in Int /\ (- q) * 100 - d \in -49..149
    <3> HIDE DEF q, m
    <3> QED BY <2>1, <2>2
  <2> QED BY <2>3, <2>4
<1> QED BY <1>1, <1>2

(* A calibration brings the reading of its voltage close to what was given *)
(* with it, whatever the offset was, unless the reading was cut at 0.      *)
THEOREM RecalibrationCorrect == Spec => []RecalibrationIsClose
<1>1. ASSUME NEW mv \in Voltages, NEW n \in Counts, NEW offset \in 0..255,
             mv + OffsetMv(offset) >= 0
      PROVE  batt_read_voltage_mv(mv, batt_calibrate_voltage(n * 100, mv, offset)) - n * 100
                \in -149..149
  <2> DEFINE actual == n * 100
             q == CQuotient(actual - mv + 50, Unit)
             new == batt_calibrate_voltage(actual, mv, offset)
  <2>1. /\ mv \in Int /\ 0 <= mv /\ mv <= 10000
        /\ actual \in Int /\ 100 <= actual /\ actual <= 1000
    <3>1. mv \in Int /\ 0 <= mv /\ mv <= MaxVoltage /\ MaxVoltage \in Nat
      <4>1. MaxVoltage \in Nat
        BY DEF MaxVoltage
      <4> QED BY <4>1, VoltagesAssumption
    <3>2. MaxVoltage = 10000
      BY DEF MaxVoltage
    <3>3. n \in 1..10
      BY CountsAssumption
    <3>4. actual \in Int /\ 100 <= actual /\ actual <= 1000
      BY <3>3
    <3> QED BY <3>1, <3>2, <3>4
  <2>2. batt_read_voltage_mv(mv, offset) - OffsetMv(offset) = mv
    BY <1>1, <2>1 DEF batt_read_voltage_mv, OffsetMv, NoOffset, Unit
  <2>3. new = Byte(q + NoOffset)
    BY <2>2 DEF batt_calibrate_voltage
  <2>4. /\ q \in Int
        /\ q * 100 - (actual - mv) >= -49 /\ q * 100 - (actual - mv) <= 149
    <3>1. actual - mv \in Int
      BY <2>1
    <3>2. q \in Int /\ q * 100 - (actual - mv) \in -49..149
      BY <3>1, Rounding
    <3> QED BY <2>1, <3>2
  <2> HIDE DEF actual, q, new
  <2>5. q + 100 \in 0..255
    <3>1. - 9949 <= q * 100 /\ q * 100 <= 1149
      BY <2>1, <2>4
    <3>2. - 100 < q /\ q < 12
      BY <2>4, <3>1
    <3> QED BY <2>4, <3>2
  <2>6. new = q + 100
    BY <2>3, <2>5 DEF Byte, NoOffset
  <2>7. OffsetMv(new) = q * 100
    BY <2>4, <2>6 DEF OffsetMv, NoOffset, Unit
  <2>8. batt_read_voltage_mv(mv, new) - actual \in -149..149
    BY <2>1, <2>4, <2>7 DEF batt_read_voltage_mv
  <2> QED BY <2>8 DEF actual, new
<1>2. IInv => RecalibrationIsClose
  <2>1. IInv => ram["BATT_CALIB_OFFSET"] \in 0..255
    BY DEF IInv, TypeOK, Keys
  <2> QED BY <1>1, <2>1 DEF RecalibrationIsClose
<1> QED BY <1>2, Invariance, PTL

-----------------------------------------------------------------------------
(* The refinement.                                                         *)

InUse   == [k \in LateKeys |-> IF Ready THEN ram[k] ELSE Defaults[k]]
InFlash == [k \in LateKeys |-> flash[k]]

(* A step that changes no setting and saves none is a stutter of Settings. *)
LEMMA Stutters ==
    ASSUME UNCHANGED <<flash, condition>>, Ready' <=> Ready, Ready => ram' = ram
    PROVE  UNCHANGED Promise!vars
<1>1. (Ready' = Ready) /\ (condition' # "broken") = (condition # "broken")
  OBVIOUS
<1>2. InUse' = InUse /\ InFlash' = InFlash
  BY DEF InUse, InFlash
<1> QED BY <1>1, <1>2 DEF Promise!vars, InUse, InFlash

(* A restart is a loss of what was not saved.                              *)
LEMMA Loses == ASSUME NEW cause, Restart(cause) PROVE Promise!Lose
<1>1. ~Ready' /\ flash' = flash
  BY Statements DEF Restart, Ready
<1> QED BY <1>1 DEF Promise!Lose

(* main ends: every late key has what is to be restored.                   *)
LEMMA Comes ==
    ASSUME IInv, multi_tap_input_init
    PROVE  [Promise!Next]_(Promise!vars)
<1>1. main = 8 /\ job = <<>> /\ ~Ready
  <2>1. main \in 1..8 /\ Current.op = "multi_tap_input_init"
    BY Statements DEF multi_tap_input_init
  <2> QED BY <2>1, Position
<1>2. CASE Restart("fatal")
  BY <1>2, Loses DEF Promise!Next
<1>3. CASE Halt
  <2>1. ~Ready' /\ UNCHANGED <<flash, condition>>
    BY <1>3, Statements DEF Halt, Halted, Ready, restVars, deviceVars
  <2> QED BY <1>1, <2>1, Stutters
<1>4. CASE main' = main + 1 /\ UNCHANGED <<job, restVars, ram, mounted, shutdown>>
  <2>1. Ready' /\ UNCHANGED <<flash, condition, ram>>
    BY <1>1, <1>4, Statements DEF Ready, restVars, deviceVars
  <2>2. \A k \in LateKeys : ram[k] = Restored(k)
    BY <1>1 DEF IInv, BootInv, ReadAt, LateKeys
  <2>3. Promise!Start
    BY <1>1, <2>1, <2>2 DEF Promise!Start, Promise!Restored, Restored
  <2> QED BY <2>3 DEF Promise!Next
<1> QED BY <1>2, <1>3, <1>4 DEF multi_tap_input_init, Fatal

(* An assignment sets a late key, or is none of Settings' concern.         *)
LEMMA Sets == ASSUME IInv, Assigns PROVE [Promise!Next]_(Promise!vars)
<1>1. job \in Seq(Statement) /\ job # <<>> /\ Ready /\ Changing(job)
  BY WriteTail, WipeTail DEF IInv, JobInv, Assigns
<1>2. PICK k \in Keys : Head(job).key = k /\ Head(job).value \in Limits(k)
  BY <1>1, ChangeTail
<1>3. /\ ram' = [ram EXCEPT ![k] = Head(job).value] /\ Head(job).value \in 0..255
      /\ ram \in [Keys -> 0..255] /\ UNCHANGED <<main, flash, condition>> /\ Ready'
  BY <1>1, <1>2, DefaultLimits, Statements
     DEF Assigns, restVars, deviceVars, IInv, TypeOK, Ready
<1>4. InFlash' = InFlash /\ \A l \in LateKeys : l \in Keys
  BY <1>3 DEF InFlash, LateKeys, Keys
<1>5. CASE k \in LateKeys
  <2>1. InUse' = [InUse EXCEPT ![k] = Head(job).value]
    BY <1>1, <1>3, <1>4, <1>5 DEF InUse
  <2>2. Promise!Set(k)
    BY <1>1, <1>3, <1>4, <2>1 DEF Promise!Set, InUse, InFlash
  <2> QED BY <1>5, <2>2 DEF Promise!Next
<1>6. CASE k \notin LateKeys
  <2>1. InUse' = InUse
    BY <1>1, <1>3, <1>4, <1>6 DEF InUse
  <2>2. (Ready' = Ready) /\ (condition' # "broken") = (condition # "broken")
    BY <1>1, <1>3
  <2> QED BY <1>4, <2>1, <2>2 DEF Promise!vars, InUse, InFlash
<1> QED BY <1>5, <1>6

(* A write saves the current value of a late key, or nothing.              *)
LEMMA Saves == ASSUME IInv, nvs_write_byte PROVE [Promise!Next]_(Promise!vars)
<1>1. job \in Seq(Statement) /\ job # <<>> /\ Ready /\ Writing(job)
  BY ChangeTail, WipeTail DEF IInv, JobInv, nvs_write_byte
<1>2. PICK k \in Keys : Head(job).key = k
  BY <1>1, WriteTail
<1>3. /\ flash' = [flash EXCEPT ![k] = ram[k]] \/ flash' = flash
      /\ flash \in [Keys -> 0..255 \cup {None}]
      /\ UNCHANGED <<main, ram, condition>> /\ Ready'
  BY <1>1, <1>2, Statements DEF nvs_write_byte, Store, staticVars, IInv, TypeOK, Ready
<1>4. InUse' = InUse /\ \A l \in LateKeys : l \in Keys
  BY <1>1, <1>3 DEF InUse, LateKeys, Keys
<1>5. CASE k \in LateKeys /\ flash' = [flash EXCEPT ![k] = ram[k]]
  <2>1. InFlash' = [InFlash EXCEPT ![k] = InUse[k]]
    BY <1>1, <1>3, <1>4, <1>5 DEF InFlash, InUse
  <2>2. Promise!Save(k)
    BY <1>1, <1>3, <1>4, <2>1 DEF Promise!Save, InUse, InFlash
  <2> QED BY <1>5, <2>2 DEF Promise!Next
<1>6. CASE k \notin LateKeys \/ flash' = flash
  <2>1. InFlash' = InFlash
    BY <1>3, <1>4, <1>6 DEF InFlash
  <2>2. (Ready' = Ready) /\ (condition' # "broken") = (condition # "broken")
    BY <1>1, <1>3
  <2> QED BY <1>4, <2>1, <2>2 DEF Promise!vars, InUse, InFlash
<1> QED BY <1>3, <1>5, <1>6

(* A deletion forgets one key.                                             *)
LEMMA Forgets == ASSUME IInv, nvs_delete PROVE [Promise!Next]_(Promise!vars)
<1>1. /\ Ready /\ Ready' /\ UNCHANGED <<main, ram, condition>>
      /\ flash \in [Keys -> 0..255 \cup {None}]
  BY Statements DEF nvs_delete, staticVars, IInv, JobInv, TypeOK, Ready
<1>2. flash' = flash \/ \E k \in Keys : flash' = [flash EXCEPT ![k] = None]
  <2>1. CASE \E k \in Keys : Id[k] = Head(job).id
    <3> DEFINE k == CHOOSE l \in Keys : Id[l] = Head(job).id
    <3>1. k \in Keys
      BY <2>1
    <3>2. Store(k, None)
      BY <2>1 DEF nvs_delete
    <3> QED BY <3>1, <3>2 DEF Store
  <2>2. CASE ~ \E k \in Keys : Id[k] = Head(job).id
    BY <2>2 DEF nvs_delete
  <2> QED BY <2>1, <2>2
<1>3. InUse' = InUse /\ \A l \in LateKeys : l \in Keys
  BY <1>1 DEF InUse, LateKeys, Keys
<1>4. CASE \E k \in LateKeys : flash' = [flash EXCEPT ![k] = None]
  <2>1. PICK k \in LateKeys : flash' = [flash EXCEPT ![k] = None]
    BY <1>4
  <2>2. InFlash' = [InFlash EXCEPT ![k] = None]
    BY <1>1, <1>3, <2>1 DEF InFlash
  <2>3. Promise!Forget(k)
    BY <1>1, <1>3, <2>2 DEF Promise!Forget, InUse, InFlash
  <2> QED BY <2>3 DEF Promise!Next
<1>5. CASE ~ \E k \in LateKeys : flash' = [flash EXCEPT ![k] = None]
  <2>1. InFlash' = InFlash
    BY <1>1, <1>2, <1>3, <1>5 DEF InFlash
  <2>2. (Ready' = Ready) /\ (condition' # "broken") = (condition # "broken")
    BY <1>1
  <2> QED BY <1>3, <2>1, <2>2 DEF Promise!vars, InUse, InFlash
<1> QED BY <1>4, <1>5

(* The boot, the menus and the factory reset, with power lost at any       *)
(* moment, do to the late settings what Settings promises.                 *)
THEOREM Refinement == Spec => ImplementsSettings
<1>1. Init => Promise!Init
  <2> SUFFICES ASSUME Init PROVE Promise!Init
    OBVIOUS
  <2>1. ~Ready
    BY Statements DEF Init, Statics, Ready
  <2> QED BY <2>1 DEF Init, Promise!Init, LateKeys, Keys
<1>2. IInv /\ [Next]_vars => [Promise!Next]_(Promise!vars)
  <2> SUFFICES ASSUME IInv, [Next]_vars PROVE [Promise!Next]_(Promise!vars)
    OBVIOUS
  <2>1. CASE Sleeps \/ nvs_read_byte \/ nvs_init_fs \/ fsm_init
    <3>1. main \in 0..8 /\ main' = main + 1 /\ UNCHANGED <<flash, condition>>
      BY <2>1, Statements DEF Sleeps, nvs_read_byte, nvs_init_fs, fsm_init,
                              restVars, deviceVars
    <3>2. ~Ready
      BY <3>1, Position
    <3>3. main # 8
      BY <2>1, <3>1, Position, Statements DEF Sleeps, nvs_read_byte, nvs_init_fs, fsm_init
    <3>4. ~Ready'
      BY <3>1, <3>3, Statements DEF Ready
    <3> QED BY <3>1, <3>2, <3>4, Stutters
  <2>2. CASE multi_tap_input_init
    BY <2>2, Comes
  <2>3. CASE EarlyKey \/ EarlyKeyExpires \/ safety_emergency_shutdown \/ User
    <3>1. UNCHANGED <<main, ram, flash, condition>>
      BY <2>3 DEF EarlyKey, EarlyKeyExpires, safety_emergency_shutdown, User,
           cb_config_floor_set, cb_config_ceiling_set, ui_toggle_mode,
           cb_cal_thermal_limit_set, cb_cal_voltage_set, action_factory_reset,
           Handles, restVars, deviceVars, staticVars
    <3>2. Ready' <=> Ready
      BY <3>1, Statements DEF Ready
    <3> QED BY <3>1, <3>2, Stutters
  <2>4. CASE PowerLoss \/ sys_reboot
    BY <2>4, Loses DEF PowerLoss, sys_reboot, Promise!Next
  <2>5. CASE fsm_emergency_off
    <3>1. CASE Restart("fatal")
      BY <3>1, Loses DEF Promise!Next
    <3>2. CASE Halt /\ ~HasHome
      <4>1. main \in 0..8 \/ main = 10
        BY <3>2, Statements DEF HasHome, IInv, TypeOK, Halted
      <4>2. ~Ready /\ ~Ready' /\ UNCHANGED <<flash, condition>>
        BY <3>2, <4>1, Statements DEF Halt, Halted, Ready, restVars, deviceVars
      <4> QED BY <4>2, Stutters
    <3>3. CASE UNCHANGED <<main, job, restVars, ram, mounted, click_timer>>
      <4>1. UNCHANGED <<main, ram, flash, condition>>
        BY <3>3 DEF restVars, deviceVars
      <4>2. Ready' <=> Ready
        BY <4>1, Statements DEF Ready
      <4> QED BY <4>1, <4>2, Stutters
    <3> QED BY <2>5, <3>1, <3>2, <3>3 DEF fsm_emergency_off, Fatal
  <2>6. CASE Assigns
    BY <2>6, Sets
  <2>7. CASE nvs_write_byte
    BY <2>7, Saves
  <2>8. CASE nvs_delete
    BY <2>8, Forgets
  <2>9. CASE UNCHANGED vars
    <3>1. UNCHANGED <<main, ram, flash, condition>>
      BY <2>9 DEF vars, deviceVars, staticVars
    <3>2. Ready' <=> Ready
      BY <3>1, Statements DEF Ready
    <3> QED BY <3>1, <3>2, Stutters
  <2> QED BY <2>1, <2>2, <2>3, <2>4, <2>5, <2>6, <2>7, <2>8, <2>9 DEF Next, User
<1> QED BY <1>1, <1>2, Invariance, PTL DEF Spec, ImplementsSettings, Promise!Spec
=============================================================================
