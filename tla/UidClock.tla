------------------------------ MODULE UidClock ------------------------------
(***************************************************************************)
(* How the UIDs of im-message are put together and why they differ:        *)
(* BitsAllocator lays out sign, seconds, worker and sequence in one long,  *)
(* every start of the service takes a new worker id from the database, and *)
(* the seconds come from a clock that may be set back (DefaultUidGenerator)*)
(* or are borrowed one after the other from the start (CachedUidGenerator, *)
(* whose ring is the subject of UidRing).                                  *)
(*                                                                         *)
(* Seconds count from epochSeconds; a clock before the epoch is left out.  *)
(* nextId is synchronized: one call per instance runs at a time, so the    *)
(* record gen[p] holds the locals of the call that has the lock.           *)
(***************************************************************************)
EXTENDS Integers

CONSTANTS
    Instance,     \* instances of im-message
    Cached,       \* those that use CachedUidGenerator
    TimeBits, WorkerBits, SeqBits,
    MaxClock,     \* bound on the clock
    MaxBacks,     \* bound on the times the clock is set back
    MaxRows,      \* bound on the rows of WORKER_NODE
    MaxBorrowed   \* bound on the seconds CachedUidGenerator reaches

ASSUME CachedAssumption == Cached \subseteq Instance
ASSUME BitsAssumption   == {TimeBits, WorkerBits, SeqBits} \subseteq Nat \ {0}
ASSUME BoundsAssumption == {MaxClock, MaxBacks, MaxRows, MaxBorrowed} \subseteq Nat

(* Laws of the exponents, which the provers do not know. *)
ASSUME PowersAssumption ==
    /\ {2^TimeBits, 2^WorkerBits, 2^SeqBits} \subseteq Nat \ {0}
    /\ 2^(WorkerBits + SeqBits) = 2^WorkerBits * 2^SeqBits
    /\ 2^(TimeBits + (WorkerBits + SeqBits)) = 2^TimeBits * 2^(WorkerBits + SeqBits)

VARIABLES
    clock,        \* System.currentTimeMillis in seconds since the epoch
    backs,        \* times the clock has been set back
    rows,         \* rows of WORKER_NODE, the last id it has generated
    gen,          \* the generator of each instance
    issued,       \* history: the UIDs handed out
    repeated,     \* history: a UID was handed out a second time
    exhausted     \* history: a call gave up while waiting for the next second

history == <<issued, repeated, exhausted>>
vars    == <<clock, backs, rows, gen, history>>

(* The widths of BitsAllocator, and the longs it makes: TOTAL_BITS is the sum, *)
(* which its constructor requires to be 64.                                    *)
MaxDeltaSeconds == 2^TimeBits - 1
MaxWorkerId     == 2^WorkerBits - 1
MaxSequence     == 2^SeqBits - 1
TimestampShift  == WorkerBits + SeqBits
SignBit         == 2^(TimeBits + TimestampShift)
Uid             == 0 .. 2 * SignBit - 1

(* Mutant: the worker id is shifted by the wrong width. *)
AllocateNarrow(deltaSeconds, workerId, sequence) ==
    (deltaSeconds * 2^TimestampShift + workerId * 2^(SeqBits - 1) + sequence) % (2 * SignBit)

(* BitsAllocator.allocate: bits shifted out of the long are lost; the worker   *)
(* id and the sequence fit their fields, so that | adds them up.               *)
Allocate(deltaSeconds, workerId, sequence) ==
    (deltaSeconds * 2^TimestampShift + workerId * 2^SeqBits + sequence) % (2 * SignBit)

(* DefaultUidGenerator.parseUID *)
Parse(uid) == [deltaSeconds |-> uid \div 2^TimestampShift,
               workerId     |-> (uid % 2^TimestampShift) \div 2^SeqBits,
               sequence     |-> uid % 2^SeqBits]

(* The long of a bit pattern. *)
Signed(uid) == IF uid < SignBit THEN uid ELSE uid - 2 * SignBit

Generator == [at: {"down", "ready", "compare", "wait"}, workerId: 0 .. MaxWorkerId,
              sequence: 0 .. MaxSequence, lastSecond: Int, now: Int]

Down == [at |-> "down", workerId |-> 0, sequence |-> 0, lastSecond |-> -1, now |-> 0]

TypeOK ==
    /\ clock \in 0 .. MaxClock
    /\ backs \in 0 .. MaxBacks
    /\ rows \in 0 .. MaxRows
    /\ gen \in [Instance -> Generator]
    /\ issued \subseteq Uid
    /\ repeated \in BOOLEAN
    /\ exhausted \in BOOLEAN

Init ==
    /\ clock \in 0 .. MaxClock
    /\ backs = 0
    /\ rows = 0
    /\ gen = [p \in Instance |-> Down]
    /\ issued = {}
    /\ repeated = FALSE
    /\ exhausted = FALSE

-----------------------------------------------------------------------------
(* The clock and the instances *)

Tick ==
    /\ clock < MaxClock
    /\ clock' = clock + 1
    /\ UNCHANGED <<backs, rows, gen, history>>

SetBack ==
    /\ backs < MaxBacks
    /\ backs' = backs + 1
    /\ clock' \in 0 .. clock - 1
    /\ UNCHANGED <<rows, gen, history>>

(* afterPropertiesSet: a worker id that is too large makes the start fail; a   *)
(* new BufferPaddingExecutor starts from the clock.                            *)
Started(p, workerId) ==
    IF workerId > MaxWorkerId
    THEN Down
    ELSE [Down EXCEPT !.at = "ready", !.workerId = workerId,
                      !.lastSecond = IF p \in Cached THEN clock ELSE -1]

(* Mutant: the row may be rolled back and its id generated again. *)
StartRolledBack(p) ==
    /\ gen[p].at = "down"
    /\ rows < MaxRows
    /\ rows' \in {rows, rows + 1}
    /\ gen' = [gen EXCEPT ![p] = Started(p, rows + 1)]
    /\ UNCHANGED <<clock, backs, history>>

(* assignWorkerId: every start, of whatever host, inserts a row and takes the  *)
(* id the database generates for it.                                           *)
Start(p) ==
    /\ gen[p].at = "down"
    /\ rows < MaxRows
    /\ rows' = rows + 1
    /\ gen' = [gen EXCEPT ![p] = Started(p, rows')]
    /\ UNCHANGED <<clock, backs, history>>

(* A crash, at any step; the row stays. *)
Crash(p) ==
    /\ gen[p].at # "down"
    /\ gen' = [gen EXCEPT ![p] = Down]
    /\ UNCHANGED <<clock, backs, rows, history>>

-----------------------------------------------------------------------------
(* DefaultUidGenerator.nextId *)

IsExhausted(second) == second > MaxDeltaSeconds

HandOut(uids) ==
    /\ issued' = issued \cup uids
    /\ repeated' = (repeated \/ uids \cap issued # {})

(* Mutant: getCurrentSecond does not look at the time bits. *)
ReadClockUnbounded(p) ==
    /\ p \notin Cached
    /\ gen[p].at = "ready"
    /\ gen' = [gen EXCEPT ![p].at = "compare", ![p].now = clock]
    /\ UNCHANGED <<clock, backs, rows, history>>

(* The first getCurrentSecond; when the time bits are used up it throws. *)
ReadClock(p) ==
    /\ p \notin Cached
    /\ gen[p].at = "ready"
    /\ ~IsExhausted(clock)
    /\ gen' = [gen EXCEPT ![p].at = "compare", ![p].now = clock]
    /\ UNCHANGED <<clock, backs, rows, history>>

(* The clock moved backwards: the call throws. *)
Refuse(p) ==
    /\ gen[p].at = "compare"
    /\ gen[p].now < gen[p].lastSecond
    /\ gen' = [gen EXCEPT ![p].at = "ready", ![p].now = 0]
    /\ UNCHANGED <<clock, backs, rows, history>>

NewSecond(p) ==
    /\ gen[p].at = "compare"
    /\ gen[p].now > gen[p].lastSecond
    /\ gen' = [gen EXCEPT ![p].at = "ready", ![p].now = 0,
                          ![p].sequence = 0, ![p].lastSecond = gen[p].now]
    /\ HandOut({Allocate(gen[p].now, gen[p].workerId, 0)})
    /\ UNCHANGED <<clock, backs, rows, exhausted>>

(* Mutant: the sequence is not masked. *)
NextSequenceUnmasked(sequence) == sequence + 1

NextSequence(sequence) == (sequence + 1) % (MaxSequence + 1)

(* The same second: a sequence that wraps around waits for the next one. *)
SameSecond(p) ==
    /\ gen[p].at = "compare"
    /\ gen[p].now = gen[p].lastSecond
    /\ LET sequence == NextSequence(gen[p].sequence)
       IN  IF sequence = 0
           THEN /\ gen' = [gen EXCEPT ![p].at = "wait", ![p].sequence = 0]
                /\ UNCHANGED <<issued, repeated>>
           ELSE /\ gen' = [gen EXCEPT ![p].at = "ready", ![p].now = 0,
                                      ![p].sequence = sequence]
                /\ HandOut({Allocate(gen[p].now, gen[p].workerId, sequence)})
    /\ UNCHANGED <<clock, backs, rows, exhausted>>

(* getNextSecond reads a clock past the last second. *)
NextSecond(p) ==
    /\ gen[p].at = "wait"
    /\ ~IsExhausted(clock)
    /\ clock > gen[p].lastSecond
    /\ gen' = [gen EXCEPT ![p].at = "ready", ![p].now = 0, ![p].lastSecond = clock]
    /\ HandOut({Allocate(clock, gen[p].workerId, 0)})
    /\ UNCHANGED <<clock, backs, rows, exhausted>>

(* Mutant: the wait goes on when the clock cannot be used. *)
GiveUpNever(p) ==
    /\ gen[p].at = "wait"
    /\ IsExhausted(clock)
    /\ UNCHANGED vars

(* getNextSecond finds the time bits used up and throws: the sequence is 0     *)
(* again, lastSecond is the old one.                                           *)
GiveUp(p) ==
    /\ gen[p].at = "wait"
    /\ IsExhausted(clock)
    /\ gen' = [gen EXCEPT ![p].at = "ready", ![p].now = 0]
    /\ exhausted' = TRUE
    /\ UNCHANGED <<clock, backs, rows, issued, repeated>>

NextId(p) == \/ ReadClock(p) \/ Refuse(p) \/ NewSecond(p)
             \/ SameSecond(p) \/ NextSecond(p) \/ GiveUp(p)

-----------------------------------------------------------------------------
(* CachedUidGenerator.nextIdsForOneSecond(lastSecond.incrementAndGet()): all   *)
(* the UIDs of the second, consecutive from its first; neither the clock nor   *)
(* the time bits are looked at.                                                *)
Borrow(p) ==
    /\ p \in Cached
    /\ gen[p].at = "ready"
    /\ gen[p].lastSecond < MaxBorrowed
    /\ gen' = [gen EXCEPT ![p].lastSecond = @ + 1]
    /\ LET first == Allocate(gen'[p].lastSecond, gen[p].workerId, 0)
       IN  HandOut(first .. first + MaxSequence)
    /\ UNCHANGED <<clock, backs, rows, exhausted>>

-----------------------------------------------------------------------------
Next ==
    \/ Tick \/ SetBack
    \/ \E p \in Instance: Start(p) \/ Crash(p) \/ NextId(p) \/ Borrow(p)

Spec == Init /\ [][Next]_vars

(* The clock goes on, and a call that has the lock goes on.  Neither is true   *)
(* of a crashed instance, and nobody has to start or to call one.              *)
FairSpec ==
    /\ Spec
    /\ WF_vars(Tick)
    /\ \A p \in Instance:
          WF_vars(Refuse(p) \/ NewSecond(p) \/ SameSecond(p) \/ NextSecond(p) \/ GiveUp(p))

-----------------------------------------------------------------------------
(* UniqueUid: no UID is handed out twice, by any two instances, across crashes *)
(* and restarts, however the clock is set back - unless a call gave up at the  *)
(* last second the time bits can express.                                      *)
UniqueUid == ~exhausted => ~repeated

(* ParsesBack: parseUID gives back the worker, the second and (for nextId) the *)
(* sequence of the generator that has just made the UID, even where the second *)
(* has run into the sign bit.                                                  *)
ParsesBack ==
    [][\A u \in issued' \ issued: \E p \in Instance:
          /\ Parse(u).workerId = gen'[p].workerId
          /\ Parse(u).deltaSeconds = gen'[p].lastSecond
          /\ p \notin Cached => Parse(u).sequence = gen'[p].sequence]_vars

(* NextIdIncreases: the longs that one start of DefaultUidGenerator hands out  *)
(* are not negative and increase, unless a call gave up while waiting.         *)
NextIdIncreases ==
    [][\A u \in issued' \ issued, p \in Instance \ Cached:
          ~exhausted /\ gen[p].workerId = Parse(u).workerId =>
             /\ Signed(u) >= 0
             /\ \A v \in issued:
                   Parse(v).workerId = Parse(u).workerId => Signed(v) < Signed(u)]_vars

(* CallEnds: a nextId that waits for the next second, which keeps every other  *)
(* caller of its instance waiting for the lock, ends although the clock is set *)
(* back meanwhile, passes the second unseen, or runs out of time bits.         *)
CallEnds == \A p \in Instance: gen[p].at = "wait" ~> gen[p].at # "wait"
=============================================================================
