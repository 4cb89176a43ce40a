---------------------------- MODULE TactileSensor ----------------------------
(***************************************************************************)
(* RobotiqTactileSensor (tsf/sdk_cpp): a serial port, the acquisition      *)
(* thread that reads packets from it, an owner that constructs, stops,     *)
(* starts and destroys the object, and a caller that asks for a baseline   *)
(* or the firmware version while the thread runs.                          *)
(*                                                                         *)
(* One action is one access to an atomic, one critical section or one call *)
(* of the port.  The sensor's samples are the numbers under which they     *)
(* were parsed; packets arrive whole (the framing of bytes is not part of  *)
(* this module), in chunks, and any request or write may get lost.         *)
(***************************************************************************)
EXTENDS Naturals, Sequences, FiniteSets

CONSTANTS
  PeriodMs,          \* period_ms of the constructor, not zero
  BaselineSamples,   \* samples averaged by findBaseline() (1000)
  MaxTimeout,        \* polls before findBaseline() gives up (500)
  MaxParsed,         \* bound: sensor packets parsed in a behaviour
  MaxChunk,          \* bound: packets one turn of the loop finds waiting
  MaxRequests        \* bound: version requests the sensor has not answered

ASSUME SensorAssumption ==
  /\ PeriodMs \in Nat \ {0}
  /\ BaselineSamples \in Nat \ {0}
  /\ MaxTimeout \in Nat \ {0}
  /\ MaxParsed \in Nat
  /\ MaxChunk \in Nat
  /\ MaxRequests \in Nat

VARIABLES
  owner,          \* where the owner of the object is
  port,           \* m_port
  connected,      \* m_connected
  running,        \* m_running
  thread,         \* the acquisition thread; "none" until it is created
  chunk,          \* m_receiveBuffer: packets read and not yet parsed
  parsed,         \* number of the last sensor packet parsed
  calculating,    \* m_calculatingBaseline
  samples,        \* m_baselineSamples
  versionReady,   \* m_versionReady
  version,        \* m_firmwareVersion
  caller,         \* where the calling thread is
  polls,          \* timeout_counter of findBaseline()
  since,          \* parsed, when findBaseline() last began
  result,         \* how the last call returned, "none" while it runs
  baseline,       \* its output: the samples averaged by findBaseline()
  answer,         \* its output: the version of getFirmwareVersion()
  autosend,       \* sensor: it sends samples on its own
  requests,       \* sensor: version requests not yet answered
  writeLost       \* some write of the thread did not reach the sensor

objectVars  == <<owner, port, connected, running>>
baseVars    == <<calculating, samples>>
versionVars == <<versionReady, version>>
outputs     == <<baseline, answer>>
callVars    == <<caller, polls, since, result, outputs>>
lineVars    == <<autosend, requests, writeLost>>
threadVars  == <<thread, chunk, parsed>>

vars == <<objectVars, threadVars, baseVars, versionVars, callVars, lineVars>>

(* The firmware's version string, and the cleared std::string.             *)
FirmwareVersion == "version"
Empty           == "empty"

(* What a packet is to threadLoop(): sensor data, a version reply, or one  *)
(* that it ignores (another command, or no field it knows).                *)
Packets == {"sensor", "version", "other"}

SensorInit ==
  /\ owner = "none"
  /\ port = "none"
  /\ connected = FALSE
  /\ running = FALSE
  /\ thread = "none"
  /\ chunk = <<>>
  /\ parsed = 0
  /\ calculating = FALSE
  /\ samples = <<>>
  /\ versionReady = FALSE
  /\ version = Empty
  /\ caller = "idle"
  /\ polls = 0
  /\ since = 0
  /\ result = "none"
  /\ baseline = <<>>
  /\ answer = Empty
  /\ autosend \in BOOLEAN
  /\ requests = 0
  /\ writeLost = FALSE

-----------------------------------------------------------------------------
(* The owner.                                                              *)

(* The constructor finds or opens no port: it returns with no thread.      *)
ConstructFails ==
  /\ owner = "none"
  /\ owner' = "built"
  /\ UNCHANGED <<port, connected, running, threadVars, baseVars, versionVars,
                 callVars, lineVars>>

Construct ==
  /\ owner = "none"
  /\ owner' = "built"
  /\ port' = "open"
  /\ connected' = TRUE
  /\ running' = TRUE
  /\ thread' = "starting"
  /\ UNCHANGED <<chunk, parsed, baseVars, versionVars, callVars, lineVars>>

(* A std::thread that was started is joinable until it is joined, whether  *)
(* or not its function has returned.                                       *)
Joinable == thread # "none"

(* stop(): the flag only; nobody waits for the thread.                     *)
Stop ==
  /\ owner = "built"
  /\ running' = FALSE
  /\ UNCHANGED <<owner, port, connected, threadVars, baseVars, versionVars,
                 callVars, lineVars>>

(* start(): creates a thread only when the handle is not joinable.         *)
Start ==
  /\ owner = "built"
  /\ ~running
  /\ connected
  /\ running' = TRUE
  /\ thread' = IF Joinable THEN thread ELSE "starting"
  /\ UNCHANGED <<owner, port, connected, chunk, parsed, baseVars, versionVars,
                 callVars, lineVars>>

(* The destructor, which no other call of the object may overlap.          *)
Destroy ==
  /\ owner = "built"
  /\ caller = "idle"
  /\ owner' = "joining"
  /\ running' = FALSE
  /\ UNCHANGED <<port, connected, threadVars, baseVars, versionVars, callVars,
                 lineVars>>

(* Mutant of JoinAndClose: the thread is left to end by itself.            *)
CloseWithoutJoin ==
  /\ owner = "joining"
  /\ owner' = "gone"
  /\ port' = IF port = "open" THEN "closed" ELSE port
  /\ UNCHANGED <<connected, running, threadVars, baseVars, versionVars,
                 callVars, lineVars>>

(* The thread is joined, then the port closed and freed.                   *)
JoinAndClose ==
  /\ owner = "joining"
  /\ Joinable => thread = "ended"
  /\ owner' = "gone"
  /\ port' = IF port = "open" THEN "closed" ELSE port
  /\ UNCHANGED <<connected, running, threadVars, baseVars, versionVars,
                 callVars, lineVars>>

-----------------------------------------------------------------------------
(* The acquisition thread: threadLoop().                                   *)

(* usbSend() of an autosend period, which the packet holds in one byte;    *)
(* threadLoop() ignores its result.                                        *)
SendPeriod(ms) ==
  \/ autosend' = (ms % 256 # 0) /\ UNCHANGED <<requests, writeLost>>
  \/ writeLost' = TRUE /\ UNCHANGED <<autosend, requests>>

ThreadStarts ==
  /\ thread = "starting"
  /\ SendPeriod(PeriodMs)
  /\ thread' = "testing"
  /\ UNCHANGED <<objectVars, chunk, parsed, baseVars, versionVars, callVars>>

(* while (m_running)                                                       *)
TestRunning ==
  /\ thread = "testing"
  /\ thread' = IF running THEN "reading" ELSE "leaving"
  /\ UNCHANGED <<objectVars, chunk, parsed, baseVars, versionVars, callVars,
                 lineVars>>

(* No byte within a millisecond, or an error of the port.                  *)
ReadNothing ==
  /\ thread = "reading"
  /\ thread' = "testing"
  /\ UNCHANGED <<objectVars, chunk, parsed, baseVars, versionVars, callVars,
                 lineVars>>

HowMany(packets, kind) ==
  Cardinality({ i \in DOMAIN packets : packets[i] = kind })

(* Packets the port may hold: samples at any time (an earlier session may  *)
(* have left the sensor sending), version replies to requests only.        *)
Arriving ==
  { packets \in UNION { [1..n -> Packets] : n \in 1..MaxChunk } :
      /\ parsed + HowMany(packets, "sensor") <= MaxParsed
      /\ HowMany(packets, "version") <= requests }

ReadChunk ==
  /\ thread = "reading"
  /\ \E packets \in Arriving :
       /\ chunk' = packets
       /\ requests' = requests - HowMany(packets, "version")
  /\ thread' = "parsing"
  /\ UNCHANGED <<objectVars, parsed, baseVars, versionVars, callVars,
                 autosend, writeLost>>

(* The packet in hand is done: the next one of the chunk, or the loop      *)
(* test.  m_running is not looked at within a chunk.                       *)
NextPacket ==
  /\ chunk' = Tail(chunk)
  /\ thread' = IF Len(chunk) = 1 THEN "testing" ELSE "parsing"

ParseVersion ==
  /\ thread = "parsing"
  /\ Head(chunk) = "version"
  /\ version' = FirmwareVersion
  /\ versionReady' = TRUE
  /\ NextPacket
  /\ UNCHANGED <<objectVars, parsed, baseVars, callVars, lineVars>>

ParseOther ==
  /\ thread = "parsing"
  /\ Head(chunk) = "other"
  /\ NextPacket
  /\ UNCHANGED <<objectVars, parsed, baseVars, versionVars, callVars, lineVars>>

(* Sensor data are stamped, then m_calculatingBaseline is read: without a  *)
(* baseline in progress the callback gets the sample.                      *)
ParseSensors ==
  /\ thread = "parsing"
  /\ Head(chunk) = "sensor"
  /\ parsed' = parsed + 1
  /\ IF calculating THEN thread' = "storing" /\ UNCHANGED chunk
                    ELSE NextPacket
  /\ UNCHANGED <<objectVars, baseVars, versionVars, callVars, lineVars>>

(* Mutant of StoreSample: the vector may grow past its reserve.            *)
StoreAlways ==
  /\ thread = "storing"
  /\ samples' = Append(samples, parsed)
  /\ NextPacket
  /\ UNCHANGED <<objectVars, parsed, calculating, versionVars, callVars,
                 lineVars>>

(* The critical section that stores the sample, whatever happened to the   *)
(* baseline since the flag was read.                                       *)
StoreSample ==
  /\ thread = "storing"
  /\ samples' = IF Len(samples) < BaselineSamples
                THEN Append(samples, parsed) ELSE samples
  /\ NextPacket
  /\ UNCHANGED <<objectVars, parsed, calculating, versionVars, callVars,
                 lineVars>>

(* Mutant of ThreadEnds: the thread returns without the last message.      *)
EndsSending ==
  /\ thread = "leaving"
  /\ thread' = "ended"
  /\ UNCHANGED <<objectVars, chunk, parsed, baseVars, versionVars, callVars,
                 lineVars>>

ThreadEnds ==
  /\ thread = "leaving"
  /\ SendPeriod(0)
  /\ thread' = "ended"
  /\ UNCHANGED <<objectVars, chunk, parsed, baseVars, versionVars, callVars>>

-----------------------------------------------------------------------------
(* The caller: findBaseline() and getFirmwareVersion().                    *)

CallerFree == owner = "built" /\ caller = "idle"

(* A call returns; one that fails writes no output of interest.            *)
Return(r) == caller' = "idle" /\ result' = r
Fail == Return("failed") /\ UNCHANGED outputs

(* Both calls return false at once when the port did not open.             *)
CallRefused ==
  /\ CallerFree
  /\ ~connected
  /\ Fail
  /\ UNCHANGED <<objectVars, threadVars, baseVars, versionVars, polls, since,
                 lineVars>>

(* Mutant of BaselineBegins: it counts on the last call to have cleared.   *)
BaselineContinues ==
  /\ CallerFree
  /\ connected
  /\ calculating' = TRUE
  /\ caller' = "polling"
  /\ polls' = 0
  /\ since' = parsed
  /\ result' = "none"
  /\ baseline' = <<>>
  /\ UNCHANGED <<objectVars, threadVars, samples, versionVars, answer,
                 lineVars>>

(* The vector is cleared and the flag set in one critical section.         *)
BaselineBegins ==
  /\ CallerFree
  /\ connected
  /\ samples' = <<>>
  /\ calculating' = TRUE
  /\ caller' = "polling"
  /\ polls' = 0
  /\ since' = parsed
  /\ result' = "none"
  /\ baseline' = <<>>
  /\ UNCHANGED <<objectVars, threadVars, versionVars, answer, lineVars>>

(* Mutant of BaselinePoll: no time-out.                                    *)
PollForever ==
  /\ caller = "polling"
  /\ caller' = IF ~connected THEN "quitting"
               ELSE IF Len(samples) >= BaselineSamples THEN "averaging"
               ELSE "polling"
  /\ UNCHANGED <<objectVars, threadVars, baseVars, versionVars, polls, since,
                 result, outputs, lineVars>>

(* One turn of the polling loop.  The time-out comes before the test for   *)
(* enough samples: the last poll gives up even when they are all there.    *)
BaselinePoll ==
  /\ caller = "polling"
  /\ polls' = polls + 1
  /\ caller' = IF ~connected \/ polls' >= MaxTimeout THEN "quitting"
               ELSE IF Len(samples) >= BaselineSamples THEN "averaging"
               ELSE "polling"
  /\ UNCHANGED <<objectVars, threadVars, baseVars, versionVars, since, result,
                 outputs, lineVars>>

(* Mutant of BaselineGivesUp: the flag stays set.                          *)
GivesUpCollecting ==
  /\ caller = "quitting"
  /\ Fail
  /\ UNCHANGED <<objectVars, threadVars, baseVars, versionVars, polls, since,
                 lineVars>>

(* The samples collected so far stay in the vector.                        *)
BaselineGivesUp ==
  /\ caller = "quitting"
  /\ calculating' = FALSE
  /\ Fail
  /\ UNCHANGED <<objectVars, threadVars, samples, versionVars, polls, since,
                 lineVars>>

(* The sum of all samples, divided by the constant: the baseline is kept   *)
(* as the samples it is made of.                                           *)
BaselineAverages ==
  /\ caller = "averaging"
  /\ calculating' = FALSE
  /\ samples' = <<>>
  /\ Return("baseline")
  /\ baseline' = samples
  /\ UNCHANGED <<objectVars, threadVars, versionVars, polls, since, answer,
                 lineVars>>

(* Mutant of VersionBegins: the string is cleared, the flag is not.        *)
VersionBeginsReady ==
  /\ CallerFree
  /\ connected
  /\ requests < MaxRequests
  /\ version' = Empty
  /\ caller' = "requesting"
  /\ result' = "none"
  /\ UNCHANGED <<objectVars, threadVars, baseVars, versionReady, polls, since,
                 outputs, lineVars>>

VersionBegins ==
  /\ CallerFree
  /\ connected
  /\ requests < MaxRequests
  /\ versionReady' = FALSE
  /\ version' = Empty
  /\ caller' = "requesting"
  /\ result' = "none"
  /\ UNCHANGED <<objectVars, threadVars, baseVars, polls, since, outputs,
                 lineVars>>

(* usbSend() fails, or the request is on its way; it may get lost.         *)
VersionSendFails ==
  /\ caller = "requesting"
  /\ Fail
  /\ UNCHANGED <<objectVars, threadVars, baseVars, versionVars, polls, since,
                 lineVars>>

VersionSend ==
  /\ caller = "requesting"
  /\ requests' \in {requests, requests + 1}
  /\ caller' = "waiting"
  /\ UNCHANGED <<objectVars, threadVars, baseVars, versionVars, polls, since,
                 result, outputs, autosend, writeLost>>

(* wait_for() with a predicate: the flag decides, at the time-out too.     *)
VersionArrives ==
  /\ caller = "waiting"
  /\ versionReady
  /\ Return("version")
  /\ answer' = version
  /\ UNCHANGED <<objectVars, threadVars, baseVars, versionVars, polls, since,
                 baseline, lineVars>>

VersionTimesOut ==
  /\ caller = "waiting"
  /\ ~versionReady
  /\ Fail
  /\ UNCHANGED <<objectVars, threadVars, baseVars, versionVars, polls, since,
                 lineVars>>

-----------------------------------------------------------------------------
OwnerNext ==
  ConstructFails \/ Construct \/ Stop \/ Start \/ Destroy \/ JoinAndClose

ThreadNext ==
  \/ ThreadStarts \/ TestRunning \/ ReadNothing \/ ReadChunk
  \/ ParseVersion \/ ParseOther \/ ParseSensors \/ StoreSample
  \/ ThreadEnds

(* What a caller inside one of the calls does next.                        *)
CallContinues ==
  \/ BaselinePoll \/ BaselineGivesUp \/ BaselineAverages
  \/ VersionSendFails \/ VersionSend \/ VersionArrives \/ VersionTimesOut

CallerNext ==
  CallRefused \/ BaselineBegins \/ VersionBegins \/ CallContinues

SensorNext == OwnerNext \/ ThreadNext \/ CallerNext

SensorSafety == SensorInit /\ [][SensorNext]_vars

(* The threads run, and time passes for a caller that waits; the sensor    *)
(* owes nothing.                                                           *)
SensorSpec ==
  /\ SensorSafety
  /\ WF_vars(ThreadNext)
  /\ WF_vars(CallContinues)
  /\ WF_vars(JoinAndClose)

-----------------------------------------------------------------------------
(* Types.  The vector of samples never outgrows what was reserved for it.  *)
ObjectTypeOK ==
  /\ owner \in {"none", "built", "joining", "gone"}
  /\ port \in {"none", "open", "closed"}
  /\ connected \in BOOLEAN
  /\ running \in BOOLEAN

ThreadTypeOK ==
  /\ thread \in {"none", "starting", "testing", "reading", "parsing",
                 "storing", "leaving", "ended"}
  /\ chunk \in Seq(Packets)
  /\ parsed \in Nat

BaselineTypeOK ==
  /\ calculating \in BOOLEAN
  /\ samples \in Seq(Nat)
  /\ Len(samples) <= BaselineSamples

VersionTypeOK ==
  /\ versionReady \in BOOLEAN
  /\ version \in {FirmwareVersion, Empty}

CallTypeOK ==
  /\ caller \in {"idle", "polling", "quitting", "averaging", "requesting",
                 "waiting"}
  /\ polls \in Nat
  /\ since \in Nat
  /\ result \in {"none", "failed", "baseline", "version"}
  /\ baseline \in Seq(Nat)
  /\ answer \in {FirmwareVersion, Empty}

LineTypeOK ==
  /\ autosend \in BOOLEAN
  /\ requests \in Nat
  /\ writeLost \in BOOLEAN

SensorTypeOK ==
  /\ ObjectTypeOK /\ ThreadTypeOK /\ BaselineTypeOK
  /\ VersionTypeOK /\ CallTypeOK /\ LineTypeOK

(* Samples taken by this call: at most the first was parsed before it.     *)
OnlyFirstIsStale(taken) == \A i \in 2..Len(taken) : taken[i] > since

(* A baseline that findBaseline() returns is the average of exactly as     *)
(* many samples as it divides by, none of them left over from an earlier   *)
(* call that gave up: of all of them only the first can be older than the  *)
(* call (the thread read the flag for the previous call and stored after   *)
(* this one cleared the vector).                                           *)
BaselineIsSound ==
  result = "baseline" =>
    /\ Len(baseline) = BaselineSamples
    /\ OnlyFirstIsStale(baseline)

(* getFirmwareVersion() returning true hands over a reply, never the       *)
(* string it cleared, whichever request the reply was to.                  *)
VersionIsAnswered ==
  result = "version" => answer = FirmwareVersion

(* The destructor closes the port only when the thread has left it: a      *)
(* thread that reads or writes has an open port.                           *)
PortOutlivesThread == thread \notin {"none", "ended"} => port = "open"

(* However findBaseline() returns, samples go to the callback again.       *)
BaselineEndsClean == calculating => caller \in {"polling", "quitting",
                                                "averaging"}

(* A sensor whose object is gone was told to stop sending, unless a write  *)
(* of the thread failed; so it was even when the object was destroyed      *)
(* before the thread had run at all.                                       *)
SensorLeftQuiet == owner = "gone" /\ connected /\ ~writeLost => ~autosend

(* findBaseline(), getFirmwareVersion() and the destructor return, whether *)
(* or not the sensor sends anything and whoever stopped the thread.        *)
SensorCallsReturn ==
  /\ caller # "idle" ~> caller = "idle"
  /\ owner = "joining" ~> owner = "gone"

(* RobotiqTactileSensor.h: start() is to "manually start data collection   *)
(* (after stop)".  So a running sensor has a thread that will look at      *)
(* m_running again.                                                        *)
RunningCollects == running => thread \notin {"none", "leaving", "ended"}
=============================================================================
