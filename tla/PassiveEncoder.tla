--------------------------- MODULE PassiveEncoder ---------------------------
(***************************************************************************)
(* The passive trigger encoder of a CAN teaching handle.  First            *)
(* DriverCanMit::configure_passive_encoder() validates and corrects its    *)
(* frequencies over request and reply frames that carry no identification  *)
(* of the register they answer; then ServoCanPassiveEncoder polls it, one  *)
(* request at a time, with a ladder of reactions to its silence: hold the  *)
(* last value, restart its firmware once, give up.                         *)
(*                                                                         *)
(* A tick of time passes between two reads of the control loop.  Replies   *)
(* may be lost, late or both at once on the bus; the encoder may fall      *)
(* silent at any time, and a restart may or may not bring it back.  The     *)
(* value of an answer, and the buttons published with it, are left out.     *)
(***************************************************************************)
EXTENDS Integers, Sequences

CONSTANTS
    RequiredFrequency, \* kPassiveEncoderRequiredAdcFrequency, ...ReportFrequency
    Unset,             \* 0xFF, an uninitialised high byte
    Layouts,           \* the EEPROM contents an encoder may come with
    FirmwareCompat,    \* the values of passive_encoder_firmware_compat
    MaxLate,           \* replies that may be late or lost
    ResponseDeadline,  \* PASSIVE_ENCODER_RESPONSE_DEADLINE, in ticks
    RetryBackoff,      \* PASSIVE_ENCODER_RETRY_BACKOFF
    StartTimeout,      \* PASSIVE_ENCODER_START_TIMEOUT
    RestartAt,         \* PASSIVE_ENCODER_RESTART_AT
    FailureAt          \* PASSIVE_ENCODER_FAILURE_AT

Registers == {"adcHigh", "adcLow", "reportHigh", "reportLow"}
Absent == -1    \* a register the encoder's EEPROM does not have

ASSUME LayoutAssumption ==
    /\ RequiredFrequency \in 0 .. 254 /\ Unset = 255
    /\ Layouts \subseteq [Registers -> 0 .. 255 \cup {Absent}]
    /\ FirmwareCompat \subseteq BOOLEAN
ASSUME TimeAssumption ==
    /\ {ResponseDeadline, RetryBackoff, StartTimeout} \subseteq Nat \ {0}
    /\ RestartAt \in Nat /\ FailureAt \in Nat /\ RestartAt < FailureAt
    /\ StartTimeout < FailureAt
    /\ MaxLate \in Nat

VARIABLES
    compat,    \* passive_encoder_firmware_compat
    eeprom,    \* the encoder's EEPROM
    stage,     \* "version", "survey", "adc", "report", "drain", "probe", "read" or "failed"
    register,  \* the register being read, or "set"
    asked,     \* its request has been sent
    values,    \* the bytes taken as the registers' contents
    replies,   \* replies that have arrived and are not read yet
    delayed,   \* replies still under way
    lates,     \* replies that were late or lost so far
    guessed,     \* a byte that the encoder has was given up on (history)
    link,      \* outstanding poll, its age, the ticks to the next one, silence, restart_sent_
    answering, \* the encoder answers polls
    inFlight,  \* polls the encoder has yet to answer
    updated,   \* update_count_ differs from last_update_count_
    restarts,  \* firmware restarts since the last response (history)
    calm       \* ticks since an unanswered poll timed out or a restart (history)

setupVars == <<compat, eeprom, register, asked, values, replies, delayed, lates, guessed>>
pollVars == <<link, answering, inFlight, updated, restarts, calm>>
encoderVars == <<setupVars, stage, pollVars>>

EncoderTypeOK ==
    /\ compat \in FirmwareCompat
    /\ eeprom \in [Registers -> 0 .. 255 \cup {Absent}]
    /\ stage \in {"version", "survey", "adc", "report", "drain", "probe", "read", "failed"}
    /\ register \in Registers \cup {"set"} /\ asked \in BOOLEAN
    /\ values \in [Registers -> 0 .. 255]
    /\ replies \in Seq(0 .. 255) /\ delayed \in Seq(0 .. 255)
    /\ lates \in 0 .. MaxLate /\ guessed \in BOOLEAN
    /\ link.outstanding \in BOOLEAN /\ link.restarted \in BOOLEAN
    /\ link.age \in 0 .. ResponseDeadline
    /\ link.wait \in 0 .. RetryBackoff
    /\ link.silence \in 0 .. FailureAt
    /\ answering \in BOOLEAN /\ updated \in BOOLEAN
    /\ inFlight \in 0 .. 2
    /\ restarts \in 0 .. 2
    /\ calm \in 0 .. RetryBackoff

AtLimit(limit, x) == IF x > limit THEN limit ELSE x

EncoderInit ==
    /\ compat \in FirmwareCompat
    /\ eeprom \in Layouts
    /\ stage = "version" /\ register = "adcHigh" /\ asked = FALSE
    /\ values = [r \in Registers |-> 0]
    /\ replies = <<>> /\ delayed = <<>> /\ lates = 0 /\ guessed = FALSE
    /\ link = [outstanding |-> FALSE, age |-> 0, wait |-> 0, silence |-> 0,
               restarted |-> FALSE]
    /\ answering = TRUE /\ inFlight = 0 /\ updated = FALSE
    /\ restarts = 0 /\ calm = RetryBackoff

-----------------------------------------------------------------------------
(* DriverCanMit::configure_passive_encoder(), before motors are enabled.    *)

\* *p_frequency of read_passive_encoder_frequency()
Frequency(high, low) == IF high = Unset THEN low ELSE 256 * high + low
AdcOf(v) == Frequency(v["adcHigh"], v["adcLow"])
ReportOf(v) == Frequency(v["reportHigh"], v["reportLow"])

\* What the encoder itself works with: a register that is not there counts as
\* unset.
Present(v) == [r \in Registers |-> IF v[r] = Absent THEN Unset ELSE v[r]]

EncoderFails ==
    /\ stage \in {"version", "survey", "adc", "report", "probe"}
    /\ stage' = "failed"
    /\ UNCHANGED <<setupVars, pollVars>>

\* The firmware version is recent enough.
VersionAccepted ==
    /\ stage = "version"
    /\ stage' = "survey"
    /\ UNCHANGED <<setupVars, pollVars>>

Asking == stage \in {"survey", "adc", "report"}

\* read_passive_encoder_eeprom(): the request.  The reply comes at once, late
\* or never; a register that is not implemented gets none.
AskRegister ==
    /\ Asking /\ register # "set" /\ ~asked
    /\ asked' = TRUE
    /\ \/ /\ eeprom[register] # Absent
          /\ replies' = Append(replies, eeprom[register])
          /\ UNCHANGED <<delayed, lates>>
       \/ /\ eeprom[register] # Absent /\ lates < MaxLate
          /\ delayed' = Append(delayed, eeprom[register])
          /\ lates' = lates + 1
          /\ UNCHANGED replies
       \/ /\ eeprom[register] # Absent /\ lates < MaxLate
          /\ lates' = lates + 1
          /\ UNCHANGED <<replies, delayed>>
       \/ /\ eeprom[register] = Absent
          /\ UNCHANGED <<replies, delayed, lates>>
    /\ UNCHANGED <<compat, eeprom, register, values, guessed, stage, pollVars>>

\* A delayed reply reaches the socket.
DeliverReply ==
    /\ stage \in {"survey", "adc", "report", "drain"} /\ delayed # <<>>
    /\ replies' = Append(replies, Head(delayed))
    /\ delayed' = Tail(delayed)
    /\ UNCHANGED <<compat, eeprom, register, asked, values, lates, guessed, stage, pollVars>>

\* What follows the read of a register: the other byte, the other frequency,
\* the correction of a wrong one and its verification, or the end.
AfterSurvey(v) ==
    IF AdcOf(v) # RequiredFrequency THEN <<"adc", "set">>
    ELSE IF ReportOf(v) # RequiredFrequency THEN <<"report", "set">> ELSE <<"drain", "set">>

AfterAdc(v) ==
    IF AdcOf(v) # RequiredFrequency THEN <<"failed", "set">>
    ELSE IF ReportOf(v) # RequiredFrequency THEN <<"report", "set">> ELSE <<"drain", "set">>

AfterReport(v) ==
    IF ReportOf(v) # RequiredFrequency THEN <<"failed", "set">> ELSE <<"drain", "set">>

AfterRegister(v) ==
    CASE register = "adcHigh" -> <<stage, "adcLow">>
      [] register = "reportHigh" -> <<stage, "reportLow">>
      [] register = "adcLow" /\ stage = "survey" -> <<stage, "reportHigh">>
      [] register = "adcLow" /\ stage = "adc" -> AfterAdc(v)
      [] register = "reportLow" /\ stage = "survey" -> AfterSurvey(v)
      [] register = "reportLow" /\ stage = "report" -> AfterReport(v)

Store(byte) ==
    /\ values' = [values EXCEPT ![register] = byte]
    /\ asked' = FALSE
    /\ stage' = AfterRegister(values')[1]
    /\ register' = AfterRegister(values')[2]

\* The first reply that carries the right command is taken.
TakeReply ==
    /\ Asking /\ asked /\ replies # <<>>
    /\ Store(Head(replies))
    /\ replies' = Tail(replies)
    /\ UNCHANGED <<compat, eeprom, delayed, lates, guessed, pollVars>>

\* No reply before the timeout: in compat mode a silent high byte counts as
\* unset; otherwise the start-up fails.
ReplyTimesOut ==
    /\ Asking /\ asked /\ replies = <<>>
    /\ guessed' = (guessed \/ eeprom[register] # Absent)
    /\ IF compat /\ register \in {"adcHigh", "reportHigh"}
       THEN Store(Unset)
       ELSE stage' = "failed" /\ asked' = FALSE /\ UNCHANGED <<values, register>>
    /\ UNCHANGED <<compat, eeprom, replies, delayed, lates, pollVars>>

\* The correction of a frequency, which the encoder stores or misses.
SetFrequency(stored) ==
    /\ stage \in {"adc", "report"} /\ register = "set"
    /\ LET high == IF stage = "adc" THEN "adcHigh" ELSE "reportHigh"
           low == IF stage = "adc" THEN "adcLow" ELSE "reportLow"
       IN  /\ eeprom' = IF stored
                        THEN [eeprom EXCEPT ![low] = RequiredFrequency,
                                            ![high] = IF @ = Absent THEN @ ELSE 0]
                        ELSE eeprom
           /\ register' = high
    /\ UNCHANGED <<compat, asked, values, replies, delayed, lates, guessed, stage, pollVars>>

\* drain_startup_frames(), after which the reception thread takes over.
DrainFrames ==
    /\ stage = "drain"
    /\ stage' = "probe"
    /\ replies' = <<>> /\ delayed' = <<>>
    /\ UNCHANGED <<compat, eeprom, register, asked, values, lates, guessed, pollVars>>

-----------------------------------------------------------------------------
(* ServoCanPassiveEncoder.                                                 *)

\* The poll rules.  k is the link at this read, after the passing of a tick.
Aged(k) == [k EXCEPT !.age = AtLimit(ResponseDeadline, @ + 1),
                     !.wait = IF @ = 0 THEN 0 ELSE @ - 1,
                     !.silence = IF stage = "read" THEN AtLimit(FailureAt, @ + 1) ELSE @ + 1]

Overdue(k) == k.outstanding /\ k.age >= ResponseDeadline
BackOff(k) == [k EXCEPT !.outstanding = FALSE, !.wait = RetryBackoff]

\* A fresh response ends the silence.
Heard(k) == [k EXCEPT !.outstanding = FALSE, !.silence = 0, !.restarted = FALSE]

Restarts(k) == ~k.restarted /\ k.silence >= RestartAt

Restart(k) == [BackOff(k) EXCEPT !.restarted = TRUE]

\* The link after the reactions to a fresh response or to silence.
Managed(k) ==
    IF updated THEN Heard(k)
    ELSE LET t == IF Overdue(k) THEN BackOff(k) ELSE k
         IN  IF stage = "read" /\ Restarts(t) THEN Restart(t) ELSE t

\* A silent encoder is never given up.
GiveUpNever(k) == FALSE

GiveUp(k) == k.silence >= FailureAt

PollDue(k) == ~k.outstanding /\ k.wait = 0

\* A poll that is answered or not; one that finds the encoder busy is lost.
SendPoll(k) ==
    /\ link' = [k EXCEPT !.outstanding = TRUE, !.age = 0, !.wait = 1]
    /\ inFlight' = IF answering THEN AtLimit(2, inFlight + 1) ELSE inFlight

\* start_hardware(): polls until the first response or the timeout.
Probe ==
    /\ stage = "probe"
    /\ LET k == Aged(link)
           t == IF Overdue(k) THEN BackOff(k) ELSE k
       IN  IF updated
           THEN /\ link' = Heard(k) /\ stage' = "read"
                /\ UNCHANGED inFlight
           ELSE IF k.silence > StartTimeout
           THEN /\ link' = [k EXCEPT !.silence = 0] /\ stage' = "failed"
                /\ UNCHANGED inFlight
           ELSE /\ IF PollDue(t) THEN SendPoll(t) ELSE link' = t /\ UNCHANGED inFlight
                /\ UNCHANGED stage
    /\ calm' = IF ~updated /\ Overdue(Aged(link)) THEN 0 ELSE AtLimit(RetryBackoff, calm + 1)
    /\ updated' = FALSE
    /\ UNCHANGED <<setupVars, answering, restarts>>

\* read_hardware_values(): a silence of FailureAt escalates before any poll.
ReadEncoder ==
    /\ stage = "read"
    /\ LET k == Aged(link)
           t == Managed(k)
           restarting == ~updated /\ Restarts(k)
       IN  /\ restarts' = IF updated THEN 0
                          ELSE IF restarting THEN AtLimit(2, restarts + 1) ELSE restarts
           /\ calm' = IF ~updated /\ (Overdue(k) \/ restarting) THEN 0
                      ELSE AtLimit(RetryBackoff, calm + 1)
           /\ \/ /\ restarting
                 /\ answering' \in {answering, TRUE}
              \/ ~restarting /\ UNCHANGED answering
           /\ IF GiveUp(t)
              THEN stage' = "failed" /\ link' = t /\ UNCHANGED inFlight
              ELSE /\ IF PollDue(t) THEN SendPoll(t) ELSE link' = t /\ UNCHANGED inFlight
                   /\ UNCHANGED stage
    /\ updated' = FALSE
    /\ UNCHANGED setupVars

\* The reception thread stores an answer; a second one before the next read
\* overwrites it.
StoreAnswer ==
    /\ stage \in {"probe", "read"} /\ inFlight > 0
    /\ inFlight' = inFlight - 1
    /\ updated' = TRUE
    /\ UNCHANGED <<setupVars, stage, link, answering, restarts, calm>>

\* The encoder falls silent, and with it the polls it has not answered.
FallSilent ==
    /\ stage \in {"probe", "read"} /\ answering
    /\ answering' = FALSE /\ inFlight' = 0
    /\ UNCHANGED <<setupVars, stage, link, updated, restarts, calm>>

EncoderNext ==
    \/ VersionAccepted \/ AskRegister \/ DeliverReply \/ TakeReply \/ ReplyTimesOut
    \/ \E stored \in BOOLEAN : SetFrequency(stored)
    \/ DrainFrames \/ EncoderFails
    \/ Probe \/ ReadEncoder \/ StoreAnswer \/ FallSilent

\* The control loop reads the encoder once per period.
EncoderSpec == EncoderInit /\ [][EncoderNext]_encoderVars /\ WF_encoderVars(ReadEncoder)
-----------------------------------------------------------------------------
(* Properties.                                                             *)

\* An encoder that is started works with the required frequencies, although
\* the replies do not say which register they answer, provided that compat mode
\* took no byte for missing that is only late or lost.
StartedAsRequired ==
    stage \in {"drain", "probe", "read"} /\ ~guessed =>
        /\ AdcOf(Present(eeprom)) = RequiredFrequency
        /\ ReportOf(Present(eeprom)) = RequiredFrequency

\* An encoder is restarted at most once between two responses: the reboot
\* takes longer than the reads that find it silent.
OneRestart == restarts <= 1

\* No poll is sent within the back-off after an unanswered poll or a restart,
\* even when the answer to the former one arrives late.
BackOffKept ==
    [][inFlight' > inFlight \/ (link'.age = 0 /\ link'.outstanding /\ ~link.outstanding)
            => calm' = RetryBackoff]_encoderVars

\* An encoder that stays silent is given up: its last trigger value is not
\* held for ever.
SilenceEnds == []<>(stage # "read" \/ updated)

\* An encoder is started as the driver needs it, asked no faster than it can
\* answer, restarted once and then given up.
EncoderIsKept ==
    [](EncoderTypeOK /\ StartedAsRequired /\ OneRestart) /\ BackOffKept /\ SilenceEnds
=============================================================================
