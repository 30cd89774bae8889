------------------------------- MODULE Settings -------------------------------
(***************************************************************************)
(* The settings of the reader: the server configures its frequencies and   *)
(* the power of its four antennas, and asks for them.                      *)
(*                                                                         *)
(* setRfidConfig and execute send requests and wait for no answer;         *)
(* getAntSettings sends one request at a time and waits for its answer or  *)
(* for UNLOCK_TIMEOUT.  Both run on the websocket thread.  The answers are *)
(* decoded on the serial thread: it stores the fields into _ant_sets one   *)
(* after the other without _mutex, and then takes _mutex to end the wait.  *)
(* A wait ends with any answer to the command it waits for, that of an     *)
(* earlier request included; how it ends is module ReplyWait's.  No        *)
(* inventory runs.                                                         *)
(*                                                                         *)
(* The reader is outside the program: it takes the requests in their order *)
(* and answers each; it refuses settings that are out of range, and sends  *)
(* one power if all antennas have the same.                                *)
(***************************************************************************)
EXTENDS PacketParser

CONSTANTS SetRegion, GetRegion, SetPower, GetPower,   \* command ids
          Success, Fail,     \* error codes
          MaxFrequency,      \* MAX_FREQUENCY_CODE
          MaxPower,          \* 0x21
          Configurations,    \* what the server may configure: frequencies as
                             \*   <<region, start, end>>, and powers; either is
                             \*   <<>> if it is missing or is not made of bytes
          Unread,            \* an uninitialised value
          MaxRequests        \* bound: configurations and questions of the server

ETSI == 2
Quantity == 4      \* ESpektrumRegion::QUANTITY
Antennas == 1..4

ASSUME CommandsAssumption == /\ Commands = {SetRegion, GetRegion, SetPower, GetPower}
                             /\ {SetRegion, GetRegion} \cap {SetPower, GetPower} = {}
                             /\ SetRegion # GetRegion /\ SetPower # GetPower
ASSUME WidthAssumption == Width > 7    \* a packet's length is a byte
ASSUME LimitsAssumption == /\ {Success, Fail, MaxFrequency, MaxPower} \subseteq Byte
                           /\ MaxFrequency >= 6
ASSUME ConfigurationsAssumption ==
    \A c \in Configurations : /\ c.region = <<>> \/ c.region \in [1..3 -> Byte]
                              /\ c.powers \in Seq(Byte)
ASSUME MaxRequestsAssumption == MaxRequests \in Nat

VARIABLES requests,  \* what was written to the port and the reader has not taken
          reader,    \* the reader's settings
          antSets,   \* _ant_sets
          storing,   \* the serial thread is at the stores of message, or has
                     \*   not ended the wait for it yet
          ws,        \* the websocket thread: "idle", or the step of getAntSettings
          report,    \* what it returned last
          asked,     \* configurations and questions so far
          wanted,    \* the settings last configured (history)
          kept,      \* no request was lost, and no configuration was out of
                     \*   range (history)
          late,      \* an answer nobody waits for any more may be on its way
                     \*   (history)
          past       \* settings the reader has had (history)

history == <<wanted, kept, late, past>>
settingsVars == <<parserVars, requests, reader, antSets, storing, ws, report, asked,
                  history>>

Initially == [region |-> <<ETSI, 0, 6>>, powers |-> [a \in Antennas |-> 0]]
Blank == [region |-> [k \in 1..3 |-> Unread], powers |-> [a \in Antennas |-> Unread]]

SettingsInit == /\ ParserInit
                /\ requests = <<>>
                /\ reader = Initially
                /\ antSets = Blank
                /\ storing = FALSE
                /\ ws = "idle"
                /\ report = Blank
                /\ asked = 0
                /\ wanted = Initially
                /\ kept = TRUE
                /\ late = FALSE
                /\ past = {Initially}
-----------------------------------------------------------------------------
(* Command::setFrequencyRegion. *)
Frequencies(region, start, end) ==
    LET inRange == start <= end /\ start <= MaxFrequency /\ end <= MaxFrequency
    IN <<IF Quantity < region THEN ETSI ELSE region,
         IF inRange THEN start ELSE 0,
         IF inRange THEN end ELSE 6>>

(* Mutant: the highest power is taken for too high. *)
PowersBelow(p) == [a \in Antennas |-> IF p[a] < MaxPower THEN p[a] ELSE 0]

(* Command::setOutputPower. *)
Powers(p) == [a \in Antennas |-> IF p[a] <= MaxPower THEN p[a] ELSE 0]

(* RfidController::execute: the requests it sends, none if the number of   *)
(* parameters is wrong.                                                    *)
ExecuteRegion(buf) ==
    CASE Len(buf) = 3 -> <<Request(SetRegion, Frequencies(buf[1], buf[2], buf[3]))>>
      [] Len(buf) = 2 -> <<Request(SetRegion, Frequencies(buf[1], buf[2], buf[2]))>>
      [] OTHER -> <<>>

Spread(buf) == [a \in Antennas |-> IF Len(buf) = 1 THEN buf[1] ELSE buf[a]]

ExecutePowers(buf) ==
    IF Len(buf) \in {1, 4} THEN <<Request(SetPower, Powers(Spread(buf)))>> ELSE <<>>

InRange(c) == /\ c.region # <<>> => /\ c.region[1] \in 1..3
                                    /\ c.region[2] <= c.region[3]
                                    /\ c.region[3] <= MaxFrequency
              /\ \A k \in DOMAIN c.powers : c.powers[k] <= MaxPower

(* Mutant: the powers go first, and the region only if there are none. *)
ConfigureOne(c) ==
    /\ ws = "idle"
    /\ asked < MaxRequests
    /\ asked' = asked + 1
    /\ requests' = requests \o IF c.powers # <<>> THEN ExecutePowers(c.powers)
                               ELSE ExecuteRegion(c.region)
    /\ wanted' = [region |-> IF c.region = <<>> THEN wanted.region ELSE c.region,
                  powers |-> IF Len(c.powers) \in {1, 4} THEN Spread(c.powers)
                             ELSE wanted.powers]
    /\ kept' = (kept /\ InRange(c))
    /\ UNCHANGED <<parserVars, reader, antSets, storing, ws, report, late, past>>

(* CommandHandler::setRfidConfig.  The frequencies are sent before the     *)
(* powers are read: one that is no byte ends the command in between.       *)
Configure(c) ==
    /\ ws = "idle"
    /\ asked < MaxRequests
    /\ asked' = asked + 1
    /\ requests' = requests \o ExecuteRegion(c.region) \o ExecutePowers(c.powers)
    /\ wanted' = [region |-> IF c.region = <<>> THEN wanted.region ELSE c.region,
                  powers |-> IF Len(c.powers) \in {1, 4} THEN Spread(c.powers)
                             ELSE wanted.powers]
    /\ kept' = (kept /\ InRange(c))
    /\ UNCHANGED <<parserVars, reader, antSets, storing, ws, report, late, past>>
-----------------------------------------------------------------------------
(* getAntSettings: a question without parameters, and the wait for it. *)
Ask(cmd, next) == /\ requests' = Append(requests, Request(cmd, <<>>))
                  /\ ws' = next

AskRegion == /\ ws = "idle"
             /\ asked < MaxRequests
             /\ asked' = asked + 1
             /\ Ask(GetRegion, "region")
             /\ late' = (late /\ (requests # <<>> \/ line # <<>> \/ storing))
             /\ UNCHANGED <<parserVars, reader, antSets, storing, report, wanted, kept, past>>

AskPower == /\ ws = "askPower"
            /\ Ask(GetPower, "power")
            /\ UNCHANGED <<parserVars, reader, antSets, storing, report, asked, history>>

Timeout == /\ ws \in {"region", "power"}
           /\ ws' = IF ws = "region" THEN "askPower" ELSE "report"
           /\ late' = TRUE
           /\ UNCHANGED <<parserVars, requests, reader, antSets, storing, report, asked,
                          wanted, kept, past>>

-----------------------------------------------------------------------------
(* Mutant: the powers are taken from an answer of any length. *)
OnGetOutputPowerOfAny(data) == [antSets EXCEPT !.powers = [a \in Antennas |-> data[1]]]

(* Command::onGetOutputPower: an answer with one power for each antenna is *)
(* taken for an error.                                                     *)
OnGetOutputPower(data) ==
    IF Len(data) = 1 THEN [antSets EXCEPT !.powers = [a \in Antennas |-> data[1]]]
                     ELSE antSets

OnGetFrequencyRegion(data) ==
    IF Len(data) = 3 THEN [antSets EXCEPT !.region = data] ELSE antSets

(* What _ant_sets is once the fields of an answer are stored. *)
Decoded == IF message.cmd = GetRegion THEN OnGetFrequencyRegion(message.data)
                                      ELSE OnGetOutputPower(message.data)

(* Mutant: the wait is ended before the answer is stored. *)
RunSerialNotifying ==
    /\ ~storing
    /\ OnByte
    /\ storing' = (message'.cmd \in {GetRegion, GetPower})
    /\ ws' = CASE message'.cmd = GetRegion /\ ws = "region" -> "askPower"
               [] message'.cmd = GetPower /\ ws = "power" -> "report"
               [] OTHER -> ws
    /\ UNCHANGED <<requests, reader, antSets, report, asked, history>>

(* A byte is read; an answer it completes is going to be stored. *)
RunSerial == /\ ~storing
             /\ OnByte
             /\ storing' = (message'.cmd \in {GetRegion, GetPower})
             /\ UNCHANGED <<requests, reader, antSets, ws, report, asked, history>>

(* notifyOneCmdResult: the wait for the answer ends. *)
Answered == ws' = CASE message.cmd = GetRegion /\ ws = "region" -> "askPower"
                    [] message.cmd = GetPower /\ ws = "power" -> "report"
                    [] OTHER -> ws

(* The last field is stored, and the waiting thread is notified. *)
Store == /\ storing
         /\ storing' = FALSE
         /\ antSets' = Decoded
         /\ Answered
         /\ UNCHANGED <<parserVars, requests, reader, report, asked, history>>

(* What a copy of f may hold while the fields of g are stored over them. *)
Copies(f, g) ==
    {[k \in DOMAIN f |-> IF k \in stored THEN g[k] ELSE f[k]] : stored \in SUBSET DOMAIN f}

(* getAntSettings copies _ant_sets, which an answer nobody waits for any   *)
(* more may be changing under it.                                          *)
Report == /\ ws = "report"
          /\ \E region \in Copies(antSets.region, IF storing THEN Decoded.region
                                                              ELSE antSets.region),
                powers \in Copies(antSets.powers, IF storing THEN Decoded.powers
                                                              ELSE antSets.powers) :
                report' = [region |-> region, powers |-> powers]
          /\ ws' = "idle"
          /\ UNCHANGED <<parserVars, requests, reader, antSets, storing, asked, history>>
-----------------------------------------------------------------------------
(* The reader. *)
Become(settings) == /\ reader' = settings
                    /\ past' = past \cup {settings}

Taken == Message(SubSeq(Head(requests), 1, BlockLen(Head(requests))))

Valid(cmd, data) ==
    IF cmd = SetRegion
      THEN /\ Len(data) = 3 /\ data[1] \in 1..3
           /\ data[2] <= data[3] /\ data[3] <= MaxFrequency
      ELSE Len(data) = 4 /\ \A a \in Antennas : data[a] <= MaxPower

ReaderSets == \E cmd \in {SetRegion, SetPower} :
                 /\ Taken.cmd = cmd
                 /\ IF Valid(cmd, Taken.data)
                      THEN /\ Become(IF cmd = SetRegion
                                       THEN [reader EXCEPT !.region = Taken.data]
                                       ELSE [reader EXCEPT !.powers = Taken.data])
                           /\ ReaderSends(cmd, <<Success>>)
                      ELSE /\ ReaderSends(cmd, <<Fail>>)
                           /\ UNCHANGED <<reader, past>>

Uniform(p) == \A a \in Antennas : p[a] = p[1]

ReaderTells == /\ \/ /\ Taken.cmd = GetRegion
                     /\ ReaderSends(GetRegion, reader.region)
                  \/ /\ Taken.cmd = GetPower
                     /\ ReaderSends(GetPower, IF Uniform(reader.powers)
                                                THEN <<reader.powers[1]>>
                                                ELSE reader.powers)
               /\ UNCHANGED <<reader, past>>

ReaderAnswers == /\ requests # <<>>
                 /\ requests' = Tail(requests)
                 /\ ReaderSets \/ ReaderTells
                 /\ UNCHANGED <<antSets, storing, ws, report, asked, wanted, kept, late>>

(* The line loses a request; or the reader does not take it for a packet,  *)
(* which is none of the line's doing.                                      *)
RequestIsLost == /\ requests # <<>>
                 /\ requests' = Tail(requests)
                 /\ kept' = (kept /\ Taken = NoMessage)
                 /\ UNCHANGED <<parserVars, reader, antSets, storing, ws, report, asked,
                                wanted, late, past>>

SettingsNext == \/ \E c \in Configurations : Configure(c)
                \/ AskRegion \/ AskPower \/ Timeout \/ Report
                \/ RunSerial \/ Store
                \/ ReaderAnswers \/ RequestIsLost

SettingsSpec == SettingsInit /\ [][SettingsNext]_settingsVars
-----------------------------------------------------------------------------
Settings == [region : [1..3 -> Byte \cup {Unread}],
             powers : [Antennas -> Byte \cup {Unread}]]

SettingsTypeOK == /\ ParserTypeOK
                  /\ requests \in Seq(Seq(Byte))
                  /\ {reader, antSets, report, wanted} \subseteq Settings
                  /\ storing \in BOOLEAN
                  /\ ws \in {"idle", "region", "askPower", "power", "report"}
                  /\ asked \in 0..MaxRequests
                  /\ kept \in BOOLEAN /\ late \in BOOLEAN

(* What the server configures is what the reader is set to once it has     *)
(* taken the requests, if none was lost and all values were in range: the  *)
(* packet in front of each request is one the reader understands, nothing  *)
(* that is in range is replaced, and the last request of a kind prevails.  *)
(* That the reader passes over the zeros behind a packet is assumed.       *)
ConfiguredIsSet == kept /\ requests = <<>> => reader = wanted

(* Settings are reported as they are, of the reader's own powers at least  *)
(* if all antennas have the same, unless an answer has come too late; and  *)
(* again once the answers that came too late have been read and stored.    *)
ReportIsCurrent ==
    [][Report /\ ~late => /\ report'.region = reader.region
                          /\ Uniform(reader.powers) => report'.powers = reader.powers]_settingsVars

(* However answers are lost, corrupted or late, each reported field is the *)
(* reader's own of some time, and no report mixes more than two settings   *)
(* of the reader: an answer that is stored while _ant_sets is copied, and  *)
(* the one stored before; before the first answer _ant_sets holds what the *)
(* memory held.                                                            *)
NothingIsInvented ==
    /\ \E p, q \in past \cup {Blank} :
          \A k \in 1..3 : report.region[k] \in {p.region[k], q.region[k]}
    /\ \E p, q \in past \cup {Blank} :
          \A a \in Antennas : report.powers[a] \in {p.powers[a], q.powers[a]}
=============================================================================
