------------------------------ MODULE Feedback ------------------------------
(***************************************************************************)
(* From what the camera says to what the interfaces show: texts reach the  *)
(* state store through the rules of the telemetry map (TelemetryManager)   *)
(* and through properties of the /linear session (SonyLinear); the typed   *)
(* slots of external controllers, the status documents and TCP GET read    *)
(* them back (VsmGeneric, WebApp, ControlProtocol).                        *)
(*                                                                         *)
(* Time is millis(), which wraps around at ClockSpan; ages are differences *)
(* of two of its values.  A text stands for all that are read like it.     *)
(***************************************************************************)
EXTENDS Naturals

CONSTANTS States,         \* state ids, of the 23
          Rule,           \* the telemetry map's rule of each
          Properties,     \* camera property -> the states it sets, by text
          Responses,      \* what a poll may be answered with
          FreshMs,        \* telemetryFreshMs
          ClockSpan,      \* 2^32
          Horizon         \* bound: age at which a history stops ageing

Empty == ""
NoText == "no text"
Texts == {"true", "false", "ready", "idle", "12", "1.5", "other", Empty}
Kinds == {"Bool", "Int", "Float", "Text"}
Modes == {"whole", "between", "json", "header"}

ASSUME FeedbackAssumption ==
  /\ {FreshMs, ClockSpan, Horizon} \subseteq Nat
  /\ FreshMs < ClockSpan /\ ClockSpan < Horizon
  /\ \A s \in States : Rule[s].mode \in Modes /\ Rule[s].trues \subseteq Texts
  /\ \A r \in Responses : r.part \in [Modes -> Texts \cup {NoText}]
  /\ \A p \in DOMAIN Properties : \A t \in DOMAIN Properties[p] :
       LET told == Properties[p][t]
       IN  DOMAIN told \subseteq States /\ \A s \in DOMAIN told : told[s] \in Texts

VARIABLES millis,
          values,           \* state -> raw text, valid, updatedMs
          lastTelemetryMs,  \* 0 for never
          cameraReachable,
          said,             \* history: the text the camera last gave a state
          age,              \* history: how long ago, really
          updateAge         \* history: since any state was updated

feedbackVars == <<millis, values, lastTelemetryMs, cameraReachable, said, age, updateAge>>

Unset == [raw |-> Empty, valid |-> FALSE, updatedMs |-> 0]

FeedbackInit ==
  /\ millis \in 0..ClockSpan - 1
  /\ values = [s \in States |-> Unset]
  /\ lastTelemetryMs = 0
  /\ cameraReachable = FALSE
  /\ said = [s \in States |-> NoText]
  /\ age = [s \in States |-> Horizon] /\ updateAge = Horizon

Longer(n) == IF n < Horizon THEN n + 1 ELSE n

TimePasses ==
  /\ millis' = (millis + 1) % ClockSpan
  /\ age' = [s \in States |-> Longer(age[s])]
  /\ updateAge' = Longer(updateAge)
  /\ UNCHANGED <<values, lastTelemetryMs, cameraReachable, said>>

-----------------------------------------------------------------------------
(* Writing                                                                 *)

(* CameraStateStore::set of several states. *)
SetStates(raws) ==
  values' = [s \in States |-> IF s \in DOMAIN raws
               THEN [raw |-> raws[s], valid |-> TRUE, updatedMs |-> millis] ELSE values[s]]

(* The history of what the camera said, whatever was made of it. *)
Says(texts) ==
  /\ said' = [s \in States |-> IF s \in DOMAIN texts THEN texts[s] ELSE said[s]]
  /\ age' = [s \in States |-> IF s \in DOMAIN texts THEN 0 ELSE age[s]]
  /\ updateAge' = IF DOMAIN texts = {} THEN updateAge ELSE 0

(* TelemetryManager::extract: an empty text is none, but for a header.     *)
Extract(rule, response) ==
  LET text == response.part[rule.mode]
  IN  IF text = Empty /\ rule.mode # "header" THEN NoText ELSE text

Normalize(rule, text) ==
  IF text \in rule.trues THEN "true" ELSE IF text \in rule.falses THEN "false" ELSE text

Accepted(response) == response.transportOk /\ response.httpStatus \in 200..299

(* The states a response tells of, and what it says of each.  One that was *)
(* cut has its status and headers, but says nothing.                       *)
Told(source, response) ==
  [s \in {r \in States : Rule[r].source = source /\ Extract(Rule[r], response) # NoText} |->
     Normalize(Rule[s], Extract(Rule[s], response))]

PollAnswered(source, response) ==
  LET told == Told(source, response)
  IN /\ cameraReachable' = response.transportOk
     /\ IF Accepted(response)
        THEN SetStates(told) /\ lastTelemetryMs' = IF told = <<>> THEN lastTelemetryMs ELSE millis
        ELSE UNCHANGED <<values, lastTelemetryMs>>
     /\ Says(IF response.transportOk /\ response.httpStatus \in 200..299 THEN told ELSE <<>>)
     /\ UNCHANGED millis

(* mergeProperties of one object: a property the bridge does not know sets *)
(* nothing, and the time is noted all the same.                            *)
MergeProperties(property, text) ==
  LET told == Properties[property][text]
  IN /\ SetStates(told) /\ Says(told)
     /\ lastTelemetryMs' = millis
     /\ UNCHANGED <<millis, cameraReachable>>

(* ensureConnected, closeConnection, runMapped and the test routes.        *)
Contacted ==
  /\ cameraReachable' \in BOOLEAN
  /\ UNCHANGED <<millis, values, lastTelemetryMs, said, age, updateAge>>

FeedbackNext ==
  \/ TimePasses \/ Contacted
  \/ \E s \in States, r \in Responses : PollAnswered(Rule[s].source, r)
  \/ \E p \in DOMAIN Properties : \E t \in DOMAIN Properties[p] : MergeProperties(p, t)

FeedbackSpec == FeedbackInit /\ [][FeedbackNext]_feedbackVars

-----------------------------------------------------------------------------
(* Reading                                                                 *)

(* Slip: a time stamp from before the wrap-around counts as the future. *)
SinceClipped(then) == IF millis >= then THEN millis - then ELSE 0
Since(then) == (millis + ClockSpan - then) % ClockSpan

IsFresh(s) == values[s].valid /\ Since(values[s].updatedMs) <= FreshMs

(* textBool knows words that parseBool does not, and one the other way.    *)
TextIsTrue(text) == text \in {"true", "ready"}
ParseBool(text) ==
  IF text = "true" THEN {TRUE} ELSE IF text \in {"false", "idle"} THEN {FALSE} ELSE {}
ParseNumber(kind, text) ==
  IF text = "12" \/ (text = "1.5" /\ kind = "Float") THEN {text} ELSE {}

(* What a slot shows of a text: nothing if it is not of the slot's kind.   *)
Parsed(kind, text) ==
  CASE kind = "Bool" -> ParseBool(text)
    [] kind \in {"Int", "Float"} -> ParseNumber(kind, text)
    [] kind = "Text" -> {text} \ {Empty}

SourceText(s) == IF IsFresh(s) THEN values[s].raw ELSE Empty
FeedbackSlot(kind, s) == Parsed(kind, SourceText(s))

(* The status documents; GET answers VALUE with the text, or STALE.        *)
StatusBool(s) == IF IsFresh(s) THEN {TextIsTrue(values[s].raw)} ELSE {}
GetValue(s) == IF IsFresh(s) THEN {values[s].raw} ELSE {}

(* bridge.telemetry_fresh                                                  *)
TelemetryFresh ==
  /\ lastTelemetryMs # 0 /\ cameraReachable
  /\ Since(lastTelemetryMs) <= FreshMs

-----------------------------------------------------------------------------
(* Properties                                                              *)

(* "Stale data is diagnostic, not current truth" (docs/ARCHITECTURE.md:    *)
(* 40): whatever the order of polls, refused answers, notifications and    *)
(* the wrap-around of millis(), each interface shows a state exactly while *)
(* what the camera itself said of it is recent, and shows that; no two of  *)
(* them contradict each other.  It takes that no sample is as old as the   *)
(* clock's span, 49 days, when it begins to look recent again.             *)
Known(s) == said[s] # NoText /\ age[s] <= FreshMs

FeedbackIsCurrent ==
  \A s \in States : (age[s] < ClockSpan \/ said[s] = NoText) =>
    /\ GetValue(s) = IF Known(s) THEN {said[s]} ELSE {}
    /\ \A kind \in Kinds : FeedbackSlot(kind, s) = IF Known(s) THEN Parsed(kind, said[s]) ELSE {}
    /\ \A b \in FeedbackSlot("Bool", s) : StatusBool(s) = {b}

(* "'Telemetry fresh' means at least one configured semantic state was     *)
(* actually updated" (TelemetryManager.cpp:107).                           *)
TelemetryFreshMeansUpdate ==
  TelemetryFresh /\ updateAge < ClockSpan => updateAge <= FreshMs
=============================================================================
