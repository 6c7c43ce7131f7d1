----------------------------- MODULE WebhookIngress -----------------------------
(***************************************************************************)
(* The webhook services of WhatsApp and Telegram, with commit before the   *)
(* answer: a request is checked, normalized as a whole, and its messages   *)
(* are submitted one by one: the durable store is probed, the pipeline     *)
(* processes the event, and the store is probed again before the request   *)
(* is acknowledged.  The service call blocks the event loop, so a process  *)
(* handles one request at a time.  The platform sends a request again      *)
(* until it is answered with 200, and may give up one that was refused.    *)
(***************************************************************************)
EXTENDS Integers, Sequences, FiniteSets, FiniteSetTheorems, TLAPS

CONSTANTS
  Requests,  \* [id, service, gate, messages]: a message is [key, form]
  Configs,   \* the environments a process may start in: subsets of the settings
  MaxFaults, \* bound on failures of the store, crashes and lost answers
  MaxResends \* bound on deliveries of a request beyond the first that is acknowledged or refused

VARIABLES
  status,   \* [Requests -> "waiting", "handled", "acked", "refused" or "dropped"]
  serving,  \* the process of each service: "down", "up", or "unfit" (its configuration is refused)
  settings, \* what its environment holds
  handling, \* what it works on: a request and the message at hand, or Idle
  stored,   \* the rows of the durable store: [id, key]
  mishaps, resends, \* bounded
  answers   \* ghost: the 200s: [request, duplicate, before]

ingressVars == <<status, serving, settings, handling, stored, mishaps, resends, answers>>

Services == {"whatsapp", "telegram"}
Idle == [at |-> "idle"]
TelegramNeeds == {"secret", "database", "port"}
WhatsAppNeeds == TelegramNeeds \cup {"token"}
Needed(s) == IF s = "whatsapp" THEN WhatsAppNeeds ELSE TelegramNeeds

\* A request's messages are a sequence.
RequestsOK == \A r \in Requests : r.messages \in Seq({r.messages[i] : i \in DOMAIN r.messages})
Keys(r) == {r.messages[i].key : i \in DOMAIN r.messages}
Ids == {e.id : e \in stored}
\* An event's id is derived from its source and the platform's ids: the services share none.
KeysApart == \A r, q \in Requests : r.service # q.service => Keys(r) \cap Keys(q) = {}

Init ==
  /\ status = [r \in Requests |-> "waiting"] /\ serving = [s \in Services |-> "down"]
  /\ settings \in [Services -> Configs] /\ handling = [s \in Services |-> Idle]
  /\ stored = {} /\ mishaps = 0 /\ resends = 0 /\ answers = {}

TypeOK ==
  /\ status \in [Requests -> {"waiting", "handled", "acked", "refused", "dropped"}]
  /\ serving \in [Services -> {"down", "up", "unfit"}] /\ mishaps \in Nat /\ resends \in Nat
  /\ \A s \in Services : handling[s].at \in {"idle", "submit", "process", "confirm"}

\* The process is built on a complete configuration only: its database, the runtime, the probe, its source.
Start(s, needs) ==
  /\ serving[s] = "down"
  /\ serving' = [serving EXCEPT ![s] = IF needs \subseteq settings[s] THEN "up" ELSE "unfit"]
  /\ UNCHANGED <<status, settings, handling, stored, mishaps, resends, answers>>
StartTelegram == Start("telegram", TelegramNeeds)
StartWhatsApp == Start("whatsapp", WhatsAppNeeds)

Answer(s, r, code) ==
  /\ handling' = [handling EXCEPT ![s] = Idle]
  /\ status' = [status EXCEPT ![r] = CASE code = 200 -> "acked" [] code = 503 -> "waiting" [] OTHER -> "refused"]

\* What answers a request before any message is submitted: 0 when nothing does.
WhatsAppForm(r) == IF \E i \in DOMAIN r.messages : r.messages[i].form = "malformed" THEN 400 ELSE IF r.messages = <<>> THEN 200 ELSE 0
\* A telegram update of another kind than a message has none: it is refused.
TelegramForm(r) == IF r.messages = <<>> \/ r.messages[1].form = "malformed" THEN 400 ELSE 0
Gate(s, r) ==
  CASE r.gate = "large" -> 413 [] r.gate = "unverified" -> 401 [] r.gate = "notJson" -> 400
    [] OTHER -> IF s = "whatsapp" THEN WhatsAppForm(r) ELSE TelegramForm(r)

Receive(s, r) ==
  /\ serving[s] = "up" /\ handling[s] = Idle /\ r.service = s /\ status[r] = "waiting"
  /\ IF Gate(s, r) = 0
       THEN /\ handling' = [handling EXCEPT ![s] = [at |-> "submit", request |-> r, next |-> 1, present |-> FALSE,
                                                    duplicate |-> FALSE, before |-> Ids]]
            /\ status' = [status EXCEPT ![r] = "handled"] /\ UNCHANGED answers
       ELSE /\ Answer(s, r, Gate(s, r))
            /\ answers' = (IF Gate(s, r) = 200 THEN answers \cup {[request |-> r, duplicate |-> FALSE, before |-> Ids]} ELSE answers)
  /\ UNCHANGED <<serving, settings, stored, mishaps, resends>>

Key(h) == h.request.messages[h.next].key

\* submit_raw: the factory refuses a message, or the store is probed.  A probe that fails finds nothing.
Submit(s) ==
  LET h == handling[s] IN
  /\ h.at = "submit"
  /\ \/ /\ h.request.messages[h.next].form = "unfit" /\ Answer(s, h.request, 400) /\ UNCHANGED mishaps
     \/ /\ h.request.messages[h.next].form # "unfit" /\ UNCHANGED <<status, mishaps>>
        /\ handling' = [handling EXCEPT ![s].at = "process", ![s].present = Key(h) \in Ids]
     \/ /\ h.request.messages[h.next].form # "unfit" /\ UNCHANGED status /\ mishaps < MaxFaults /\ mishaps' = mishaps + 1
        /\ handling' = [handling EXCEPT ![s].at = "process", ![s].present = FALSE]
  /\ UNCHANGED <<serving, settings, stored, resends, answers>>

\* The pipeline commits the event unless its id is there; it may fail before or after its commit.
Process(s) ==
  LET h == handling[s]  id == Key(h) IN
  /\ h.at = "process"
  /\ \/ /\ stored' = (IF id \in Ids THEN stored ELSE stored \cup {[id |-> id, key |-> Key(h)]})
        /\ \/ handling' = [handling EXCEPT ![s].at = "confirm"] /\ UNCHANGED <<status, mishaps>>
           \/ mishaps < MaxFaults /\ mishaps' = mishaps + 1 /\ Answer(s, h.request, 503)
     \/ /\ mishaps < MaxFaults /\ mishaps' = mishaps + 1 /\ Answer(s, h.request, 503) /\ UNCHANGED stored
     \* A row of another process took the sequence number: the insert is taken for a duplicate.
     \/ /\ mishaps < MaxFaults /\ mishaps' = mishaps + 1 /\ handling' = [handling EXCEPT ![s].at = "confirm"]
        /\ UNCHANGED <<status, stored>>
  /\ UNCHANGED <<serving, settings, resends, answers>>

\* The last message confirmed, the request is acknowledged.
NextMessage(s, dup) ==
  LET h == handling[s] IN
  IF h.next < Len(h.request.messages)
    THEN /\ handling' = [handling EXCEPT ![s].at = "submit", ![s].next = @ + 1, ![s].duplicate = dup]
         /\ UNCHANGED <<status, answers>>
    ELSE /\ Answer(s, h.request, 200)
         /\ answers' = answers \cup {[request |-> h.request, duplicate |-> dup, before |-> h.before]}

\* Mutated form: what the pipeline accepted is taken for durable.
Confirm_Trusts(s) ==
  /\ handling[s].at = "confirm" /\ NextMessage(s, handling[s].duplicate \/ handling[s].present)
  /\ UNCHANGED <<serving, settings, stored, mishaps, resends>>
\* The second probe: without the row, or when it fails, the answer is 503.
Confirm(s) ==
  LET h == handling[s] IN
  /\ h.at = "confirm"
  /\ \/ Key(h) \in Ids /\ NextMessage(s, h.duplicate \/ h.present) /\ UNCHANGED mishaps
     \/ Key(h) \notin Ids /\ Answer(s, h.request, 503) /\ UNCHANGED <<answers, mishaps>>
     \/ mishaps < MaxFaults /\ mishaps' = mishaps + 1 /\ Answer(s, h.request, 503) /\ UNCHANGED answers
  /\ UNCHANGED <<serving, settings, stored, resends>>

\* The process dies; the platform gets no answer.
Crash(s) ==
  /\ serving[s] = "up" /\ mishaps < MaxFaults /\ mishaps' = mishaps + 1
  /\ serving' = [serving EXCEPT ![s] = "down"] /\ handling' = [handling EXCEPT ![s] = Idle]
  /\ status' = (IF handling[s] = Idle THEN status ELSE [status EXCEPT ![handling[s].request] = "waiting"])
  /\ UNCHANGED <<settings, stored, resends, answers>>

\* The platform: an answer that is lost, or a refusal, makes it send the request again.
Resend(r) ==
  /\ status[r] \in {"acked", "refused"} /\ resends < MaxResends /\ resends' = resends + 1
  /\ status' = [status EXCEPT ![r] = "waiting"]
  /\ UNCHANGED <<serving, settings, handling, stored, mishaps, answers>>
GiveUp(r) ==
  /\ status[r] = "refused" /\ status' = [status EXCEPT ![r] = "dropped"]
  /\ UNCHANGED <<serving, settings, handling, stored, mishaps, resends, answers>>

Next ==
  \/ StartTelegram \/ StartWhatsApp
  \/ \E s \in Services : Submit(s) \/ Process(s) \/ Confirm(s) \/ Crash(s)
  \/ \E s \in Services, r \in Requests : Receive(s, r)
  \/ \E r \in Requests : Resend(r) \/ GiveUp(r)

\* A request that is in order.
Good(r) == r.gate = "pass" /\ r.messages # <<>> /\ \A i \in DOMAIN r.messages : r.messages[i].form = "fine"

\* The processes are restarted and run; the platforms send what is in order again and again.
Fairness ==
  /\ WF_ingressVars(StartTelegram) /\ WF_ingressVars(StartWhatsApp)
  /\ \A s \in Services : WF_ingressVars(Submit(s) \/ Process(s) \/ Confirm(s))
  /\ SF_ingressVars(\E r \in Requests : Good(r) /\ Receive(r.service, r))

Spec == Init /\ [][Next]_ingressVars /\ Fairness

\* Commit before the answer: all messages of an acknowledged request are in the store
\* (handle_webhook, handle_update), whatever failed on the way.
AckedIsDurable == \A a \in answers : Keys(a.request) \subseteq {e.key : e \in stored}

\* However often a message is delivered, by retries and after crashes, it is one row.
OneRowPerMessage == \A e, f \in stored : e.key = f.key => e = f

\* An answer says "duplicate" only of a message that was there before, or earlier in the request.
DuplicateIsTrue ==
  \A a \in answers : a.duplicate => Keys(a.request) \cap a.before # {} \/ Cardinality(Keys(a.request)) < Len(a.request.messages)

\* In the end every request that is in order has been acknowledged by its service, if that is
\* configured; an acknowledgement is not taken back.
GoodIsAcked ==
  <>(\A r \in Requests :
       Good(r) /\ Needed(r.service) \subseteq settings[r.service] => \E a \in answers : a.request = r)

(***************************************************************************)
(* These hold for any requests, environments, faults and resends: what is  *)
(* behind the message at hand is in the store, and stays there; and what   *)
(* came to the store since the request was received is of its own messages. *)
(***************************************************************************)

\* What a process works on.
Work == [at : {"submit", "process", "confirm"}, request : Requests, next : Nat, present : BOOLEAN,
         duplicate : BOOLEAN, before : SUBSET UNION {Keys(r) : r \in Requests}]
\* A row is found by its key, and is of a request.
RowOf(k) == [id |-> k, key |-> k]
RowsOK == stored \subseteq {RowOf(k) : k \in UNION {Keys(r) : r \in Requests}}
Behind(h) ==
  /\ h.next \in 1 .. Len(h.request.messages)
  /\ \A i \in 1 .. Len(h.request.messages) : i < h.next => h.request.messages[i].key \in Ids
HandlingOK ==
  /\ handling \in [Services -> {Idle} \cup Work]
  /\ \A s \in Services : handling[s].at # "idle" => Behind(handling[s])
StoreOK == RowsOK /\ HandlingOK
AckedStored == \A a \in answers : Keys(a.request) \subseteq Ids

LEMMA IdsAreKeys ==
  ASSUME RowsOK
  PROVE  Ids = {e.key : e \in stored} /\ Ids \subseteq UNION {Keys(r) : r \in Requests}
BY DEF RowsOK, RowOf, Ids

\* A process at work has a request, with a message at hand.
LEMMA WorkingOn ==
  ASSUME RequestsOK, StoreOK, NEW s \in Services, handling[s].at # "idle"
  PROVE  /\ handling[s] \in Work /\ handling[s].request \in Requests
         /\ DOMAIN handling[s].request.messages = 1 .. Len(handling[s].request.messages)
         /\ Len(handling[s].request.messages) \in Nat
         /\ Key(handling[s]) \in Keys(handling[s].request)
<1>1. handling[s] \in Work /\ handling[s].request \in Requests /\ Behind(handling[s])
  BY DEF StoreOK, HandlingOK, Idle, Work
<1>2. /\ DOMAIN handling[s].request.messages = 1 .. Len(handling[s].request.messages)
      /\ Len(handling[s].request.messages) \in Nat
  BY <1>1 DEF RequestsOK
<1> QED
  BY <1>1, <1>2 DEF Keys, Key, Behind

\* Rows only come, and another process goes on with what is behind it.
LEMMA OthersStay ==
  ASSUME RequestsOK, StoreOK, NEW s \in Services, stored \subseteq stored',
         handling' \in [Services -> {Idle} \cup Work],
         \A z \in Services \ {s} : handling'[z] = handling[z],
         handling'[s].at = "idle" \/ Behind(handling[s])'
  PROVE  HandlingOK'
<1>1. Ids \subseteq Ids'
  BY DEF Ids
<1>2. ASSUME NEW z \in Services \ {s}, handling'[z].at # "idle"
      PROVE  Behind(handling[z])'
  BY <1>1, <1>2 DEF StoreOK, HandlingOK, Behind
<1>3. ASSUME NEW z \in Services, handling'[z].at # "idle"
      PROVE  Behind(handling[z])'
  BY <1>2, <1>3
<1> QED
  BY <1>3 DEF HandlingOK

LEMMA StoreStep ==
  ASSUME RequestsOK, StoreOK, [Next]_ingressVars
  PROVE  StoreOK' /\ stored \subseteq stored'
<1>1. ASSUME NEW s \in Services, handling' = [handling EXCEPT ![s] = Idle], stored \subseteq stored'
      PROVE  HandlingOK'
  <2>1. handling' \in [Services -> {Idle} \cup Work] /\ handling'[s].at = "idle"
    BY <1>1 DEF StoreOK, HandlingOK, Idle
  <2> QED
    BY <1>1, <2>1, OthersStay
<1>2. ASSUME NEW s \in Services, NEW r \in Requests, Receive(s, r)
      PROVE  StoreOK' /\ stored \subseteq stored'
  <2>1. CASE Gate(s, r) = 0
    <3>1. r.messages # <<>>
      BY <2>1 DEF Gate, WhatsAppForm, TelegramForm
    <3>2. Len(r.messages) \in Nat /\ 1 \in 1 .. Len(r.messages)
      BY <3>1 DEF RequestsOK
    <3>3. handling' = [handling EXCEPT ![s] = [at |-> "submit", request |-> r, next |-> 1, present |-> FALSE,
                                               duplicate |-> FALSE, before |-> Ids]]
      BY <1>2, <2>1 DEF Receive
    <3>4. handling' \in [Services -> {Idle} \cup Work]
      BY <3>3, IdsAreKeys DEF StoreOK, HandlingOK, Work
    <3>5. Behind(handling[s])'
      BY <3>2, <3>3 DEF StoreOK, HandlingOK, Behind
    <3>6. stored' = stored
      BY <1>2 DEF Receive
    <3>7. \A z \in Services \ {s} : handling'[z] = handling[z]
      BY <3>3 DEF StoreOK, HandlingOK
    <3>8. HandlingOK'
      BY <3>4, <3>5, <3>6, <3>7, OthersStay
    <3> QED
      BY <3>6, <3>8 DEF StoreOK, RowsOK
  <2>2. CASE Gate(s, r) # 0
    BY <1>1, <1>2, <2>2 DEF Receive, Answer, StoreOK, RowsOK
  <2> QED
    BY <2>1, <2>2
\* A step to another stage of the same message.
<1>3. ASSUME NEW s \in Services, NEW at \in {"process", "confirm"}, NEW b \in BOOLEAN, handling[s].at # "idle",
             stored \subseteq stored',
             \/ handling' = [handling EXCEPT ![s].at = at]
             \/ handling' = [handling EXCEPT ![s].at = at, ![s].present = b]
      PROVE  HandlingOK'
  <2>1. handling[s] \in Work /\ Behind(handling[s]) /\ handling \in [Services -> {Idle} \cup Work]
    BY <1>3, WorkingOn DEF StoreOK, HandlingOK
  <2>2. /\ handling'[s].at = at /\ handling'[s].request = handling[s].request /\ handling'[s].next = handling[s].next
        /\ handling'[s] \in Work /\ \A z \in Services \ {s} : handling'[z] = handling[z]
    BY <1>3, <2>1 DEF Work
  <2>3. handling' \in [Services -> {Idle} \cup Work]
    BY <1>3, <2>1, <2>2
  <2>4. Ids \subseteq Ids'
    BY <1>3 DEF Ids
  <2>5. Behind(handling[s])'
    BY <2>1, <2>2, <2>4 DEF Behind
  <2> QED
    BY <1>3, <2>2, <2>3, <2>5, OthersStay
<1>4. ASSUME NEW s \in Services, Submit(s)
      PROVE  StoreOK' /\ stored \subseteq stored'
  <2>1. handling[s].at # "idle" /\ stored' = stored /\ (Key(handling[s]) \in Ids) \in BOOLEAN
    BY <1>4 DEF Submit
  <2>2. \/ handling' = [handling EXCEPT ![s] = Idle]
        \/ handling' = [handling EXCEPT ![s].at = "process", ![s].present = Key(handling[s]) \in Ids]
        \/ handling' = [handling EXCEPT ![s].at = "process", ![s].present = FALSE]
    BY <1>4 DEF Submit, Answer
  <2>3. HandlingOK'
    BY <1>1, <1>3, <2>1, <2>2
  <2> QED
    BY <2>1, <2>3 DEF StoreOK, RowsOK
<1>5. ASSUME NEW s \in Services, Process(s)
      PROVE  StoreOK' /\ stored \subseteq stored'
  <2>1. handling[s].at # "idle" /\ handling[s].request \in Requests /\ Key(handling[s]) \in Keys(handling[s].request)
    BY <1>5, WorkingOn DEF Process
  <2>2. stored' = stored \/ stored' = stored \cup {RowOf(Key(handling[s]))}
    BY <1>5 DEF Process, RowOf
  <2>3. RowsOK' /\ stored \subseteq stored'
    BY <2>1, <2>2 DEF StoreOK, RowsOK
  <2>4. \/ handling' = [handling EXCEPT ![s].at = "confirm"]
        \/ handling' = [handling EXCEPT ![s] = Idle]
    BY <1>5 DEF Process, Answer
  <2>5. HandlingOK'
    BY <1>1, <1>3, <2>1, <2>3, <2>4
  <2> QED
    BY <2>3, <2>5 DEF StoreOK
<1>6. ASSUME NEW s \in Services, Confirm(s)
      PROVE  StoreOK' /\ stored \subseteq stored'
  <2> DEFINE h == handling[s]
             dup == h.duplicate \/ h.present
  <2>1. h.at # "idle" /\ stored' = stored
    BY <1>6 DEF Confirm
  <2>2. /\ h \in Work /\ Behind(h) /\ Len(h.request.messages) \in Nat
        /\ handling \in [Services -> {Idle} \cup Work]
    BY <2>1, WorkingOn DEF StoreOK, HandlingOK
  <2>3. CASE handling' = [handling EXCEPT ![s] = Idle]
    BY <1>1, <2>1, <2>3 DEF StoreOK, RowsOK
  <2>4. CASE Key(h) \in Ids /\ h.next < Len(h.request.messages)
             /\ handling' = [handling EXCEPT ![s].at = "submit", ![s].next = @ + 1, ![s].duplicate = dup]
    <3>1. /\ handling'[s].at = "submit" /\ handling'[s].request = h.request /\ handling'[s].next = h.next + 1
          /\ handling'[s] \in Work
      BY <2>2, <2>4 DEF Work
    <3>2. \A z \in Services \ {s} : handling'[z] = handling[z]
      BY <2>2, <2>4
    <3>3. handling' \in [Services -> {Idle} \cup Work]
      BY <2>2, <2>4, <3>1
    <3>4. h.next \in Nat /\ h.request.messages[h.next].key \in Ids /\ Ids' = Ids
      BY <2>1, <2>2, <2>4 DEF Key, Work, Ids
    <3>5. Behind(handling[s])'
      BY <2>2, <2>4, <3>1, <3>4 DEF Behind
    <3>6. HandlingOK'
      BY <2>1, <3>2, <3>3, <3>5, OthersStay
    <3> QED
      BY <2>1, <3>6 DEF StoreOK, RowsOK
  <2> QED
    BY <1>6, <2>3, <2>4 DEF Confirm, NextMessage, Answer
<1>7. ASSUME NEW s \in Services, Crash(s)
      PROVE  StoreOK' /\ stored \subseteq stored'
  BY <1>1, <1>7 DEF Crash, StoreOK, RowsOK
<1>8. CASE UNCHANGED <<handling, stored>>
  BY <1>8 DEF StoreOK, RowsOK, HandlingOK, Behind, Ids
<1> QED
  BY <1>2, <1>4, <1>5, <1>6, <1>7, <1>8
     DEF Next, StartTelegram, StartWhatsApp, Start, Resend, GiveUp, ingressVars

\* An answer 200 ends a request without messages, or follows the confirmation of the last one.
LEMMA AckedStep ==
  ASSUME RequestsOK, StoreOK, AckedStored, [Next]_ingressVars
  PROVE  AckedStored'
<1>1. Ids \subseteq Ids'
  BY StoreStep DEF Ids
<1>2. ASSUME NEW s \in Services, NEW r \in Requests, Receive(s, r)
      PROVE  AckedStored'
  <2>1. CASE Gate(s, r) = 200
    <3>1. r.messages = <<>>
      BY <2>1 DEF Gate, WhatsAppForm, TelegramForm
    <3>2. Keys(r) = {}
      BY <3>1 DEF Keys
    <3> QED
      BY <1>1, <1>2, <2>1, <3>2 DEF Receive, AckedStored
  <2>2. CASE Gate(s, r) # 200
    BY <1>1, <1>2, <2>2 DEF Receive, AckedStored
  <2> QED
    BY <2>1, <2>2
<1>3. ASSUME NEW s \in Services, Confirm(s)
      PROVE  AckedStored'
  <2> DEFINE h == handling[s]
             n == Len(h.request.messages)
  <2>1. h.at # "idle"
    BY <1>3 DEF Confirm
  <2>2. Behind(h) /\ DOMAIN h.request.messages = 1 .. n /\ n \in Nat /\ h.next \in Nat
    BY <2>1, WorkingOn DEF StoreOK, HandlingOK, Work
  <2>3. CASE Key(h) \in Ids /\ ~(h.next < n)
    <3>1. h.next = n
      BY <2>2, <2>3 DEF Behind
    <3>2. \A i \in 1 .. n : h.request.messages[i].key \in Ids
      BY <2>2, <2>3, <3>1 DEF Behind, Key
    <3>3. Keys(h.request) \subseteq Ids
      BY <2>2, <3>2 DEF Keys
    <3> QED
      BY <1>1, <1>3, <2>3, <3>3 DEF Confirm, NextMessage, AckedStored
  <2>4. CASE UNCHANGED answers
    BY <1>1, <2>4 DEF AckedStored
  <2> QED
    BY <1>3, <2>3, <2>4 DEF Confirm, NextMessage
<1>4. CASE UNCHANGED answers
  BY <1>1, <1>4 DEF AckedStored
<1> QED
  BY <1>2, <1>3, <1>4
     DEF Next, StartTelegram, StartWhatsApp, Start, Submit, Process, Crash, Resend, GiveUp, ingressVars

LEMMA IngressInit ==
  ASSUME Init
  PROVE  StoreOK /\ AckedStored
<1>1. handling \in [Services -> {Idle} \cup Work] /\ \A s \in Services : handling[s].at = "idle"
  BY DEF Init, Idle
<1> QED
  BY <1>1 DEF Init, StoreOK, RowsOK, HandlingOK, AckedStored

\* A message of the request was there before it, or the request has it twice.
Repeats(r) == \E i, j \in DOMAIN r.messages : i < j /\ r.messages[i].key = r.messages[j].key
Told(h) == Keys(h.request) \cap h.before # {} \/ Repeats(h.request)
\* What is in the store of a request was there before it, or came with its messages so far.
Known(h, k) ==
  \/ k \in h.before
  \/ \E j \in 1 .. h.next : h.request.messages[j].key = k /\ (j = h.next => h.at = "confirm")
TruthOf(s) ==
  handling[s].at # "idle" =>
    /\ handling[s].request.service = s
    /\ \A k \in Ids \cap Keys(handling[s].request) : Known(handling[s], k)
    /\ handling[s].present \/ handling[s].duplicate => Told(handling[s])
TruthOK == \A s \in Services : TruthOf(s)
ToldOK == \A a \in answers : a.request \in Requests /\ (a.duplicate => Told(a))

\* A sequence that repeats a key has fewer keys than elements.
LEMMA RepeatedIsFewer ==
  ASSUME RequestsOK, NEW r \in Requests, Repeats(r)
  PROVE  Cardinality(Keys(r)) < Len(r.messages)
<1> DEFINE n == Len(r.messages)
<1>1. n \in Nat /\ DOMAIN r.messages = 1 .. n
  BY DEF RequestsOK
<1>2. PICK i \in 1 .. n, j \in 1 .. n : i < j /\ r.messages[i].key = r.messages[j].key
  BY <1>1 DEF Repeats
<1> DEFINE rest == (1 .. n) \ {j}
           f == [x \in rest |-> r.messages[x].key]
<1>3. IsFiniteSet(1 .. n) /\ Cardinality(1 .. n) = n
  BY <1>1, FS_Interval
<1>4. IsFiniteSet(rest) /\ Cardinality(rest) = n - 1
  BY <1>2, <1>3, FS_RemoveElement
<1>5. \A k \in Keys(r) : \E x \in rest : f[x] = k
  BY <1>1, <1>2 DEF Keys
<1>6. f \in Surjection(rest, Keys(r))
  <2>1. f \in [rest -> Keys(r)]
    BY <1>1 DEF Keys
  <2> QED
    BY <2>1, <1>5 DEF Surjection
<1>7. Cardinality(Keys(r)) <= Cardinality(rest) /\ IsFiniteSet(Keys(r))
  BY <1>4, <1>6, FS_Surjection
<1>8. Cardinality(Keys(r)) \in Nat
  BY <1>7, FS_CardinalityType
<1> QED
  BY <1>1, <1>4, <1>7, <1>8
\* A step of a process adds rows of its own request only, which are no concern of the other.
LEMMA TruthOthers ==
  ASSUME RequestsOK, KeysApart, StoreOK, TruthOK, NEW s \in Services, TruthOf(s)',
         \A z \in Services \ {s} : handling'[z] = handling[z],
         \A k \in Ids' \ Ids : handling[s].at # "idle" /\ k \in Keys(handling[s].request)
  PROVE  TruthOK'
<1>1. ASSUME NEW z \in Services \ {s}, handling[z].at # "idle"
      PROVE  TruthOf(z)'
  <2>1. TruthOf(z) /\ handling[z].request \in Requests /\ handling[z].request.service = z
    BY <1>1, WorkingOn DEF TruthOK, TruthOf
  <2>2. ASSUME NEW k \in Ids' \ Ids PROVE k \notin Keys(handling[z].request)
    <3>1. handling[s].request \in Requests /\ handling[s].request.service = s /\ k \in Keys(handling[s].request)
      BY <2>2, WorkingOn DEF TruthOK, TruthOf
    <3> QED
      BY <1>1, <2>1, <3>1 DEF KeysApart
  <2>3. \A k \in Ids' \cap Keys(handling[z].request) : Known(handling[z], k)
    BY <1>1, <2>1, <2>2 DEF TruthOf
  <2> QED
    BY <1>1, <2>1, <2>3 DEF TruthOf
<1>2. ASSUME NEW z \in Services \ {s}, handling[z].at = "idle"
      PROVE  TruthOf(z)'
  BY <1>2 DEF TruthOf
<1> QED
  BY <1>1, <1>2 DEF TruthOK

LEMMA TruthStep ==
  ASSUME RequestsOK, KeysApart, StoreOK, TruthOK, ToldOK, [Next]_ingressVars
  PROVE  TruthOK' /\ ToldOK'
<1>1. ASSUME NEW s \in Services, handling' = [handling EXCEPT ![s] = Idle],
             \A k \in Ids' \ Ids : handling[s].at # "idle" /\ k \in Keys(handling[s].request)
      PROVE  TruthOK'
  <2>1. handling'[s].at = "idle" /\ \A z \in Services \ {s} : handling'[z] = handling[z]
    BY <1>1 DEF StoreOK, HandlingOK, Idle
  <2>2. TruthOf(s)'
    BY <2>1 DEF TruthOf
  <2> QED
    BY <1>1, <2>1, <2>2, TruthOthers
<1>2. ASSUME NEW s \in Services, NEW r \in Requests, Receive(s, r)
      PROVE  TruthOK' /\ ToldOK'
  <2>1. Ids' = Ids
    BY <1>2 DEF Receive, Ids
  <2>2. CASE Gate(s, r) = 0
    <3>1. /\ handling'[s] = [at |-> "submit", request |-> r, next |-> 1, present |-> FALSE,
                             duplicate |-> FALSE, before |-> Ids]
          /\ \A z \in Services \ {s} : handling'[z] = handling[z]
          /\ r.service = s /\ answers' = answers
      BY <1>2, <2>2 DEF Receive, StoreOK, HandlingOK
    <3>2. TruthOf(s)'
      BY <2>1, <3>1 DEF TruthOf, Known
    <3> QED
      BY <2>1, <3>1, <3>2, TruthOthers DEF ToldOK
  <2>3. CASE Gate(s, r) # 0
    <3>1. TruthOK'
      BY <1>1, <1>2, <2>1, <2>3 DEF Receive, Answer
    <3>2. ToldOK'
      BY <1>2, <2>3 DEF Receive, ToldOK
    <3> QED
      BY <3>1, <3>2
  <2> QED
    BY <2>2, <2>3
\* The message at hand, and what a process that has one knows.
<1>3. ASSUME NEW s \in Services, handling[s].at # "idle"
      PROVE  /\ handling[s] \in Work /\ TruthOf(s) /\ Behind(handling[s])
             /\ handling[s].next \in Nat /\ handling[s].next \in DOMAIN handling[s].request.messages
             /\ DOMAIN handling[s].request.messages = 1 .. Len(handling[s].request.messages)
             /\ Len(handling[s].request.messages) \in Nat
             /\ Key(handling[s]) = handling[s].request.messages[handling[s].next].key
             /\ Key(handling[s]) \in Keys(handling[s].request)
             /\ handling \in [Services -> {Idle} \cup Work]
  <2>1. handling[s] \in Work /\ TruthOf(s) /\ Behind(handling[s]) /\ handling \in [Services -> {Idle} \cup Work]
    BY <1>3, WorkingOn DEF StoreOK, HandlingOK, TruthOK
  <2> QED
    BY <1>3, <2>1, WorkingOn DEF Behind, Key, Work
<1>4. ASSUME NEW s \in Services, Submit(s)
      PROVE  TruthOK' /\ ToldOK'
  <2> DEFINE h == handling[s]
  <2>1. h.at = "submit" /\ Ids' = Ids /\ answers' = answers
    BY <1>4 DEF Submit, Ids
  <2>2. ASSUME NEW b \in BOOLEAN, b => Key(h) \in Ids,
               handling' = [handling EXCEPT ![s].at = "process", ![s].present = b]
        PROVE  TruthOK'
    <3>1. /\ handling'[s].at = "process" /\ handling'[s].request = h.request /\ handling'[s].next = h.next
          /\ handling'[s].present = b /\ handling'[s].duplicate = h.duplicate /\ handling'[s].before = h.before
          /\ \A z \in Services \ {s} : handling'[z] = handling[z]
      BY <1>3, <2>1, <2>2 DEF Work
    <3>2. b => Told(h)
      <4> SUFFICES ASSUME b PROVE Told(h)
        OBVIOUS
      <4>1. Known(h, Key(h)) /\ Key(h) \in Keys(h.request)
        BY <1>3, <2>1, <2>2 DEF TruthOf
      <4>2. CASE Key(h) \in h.before
        BY <4>1, <4>2 DEF Told
      <4>3. CASE \E j \in 1 .. h.next : h.request.messages[j].key = Key(h) /\ j # h.next
        <5>1. PICK j \in 1 .. h.next : h.request.messages[j].key = Key(h) /\ j # h.next
          BY <4>3
        <5>2. j \in DOMAIN h.request.messages /\ j < h.next
          BY <1>3, <2>1, <5>1
        <5> QED
          BY <1>3, <2>1, <5>1, <5>2 DEF Told, Repeats
      <4> QED
        BY <2>1, <4>1, <4>2, <4>3 DEF Known
    <3>3. TruthOf(s)'
      BY <1>3, <2>1, <3>1, <3>2 DEF TruthOf, Known, Told
    <3> QED
      BY <2>1, <3>1, <3>3, TruthOthers
  <2>3. \/ handling' = [handling EXCEPT ![s] = Idle]
        \/ handling' = [handling EXCEPT ![s].at = "process", ![s].present = Key(h) \in Ids]
        \/ handling' = [handling EXCEPT ![s].at = "process", ![s].present = FALSE]
    BY <1>4 DEF Submit, Answer
  <2>4. (Key(h) \in Ids) \in BOOLEAN
    OBVIOUS
  <2>5. ASSUME handling' = [handling EXCEPT ![s].at = "process", ![s].present = Key(h) \in Ids]
        PROVE  TruthOK'
    BY <2>2, <2>4, <2>5
  <2>6. ASSUME handling' = [handling EXCEPT ![s].at = "process", ![s].present = FALSE]
        PROVE  TruthOK'
    BY <2>2, <2>6
  <2>7. TruthOK'
    BY <1>1, <2>1, <2>3, <2>5, <2>6
  <2> QED
    BY <2>1, <2>7 DEF ToldOK
<1>5. ASSUME NEW s \in Services, Process(s)
      PROVE  TruthOK' /\ ToldOK'
  <2> DEFINE h == handling[s]
  <2>1. h.at = "process" /\ answers' = answers /\ (stored' = stored \/ stored' = stored \cup {RowOf(Key(h))})
    BY <1>5 DEF Process, RowOf
  <2>2. Ids' \subseteq Ids \cup {Key(h)}
    BY <2>1 DEF Ids, RowOf
  <2>3. \A k \in Ids' \ Ids : h.at # "idle" /\ k \in Keys(h.request)
    BY <1>3, <2>1, <2>2
  <2>4. CASE handling' = [handling EXCEPT ![s].at = "confirm"]
    <3>1. /\ handling'[s].at = "confirm" /\ handling'[s].request = h.request /\ handling'[s].next = h.next
          /\ handling'[s].present = h.present /\ handling'[s].duplicate = h.duplicate /\ handling'[s].before = h.before
          /\ \A z \in Services \ {s} : handling'[z] = handling[z]
      BY <1>3, <2>1, <2>4 DEF Work
    <3>2. h.next \in 1 .. h.next
      BY <1>3, <2>1 DEF Behind
    <3>3. \A k \in Ids' \cap Keys(h.request) : Known(handling'[s], k)
      BY <1>3, <2>1, <2>2, <3>1, <3>2 DEF TruthOf, Known
    <3>4. TruthOf(s)'
      BY <1>3, <2>1, <3>1, <3>3 DEF TruthOf, Told
    <3> QED
      BY <2>1, <2>3, <3>1, <3>4, TruthOthers DEF ToldOK
  <2>5. CASE handling' = [handling EXCEPT ![s] = Idle]
    BY <1>1, <2>1, <2>3, <2>5 DEF ToldOK
  <2> QED
    BY <1>5, <2>4, <2>5 DEF Process, Answer
<1>6. ASSUME NEW s \in Services, Confirm(s)
      PROVE  TruthOK' /\ ToldOK'
  <2> DEFINE h == handling[s]
             dup == h.duplicate \/ h.present
  <2>1. h.at = "confirm" /\ Ids' = Ids
    BY <1>6 DEF Confirm, Ids
  <2>2. dup => Told(h)
    BY <1>3, <2>1 DEF TruthOf
  <2>3. CASE answers' = answers /\ handling' = [handling EXCEPT ![s].at = "submit", ![s].next = @ + 1, ![s].duplicate = dup]
    <3>1. /\ handling'[s].at = "submit" /\ handling'[s].request = h.request /\ handling'[s].next = h.next + 1
          /\ handling'[s].present = h.present /\ handling'[s].duplicate = dup /\ handling'[s].before = h.before
          /\ \A z \in Services \ {s} : handling'[z] = handling[z]
      BY <1>3, <2>1, <2>3 DEF Work
    <3>2. \A j \in 1 .. h.next : j \in 1 .. h.next + 1 /\ j # h.next + 1
      BY <1>3, <2>1
    <3>3. \A k \in Ids' \cap Keys(h.request) : Known(handling'[s], k)
      BY <1>3, <2>1, <3>1, <3>2 DEF TruthOf, Known
    <3>4. TruthOf(s)'
      BY <1>3, <2>1, <2>2, <3>1, <3>3 DEF TruthOf, Told
    <3> QED
      BY <2>1, <2>3, <3>1, <3>4, TruthOthers DEF ToldOK
  <2>4. CASE answers' = answers /\ handling' = [handling EXCEPT ![s] = Idle]
    BY <1>1, <2>1, <2>4 DEF ToldOK
  <2>5. CASE /\ handling' = [handling EXCEPT ![s] = Idle]
             /\ answers' = answers \cup {[request |-> h.request, duplicate |-> dup, before |-> h.before]}
    <3>1. ToldOK'
      BY <1>3, <2>1, <2>2, <2>5 DEF ToldOK, Told, Work
    <3> QED
      BY <1>1, <2>1, <2>5, <3>1
  <2> QED
    BY <1>6, <2>3, <2>4, <2>5 DEF Confirm, NextMessage, Answer
<1>7. ASSUME NEW s \in Services, Crash(s)
      PROVE  TruthOK' /\ ToldOK'
  BY <1>1, <1>7 DEF Crash, Ids, ToldOK
<1>8. CASE UNCHANGED <<handling, stored, answers>>
  BY <1>8 DEF TruthOK, TruthOf, ToldOK, Ids
<1> QED
  BY <1>2, <1>4, <1>5, <1>6, <1>7, <1>8
     DEF Next, StartTelegram, StartWhatsApp, Start, Resend, GiveUp, ingressVars

LEMMA TruthInit == Init => TruthOK /\ ToldOK
<1> SUFFICES ASSUME Init PROVE TruthOK /\ ToldOK
  OBVIOUS
<1>1. \A s \in Services : handling[s].at = "idle"
  BY DEF Init, Idle
<1> QED
  BY <1>1 DEF Init, TruthOK, TruthOf, ToldOK

\* What the invariants say of the answers and the rows.
LEMMA IngressHolds ==
  ASSUME RequestsOK, StoreOK
  PROVE  OneRowPerMessage /\ (AckedStored => AckedIsDurable) /\ (ToldOK => DuplicateIsTrue)
<1>1. OneRowPerMessage
  BY DEF StoreOK, RowsOK, RowOf, OneRowPerMessage
<1>2. AckedStored => AckedIsDurable
  BY IdsAreKeys DEF StoreOK, AckedStored, AckedIsDurable
<1>3. ToldOK => DuplicateIsTrue
  BY RepeatedIsFewer DEF ToldOK, Told, DuplicateIsTrue
<1> QED
  BY <1>1, <1>2, <1>3

\* "duplicate" is said of a message that was there before its request, or that the request has twice.
THEOREM DuplicateIsTrueHolds == RequestsOK /\ KeysApart /\ Spec => []DuplicateIsTrue
<1>1. SUFFICES ASSUME RequestsOK, KeysApart PROVE Spec => []DuplicateIsTrue
  OBVIOUS
<1> QED
  BY <1>1, IngressInit, StoreStep, TruthInit, TruthStep, IngressHolds, PTL DEF Spec

\* Every answer 200 comes after the rows of all its messages.
THEOREM AckedIsDurableHolds == RequestsOK /\ Spec => []AckedIsDurable
<1>1. SUFFICES ASSUME RequestsOK PROVE Spec => []AckedIsDurable
  OBVIOUS
<1> QED
  BY <1>1, IngressInit, StoreStep, AckedStep, IngressHolds, PTL DEF Spec

\* A message has one row, whatever is delivered again.
THEOREM OneRowPerMessageHolds == RequestsOK /\ Spec => []OneRowPerMessage
<1>1. SUFFICES ASSUME RequestsOK PROVE Spec => []OneRowPerMessage
  OBVIOUS
<1> QED
  BY <1>1, IngressInit, StoreStep, IngressHolds, PTL DEF Spec
=============================================================================
