------------------------------ MODULE Confirms ------------------------------
(***************************************************************************)
(* Publisher confirms of the vendored AMQP client: Channel.Confirm,        *)
(* Channel.Publish, confimOne and confimMultiple.  Publish counts what it  *)
(* sends and, in confirm mode, remembers the count in the heap `confirms`; *)
(* the server counts what it receives after confirm.select and answers     *)
(* with ack or nack, one number or all up to a number, in any order.  A    *)
(* number that is not in the heap empties it and the client panics.        *)
(* Publish and both confim methods hold the lock m from start to end, so   *)
(* each is one step.  proc_box publishes without confirms.                 *)
(***************************************************************************)
EXTENDS Naturals, Sequences, FiniteSets

CONSTANTS
  MaxPublished,  \* bound
  EarlyPublish   \* may the program publish before it calls Confirm

VARIABLES
  confirming,    \* confirms # nil
  confirms,      \* the heap, as a set
  publishCounter,
  selected,      \* the server handled confirm.select
  outstanding,   \* publishings (numbered by the client) the server owes an answer
  serverTag,     \* publishing -> the server's number for it
  answers,       \* acks and nacks under way, in the order sent
  notified,      \* what the listeners were sent: <<publishing, "ack" or "nack">>
  panicked

vars == <<confirming, confirms, publishCounter, selected, outstanding, serverTag, answers,
          notified, panicked>>

ConfirmsAssumption == MaxPublished \in Nat /\ EarlyPublish \in BOOLEAN

Publishings == 1..MaxPublished

Init ==
  /\ confirming = FALSE /\ confirms = {} /\ publishCounter = 0
  /\ selected = 0
  /\ outstanding = {}
  /\ serverTag = [p \in Publishings |-> 0]
  /\ answers = <<>>
  /\ notified = <<>>
  /\ panicked = FALSE

(* Confirm waits for confirm.select-ok, so the server is in confirm mode   *)
(* when it returns.  The server's numbers start with the next publishing.  *)
Confirm ==
  /\ ~panicked /\ ~confirming
  /\ confirming' = TRUE /\ confirms' = {}
  /\ selected' = publishCounter
  /\ UNCHANGED <<publishCounter, outstanding, serverTag, answers, notified, panicked>>

Publish ==
  /\ ~panicked /\ publishCounter < MaxPublished
  /\ confirming \/ EarlyPublish
  /\ publishCounter' = publishCounter + 1
  /\ IF confirming
     THEN /\ confirms' = confirms \cup {publishCounter + 1}
          /\ outstanding' = outstanding \cup {publishCounter + 1}
          /\ serverTag' = [serverTag EXCEPT ![publishCounter + 1] = publishCounter + 1 - selected]
     ELSE UNCHANGED <<confirms, outstanding, serverTag>>
  /\ UNCHANGED <<confirming, selected, answers, notified, panicked>>

(* The server answers for one publishing, or for all up to one.            *)
Answer(p, multiple, verdict) ==
  /\ p \in outstanding
  /\ answers' = Append(answers, [tag |-> serverTag[p], multiple |-> multiple, verdict |-> verdict])
  /\ outstanding' = outstanding \ (IF multiple THEN 1..p ELSE {p})
  /\ UNCHANGED <<confirming, confirms, publishCounter, selected, serverTag, notified, panicked>>

Upto(tag) == {p \in confirms : p =< tag}
InOrder(tags, verdict) ==
  CHOOSE s \in [1..Cardinality(tags) -> tags \X {verdict}] :
    \A i, j \in DOMAIN s : i < j => s[i][1] < s[j][1]

confimOneKeeps(tag, verdict) ==
  IF tag \in confirms
  THEN notified' = Append(notified, <<tag, verdict>>) /\ UNCHANGED <<confirms, panicked>>
  ELSE panicked' = TRUE /\ UNCHANGED <<confirms, notified>>

confimOne(tag, verdict) ==
  IF tag \in confirms
  THEN /\ notified' = Append(notified, <<tag, verdict>>)
       /\ confirms' = confirms \ {tag}
       /\ UNCHANGED panicked
  ELSE panicked' = TRUE /\ UNCHANGED <<confirms, notified>>

confimMultipleTwice(tag, verdict) ==
  IF tag \in confirms
  THEN /\ notified' = notified \o InOrder(Upto(tag), verdict) \o <<<<tag, verdict>>>>
       /\ confirms' = confirms \ Upto(tag)
       /\ UNCHANGED panicked
  ELSE panicked' = TRUE /\ UNCHANGED <<confirms, notified>>

confimMultipleBeyond(tag, verdict) ==
  IF \E p \in confirms : p > tag
  THEN /\ notified' = notified \o InOrder(Upto(tag), verdict)
       /\ confirms' = confirms \ Upto(tag)
       /\ UNCHANGED panicked
  ELSE panicked' = TRUE /\ UNCHANGED <<confirms, notified>>

confimMultiple(tag, verdict) ==
  IF tag \in confirms
  THEN /\ notified' = notified \o InOrder(Upto(tag), verdict)
       /\ confirms' = confirms \ Upto(tag)
       /\ UNCHANGED panicked
  ELSE panicked' = TRUE /\ UNCHANGED <<confirms, notified>>

dispatchAnswer ==
  /\ ~panicked /\ answers # <<>>
  /\ LET a == Head(answers) IN IF a.multiple THEN confimMultiple(a.tag, a.verdict)
                                             ELSE confimOne(a.tag, a.verdict)
  /\ answers' = Tail(answers)
  /\ UNCHANGED <<confirming, publishCounter, selected, outstanding, serverTag>>

Next ==
  \/ Confirm \/ Publish \/ dispatchAnswer
  \/ \E p \in Publishings, multiple \in BOOLEAN, verdict \in {"ack", "nack"} : Answer(p, multiple, verdict)

Spec == Init /\ [][Next]_vars

-----------------------------------------------------------------------------
Notified == {notified[i][1] : i \in DOMAIN notified}

(* channel.go:537 "There will be either at most one Ack or Nack delivered  *)
(* for every Publishing": whatever mixture of single and multiple acks and *)
(* nacks the server sends, no publishing is confirmed twice.               *)
ConfirmedOnce == Cardinality(Notified) = Len(notified)

(* Nothing is confirmed that the server did not answer for, and once all   *)
(* answers are read everything it answered for has been confirmed.         *)
ConfirmedIsAnswered ==
  ~panicked => /\ Notified \cap outstanding = {}
               /\ answers = <<>> => confirms = outstanding

(* A publishing program that uses Confirm never panics: every number the   *)
(* server sends is in the heap (channel.go:1488: the tag is an index of    *)
(* the publishings after Confirm).                                         *)
NeverPanics == ~panicked

(* Publisher confirms as channel.go documents them.                        *)
ConfirmsHold == ConfirmedOnce /\ ConfirmedIsAnswered /\ NeverPanics
=============================================================================
