-------------------------- MODULE BleKeyboard_proofs --------------------------
(***************************************************************************)
(* No key stays down and a password arrives whole over a steady link, for  *)
(* every password and any number of connections, buttons and lost reports. *)
(***************************************************************************)
EXTENDS BleKeyboard, SequenceTheorems, FiniteSetTheorems, TLAPS

(***************************************************************************)
(* The inductive invariant                                                 *)
(***************************************************************************)

\* A link that is down is neither encrypted nor subscribed to, and isConnected() says so
\* of no other.  A reset ends the connection there is, and whatever the callbacks knew of
\* it, they take the stack for synced when it is good again.
LinkInv ==
  /\ AdvertisedOrConnected
  /\ isConnected <=> link # "down"
  /\ link = "down" => ~encrypted /\ subscribed = {}
  /\ link = "up" => stack = "good"
  /\ stack = "good" => synced

\* The outbox holds a press and its release, or the release only, of one report,
\* and the buttons are read when the text is done.
OutboxInv ==
  /\ Len(outbox) <= 2
  /\ outbox # <<>> => outbox[Len(outbox)].key = None
  /\ Len(outbox) = 2 => outbox[1].report = outbox[2].report
  /\ outbox = <<>> => stage = "next"
  /\ outbox # <<>> /\ outbox[1].report = "media" => text = <<>>

\* The release of the report's key is what the loop sends next.
Releasing(report) == Len(outbox) = 1 /\ outbox[1].report = report

\* The computer has keys down of the reports it listens to only; one that is down is
\* about to be released, or its release found no mbuf.
KeysInv ==
  /\ hostKey # None => Listens("keyboard")
  /\ hostMute # None => Listens("media")
  /\ hostKey = None \/ "keyboard" \in starved \/ Releasing("keyboard")
  /\ hostMute = None \/ "media" \in starved \/ Releasing("media")

\* How many characters of the password the loop has begun.
Written == Len(Password) - Len(text)

\* What is left of the text is the end of the password.
TextInv ==
  /\ Len(text) <= Len(Password)
  /\ \A i \in 1 .. Len(text) : text[i] = Password[Written + i]

\* What the computer has of a text whose press is still to be sent, and of any other.
Pressing == Len(outbox) = 2 /\ outbox[1].report = "keyboard"
SteadyInv ==
  steady =>
    /\ Ready
    /\ Pressing => /\ Written \in Shown /\ outbox[1].key = Password[Written]
                   /\ hostKey = None /\ Typed(Written - 1)
    /\ ~Pressing => Typed(Written)
    /\ ~Pressing /\ ~Releasing("keyboard") => hostKey = None

IInv == TypeOK /\ LinkInv /\ OutboxInv /\ KeysInv /\ TextInv /\ SteadyInv

(***************************************************************************)
(* Types, and the shape of the outbox                                      *)
(***************************************************************************)

Reports == [report : InputReports, key : Characters \cup {"mute", None}]

\* What is left of the outbox when a report is taken from it.
LEMMA TailOfOutbox ==
  ASSUME TypeOK, outbox # <<>>
  PROVE  /\ Len(outbox) \in Nat /\ Len(outbox) >= 1
         /\ Head(outbox) = outbox[1] /\ outbox[1] \in Reports
         /\ Tail(outbox) \in Seq(Reports) /\ Len(Tail(outbox)) = Len(outbox) - 1
         /\ \A i \in 1 .. Len(outbox) - 1 : Tail(outbox)[i] = outbox[i + 1]
<1>1. outbox \in Seq(Reports)
  BY DEF TypeOK, Reports
<1>2. Len(outbox) \in Nat /\ Len(outbox) >= 1
  BY <1>1, EmptySeq, LenProperties
<1>3. outbox[1] \in Reports
  BY <1>1, <1>2, ElementOfSeq
<1> QED  BY <1>1, <1>2, <1>3, HeadTailProperties

\* What is left of the text when a character is taken from it.
LEMMA TailOfText ==
  ASSUME TypeOK, text # <<>>
  PROVE  /\ Len(text) \in Nat /\ Len(text) >= 1
         /\ Head(text) = text[1] /\ text[1] \in Characters
         /\ Tail(text) \in Seq(Characters) /\ Len(Tail(text)) = Len(text) - 1
         /\ \A i \in 1 .. Len(text) - 1 : Tail(text)[i] = text[i + 1]
<1>1. text \in Seq(Characters)
  BY DEF TypeOK
<1>2. Len(text) \in Nat /\ Len(text) >= 1
  BY <1>1, EmptySeq, LenProperties
<1>3. text[1] \in Characters
  BY <1>1, <1>2, ElementOfSeq
<1> QED  BY <1>1, <1>2, <1>3, HeadTailProperties

\* A press and its release.
LEMMA PressAndRelease ==
  ASSUME NEW report \in InputReports, NEW key \in Characters \cup {"mute"}
  PROVE  /\ Report(report, key) \o Report(report, None) \in Seq(Reports)
         /\ Report(report, key) \o Report(report, None)
              = << [report |-> report, key |-> key], [report |-> report, key |-> None] >>
<1> DEFINE press == [report |-> report, key |-> key]
           release == [report |-> report, key |-> None]
<1>1. press \in Reports /\ release \in Reports
  BY DEF Reports
<1> HIDE DEF press, release
<1>2. << press >> \in Seq(Reports) /\ << release >> \in Seq(Reports)
      /\ Len(<< press >>) = 1 /\ Len(<< release >>) = 1
  BY <1>1
<1>3. << press >> \o << release >> \in Seq(Reports)
  BY <1>2, ConcatProperties
<1>4. << press >> \o << release >> = << press, release >>
  <2>1. << press, release >> \in Seq(Reports) /\ Len(<< press, release >>) = 2
    BY <1>1
  <2>2. Len(<< press >> \o << release >>) = 2
        /\ (<< press >> \o << release >>)[1] = press
        /\ (<< press >> \o << release >>)[2] = release
    BY <1>2, ConcatProperties
  <2>3. << press, release >>[1] = press /\ << press, release >>[2] = release
    OBVIOUS
  <2> DEFINE joined == << press >> \o << release >>
             pair == << press, release >>
  <2> HIDE DEF joined, pair
  <2>4. \A i \in 1 .. Len(joined) : joined[i] = pair[i]
    BY <2>2, <2>3 DEF joined, pair
  <2> QED  BY <1>3, <2>1, <2>2, <2>4, SeqEqual DEF joined, pair
<1> QED  BY <1>3, <1>4 DEF Report, press, release

\* The reports in the outbox, and the keys in them, stay those of their report.
LEMMA OutboxTypes ==
  ASSUME TypeOK, [Next]_vars
  PROVE  outbox' \in Seq(Reports) /\ \A i \in 1 .. Len(outbox') : outbox'[i].key \in Keys[outbox'[i].report]
<1>1. CASE UNCHANGED outbox
  BY <1>1 DEF TypeOK, Reports
<1>2. CASE outbox # <<>> /\ outbox' = Tail(outbox)
  <2>1. \A i \in 1 .. Len(outbox) - 1 : i + 1 \in 1 .. Len(outbox) /\ outbox'[i] = outbox[i + 1]
    BY <1>2, TailOfOutbox
  <2> QED  BY <1>2, <2>1, TailOfOutbox DEF TypeOK
<1>3. CASE WriteNext
  <2>1. CASE Head(text) \in Silent
    BY <1>3, <2>1, EmptySeq DEF WriteNext, TypeChar
  <2>2. CASE Head(text) \notin Silent
    <3>1. Head(text) \in Characters
      BY <1>3, TailOfText DEF WriteNext
    <3>2. /\ outbox' \in Seq(Reports)
          /\ outbox' = << [report |-> "keyboard", key |-> Head(text)],
                           [report |-> "keyboard", key |-> None] >>
      BY <1>3, <2>2, <3>1, PressAndRelease DEF WriteNext, TypeChar, InputReports
    <3> QED  BY <3>1, <3>2 DEF Keys
  <2> QED  BY <2>1, <2>2
<1>4. CASE PushB
  <2>1. /\ outbox' \in Seq(Reports)
        /\ outbox' = << [report |-> "media", key |-> "mute"], [report |-> "media", key |-> None] >>
    BY <1>4, PressAndRelease DEF PushB, InputReports
  <2> QED  BY <2>1 DEF Keys
<1> QED
  BY <1>1, <1>2, <1>3, <1>4
     DEF Next, vars, loopVars, Connect, ConnectFails, Encrypt, LoseLink, ResetStack, Drop,
         Resync, Disconnected, Subscribe, Unsubscribe, PushA, LoopStep, SkipReport,
         SetReportValue, FindSubscriber, CheckSecurity, PassOn, SendNotification, NoBuffer,
         Sent

\* The text stays a sequence of characters of the password.
LEMMA TextTypes ==
  ASSUME TypeOK, [Next]_vars
  PROVE  text' \in Seq(Characters)
<1>1. CASE UNCHANGED text
  BY <1>1 DEF TypeOK
<1>2. CASE WriteNext
  BY <1>2, TailOfText DEF WriteNext
<1>3. CASE PushA
  BY <1>3, KeyboardAssumption DEF PushA
<1> QED
  BY <1>1, <1>2, <1>3
     DEF Next, vars, loopVars, Connect, ConnectFails, Encrypt, LoseLink, ResetStack, Drop,
         Resync, Disconnected, Subscribe, Unsubscribe, PushB, LoopStep, SkipReport,
         SetReportValue, FindSubscriber, CheckSecurity, PassOn, SendNotification, NoBuffer,
         Sent

\* What the computer has of the keyboard keeps its types when it takes a report.
LEMMA HostTypes ==
  ASSUME TypeOK, outbox # <<>>, Receive(Head(outbox).report, Head(outbox).key)
  PROVE  hostKey' \in Keys.keyboard /\ hostMute' \in Keys.media /\ hostText' \in Seq(Characters)
<1> DEFINE report == Head(outbox).report
           key == Head(outbox).key
<1>1. report \in InputReports /\ key \in Keys[report]
  BY TailOfOutbox DEF TypeOK, Reports
<1>2. CASE report = "keyboard"
  <2>1. hostKey' \in Keys.keyboard /\ hostMute' = hostMute
    BY <1>1, <1>2 DEF Receive, Keys
  <2>2. hostText' \in Seq(Characters)
    <3> SUFFICES ASSUME key \notin {None, hostKey} PROVE hostText' \in Seq(Characters)
      BY <1>2 DEF Receive, TypeOK
    <3>1. key \in Characters /\ hostText \in Seq(Characters)
      BY <1>1, <1>2 DEF Keys, TypeOK
    <3>2. hostText' = Append(hostText, key)
      BY <1>2 DEF Receive
    <3> HIDE DEF key
    <3> QED  BY <3>1, <3>2, AppendProperties
  <2> QED  BY <2>1, <2>2 DEF TypeOK
<1>3. CASE report = "media"
  BY <1>1, <1>3 DEF Receive, Keys, TypeOK
<1> QED  BY <1>1, <1>2, <1>3 DEF InputReports

LEMMA InitTypeOK == Init => TypeOK
<1> SUFFICES ASSUME Init PROVE TypeOK
  OBVIOUS
<1>1. text \in Seq(Characters) /\ hostText \in Seq(Characters) /\ outbox \in Seq(Reports)
  BY EmptySeq DEF Init
<1>2. \A i \in 1 .. Len(outbox) : outbox[i].key \in Keys[outbox[i].report]
  BY DEF Init
<1>3. hostKey \in Keys.keyboard /\ hostMute \in Keys.media
  BY DEF Init, Keys
<1> QED  BY <1>1, <1>2, <1>3 DEF Init, TypeOK, Reports, InputReports

\* The types of the whole state.
LEMMA NextTypeOK == TypeOK /\ [Next]_vars => TypeOK'
<1> SUFFICES ASSUME TypeOK, [Next]_vars PROVE TypeOK'
  OBVIOUS
<1>1. /\ link' \in {"down", "up", "lost"} /\ stack' \in {"good", "reset", "error"}
      /\ stage' \in {"next", "value", "subscriber", "allowed"}
  BY DEF TypeOK, Next, vars, linkVars, advertiser, loopVars, Connect, ConnectFails, Encrypt, LoseLink,
         ResetStack, Drop, Resync, Disconnected, Subscribe, Unsubscribe, PushA, PushB,
         LoopStep, WriteNext, SkipReport, SetReportValue, FindSubscriber, CheckSecurity,
         PassOn, SendNotification, NoBuffer, Sent
<1>2. synced' \in BOOLEAN /\ encrypted' \in BOOLEAN
  BY Zenon
     DEF TypeOK, Next, vars, linkVars, advertiser, Connect, ConnectFails, Encrypt, LoseLink, ResetStack,
         Drop, Resync, Disconnected, Subscribe, Unsubscribe, PushA, PushB, LoopStep,
         WriteNext, SkipReport, SetReportValue, FindSubscriber, CheckSecurity, PassOn,
         SendNotification, NoBuffer
<1>3. isConnected' \in BOOLEAN /\ keyboardSubscribed' \in BOOLEAN /\ mediaSubscribed' \in BOOLEAN
  BY Zenon
     DEF TypeOK, Next, vars, flags, Connect, ConnectFails, Encrypt, LoseLink, ResetStack,
         Drop, Resync, Disconnected, OnDisconnect, Subscribe, Unsubscribe, OnSubscribe, PushA,
         PushB, LoopStep, WriteNext, SkipReport, SetReportValue, FindSubscriber,
         CheckSecurity, PassOn, SendNotification, NoBuffer
<1>4. steady' \in BOOLEAN /\ unbroken' \in BOOLEAN
  BY Zenon
     DEF TypeOK, Next, vars, history, Connect, ConnectFails, Encrypt, LoseLink, ResetStack,
         Drop, Resync, Disconnected, Subscribe, Unsubscribe, PushA, PushB, LoopStep,
         WriteNext, SkipReport, SetReportValue, FindSubscriber, CheckSecurity, PassOn,
         SendNotification, NoBuffer
<1>5. subscribed' \subseteq InputReports
  BY DEF TypeOK, Next, vars, linkVars, advertiser, Connect, ConnectFails, Encrypt, LoseLink, ResetStack,
         Drop, Resync, Disconnected, Subscribe, Unsubscribe, PushA, PushB, LoopStep,
         WriteNext, SkipReport, SetReportValue, FindSubscriber, CheckSecurity, PassOn,
         SendNotification, NoBuffer
<1>6. starved' \subseteq InputReports
  <2>1. outbox # <<>> => Head(outbox).report \in InputReports
    BY TailOfOutbox DEF Reports
  <2> QED
    BY <2>1
       DEF TypeOK, Next, vars, history, Connect, ConnectFails, Encrypt, LoseLink, ResetStack,
           Drop, Resync, Disconnected, Subscribe, Unsubscribe, PushA, PushB, LoopStep,
           WriteNext, SkipReport, SetReportValue, FindSubscriber, CheckSecurity, PassOn,
           SendNotification, NoBuffer
<1>7. hostKey' \in Keys.keyboard /\ hostMute' \in Keys.media /\ hostText' \in Seq(Characters)
  <2>1. None \in Keys.keyboard /\ None \in Keys.media /\ <<>> \in Seq(Characters)
    BY EmptySeq DEF Keys
  <2>2. CASE SendNotification
    BY <2>2, HostTypes DEF SendNotification, TypeOK, hostVars
  <2>3. CASE ~SendNotification
    BY <2>1, <2>3
       DEF TypeOK, Next, vars, hostVars, Connect, ConnectFails, Encrypt, LoseLink, ResetStack,
           Drop, Resync, Disconnected, Subscribe, Unsubscribe, PushA, PushB, LoopStep,
           WriteNext, SkipReport, SetReportValue, FindSubscriber, CheckSecurity, PassOn,
           NoBuffer
  <2> QED  BY <2>2, <2>3
<1>8. advertising' \in BOOLEAN /\ refused' \in BOOLEAN
  <2>1. CASE StartAdvertising
    BY <2>1 DEF StartAdvertising
  <2>2. CASE ~StartAdvertising
    BY <2>2, Zenon
       DEF TypeOK, Next, vars, linkVars, advertiser, Connect, ConnectFails, Encrypt, LoseLink,
           Disconnected, Subscribe, Unsubscribe, PushA, PushB, LoopStep, WriteNext,
           SkipReport, SetReportValue, FindSubscriber, CheckSecurity, PassOn,
           SendNotification, NoBuffer, ResetStack, Drop, Resync
  <2> QED  BY <2>1, <2>2
<1> QED
  BY <1>1, <1>2, <1>3, <1>4, <1>5, <1>6, <1>7, <1>8, OutboxTypes, TextTypes DEF TypeOK, Reports

(***************************************************************************)
(* The link                                                                *)
(***************************************************************************)

\* The callbacks keep the flag and the advertising in step with the link and the stack.
LEMMA NextLinkInv == TypeOK /\ LinkInv /\ [Next]_vars => LinkInv'
<1> SUFFICES ASSUME TypeOK, LinkInv, [Next]_vars PROVE LinkInv'
  OBVIOUS
<1> USE DEF LinkInv, AdvertisedOrConnected
<1>1. CASE Connect
  BY <1>1 DEF Connect
<1>2. CASE ConnectFails
  BY <1>2 DEF ConnectFails, StartAdvertising, flags
<1>3. CASE Encrypt
  BY <1>3 DEF Encrypt, advertiser, flags
<1>4. ASSUME NEW report \in InputReports, Subscribe(report) \/ Unsubscribe(report) PROVE LinkInv'
  <2>1. link \in {"up", "lost"} /\ UNCHANGED <<link, advertiser, encrypted, isConnected>>
    BY <1>4 DEF Subscribe, Unsubscribe
  <2> QED  BY <2>1 DEF advertiser
<1>5. CASE LoseLink
  BY <1>5 DEF LoseLink, Drop, advertiser, flags
<1>6. ASSUME NEW reason \in {"reset", "error"}, ResetStack(reason) PROVE LinkInv'
  BY <1>6 DEF ResetStack, Drop, flags, TypeOK
<1>7. CASE Disconnected
  BY <1>7 DEF Disconnected, OnDisconnect, StartAdvertising
<1>8. CASE Resync
  BY <1>8 DEF Resync, StartAdvertising, flags
<1>9. CASE UNCHANGED <<linkVars, flags>>
  BY <1>9 DEF linkVars, advertiser, flags
<1> QED
  BY <1>1, <1>2, <1>3, <1>4, <1>5, <1>6, <1>7, <1>8, <1>9
     DEF Next, vars, PushA, PushB, LoopStep, WriteNext, SkipReport, SetReportValue,
         FindSubscriber, CheckSecurity, PassOn, SendNotification, NoBuffer

(***************************************************************************)
(* The outbox                                                              *)
(***************************************************************************)

LEMMA NextOutboxInv == TypeOK /\ OutboxInv /\ [Next]_vars => OutboxInv'
<1> SUFFICES ASSUME TypeOK, OutboxInv, [Next]_vars PROVE OutboxInv'
  OBVIOUS
<1> USE DEF OutboxInv
<1>1. CASE UNCHANGED loopVars
  BY <1>1 DEF loopVars
<1>2. CASE outbox # <<>> /\ outbox' = Tail(outbox) /\ stage' = "next" /\ text' = text
  BY <1>2, TailOfOutbox
<1>3. CASE outbox # <<>> /\ outbox' = outbox /\ text' = text
  BY <1>3
<1>4. CASE WriteNext
  <2>1. CASE Head(text) \in Silent
    BY <1>4, <2>1 DEF WriteNext, TypeChar
  <2>2. CASE Head(text) \notin Silent
    <3>1. outbox' = << [report |-> "keyboard", key |-> Head(text)],
                       [report |-> "keyboard", key |-> None] >>
      BY <1>4, <2>2, PressAndRelease, TailOfText DEF WriteNext, TypeChar, InputReports
    <3> QED  BY <3>1
  <2> QED  BY <2>1, <2>2
<1>5. CASE PushA
  BY <1>5 DEF PushA, LoopIdle
<1>6. CASE PushB
  <2>1. outbox' = << [report |-> "media", key |-> "mute"], [report |-> "media", key |-> None] >>
    BY <1>6, PressAndRelease DEF PushB, InputReports
  <2>2. text' = <<>>
    BY <1>6 DEF PushB, LoopIdle
  <2> QED  BY <2>1, <2>2
<1> QED
  BY <1>1, <1>2, <1>3, <1>4, <1>5, <1>6
     DEF Next, vars, loopVars, Connect, ConnectFails, Encrypt, LoseLink, ResetStack, Drop,
         Resync, Disconnected, Subscribe, Unsubscribe, LoopStep, SkipReport, SetReportValue,
         FindSubscriber, CheckSecurity, PassOn, SendNotification, NoBuffer, Sent

\* The first report in the outbox is a release, or its release is the other one.
LEMMA PressThenRelease ==
  ASSUME TypeOK, OutboxInv, outbox # <<>>
  PROVE  \/ Len(outbox) = 1 /\ Head(outbox).key = None /\ Tail(outbox) = <<>>
         \/ /\ Len(outbox) = 2 /\ Len(Tail(outbox)) = 1
            /\ Tail(outbox)[1].report = Head(outbox).report
<1>1. CASE Len(outbox) = 1
  <2>1. Len(Tail(outbox)) = 0 /\ Tail(outbox) \in Seq(Reports)
    BY <1>1, TailOfOutbox
  <2> QED  BY <1>1, <2>1, TailOfOutbox, EmptySeq DEF OutboxInv
<1>2. CASE Len(outbox) = 2
  <2>1. Len(outbox) - 1 = 1 /\ 1 \in 1 .. 1 /\ 1 + 1 = 2
    BY <1>2
  <2>2. \A i \in 1 .. 1 : Tail(outbox)[i] = outbox[i + 1]
    BY <2>1, TailOfOutbox
  <2>3. Tail(outbox)[1] = outbox[2]
    BY <2>1, <2>2
  <2> QED  BY <1>2, <2>1, <2>3, TailOfOutbox DEF OutboxInv
<1> QED  BY <1>1, <1>2, TailOfOutbox DEF OutboxInv

(***************************************************************************)
(* The keys the computer sees pressed                                      *)
(***************************************************************************)

\* A report that the computer does not listen to may be given up: it is not the
\* release of a key that is down.
LEMMA GivenUp ==
  ASSUME TypeOK, KeysInv, outbox # <<>>, ~Listens(Head(outbox).report),
         outbox' = Tail(outbox), UNCHANGED <<linkVars, hostVars, starved>>
  PROVE  KeysInv'
<1>1. \A report \in InputReports : Listens(report)' = Listens(report)
  BY DEF linkVars, Listens
<1>2. hostKey = None \/ "keyboard" \in starved
  BY TailOfOutbox DEF KeysInv, Releasing
<1>3. hostMute = None \/ "media" \in starved
  BY TailOfOutbox DEF KeysInv, Releasing
<1> QED  BY <1>1, <1>2, <1>3 DEF KeysInv, hostVars, InputReports

\* The link when a report fails one of its tests.
LEMMA FailedTest ==
  ASSUME TypeOK, LinkInv, SkipReport \/ FindSubscriber \/ CheckSecurity, outbox' # outbox
  PROVE  /\ outbox # <<>> /\ outbox' = Tail(outbox) /\ stage' = "next"
         /\ ~Listens(Head(outbox).report)
         /\ UNCHANGED <<linkVars, text, hostVars, history>>
<1>1. CASE SkipReport
  <2>1. link = "down" /\ stage' = "next"
    BY <1>1 DEF SkipReport, LinkInv, AdvertisedOrConnected
  <2> QED  BY <1>1, <2>1 DEF SkipReport, Listens
<1>2. CASE FindSubscriber
  BY <1>2 DEF FindSubscriber, PassOn, Listens
<1>3. CASE CheckSecurity
  BY <1>3 DEF CheckSecurity, PassOn, Listens
<1> QED  BY <1>1, <1>2, <1>3

LEMMA NextKeysInv == TypeOK /\ LinkInv /\ OutboxInv /\ KeysInv /\ [Next]_vars => KeysInv'
<1> SUFFICES ASSUME TypeOK, LinkInv, OutboxInv, KeysInv, [Next]_vars PROVE KeysInv'
  OBVIOUS
<1>1. CASE UNCHANGED <<link, encrypted, subscribed, outbox, hostVars, starved>>
  BY <1>1 DEF hostVars, KeysInv, Listens, Releasing
<1>2. CASE Connect
  BY <1>2 DEF Connect, KeysInv, Listens, Releasing, loopVars, hostVars, history
<1>3. CASE Encrypt
  BY <1>3 DEF Encrypt, KeysInv, Listens, Releasing, loopVars, hostVars, history
<1>4. ASSUME NEW report \in InputReports, Subscribe(report) PROVE KeysInv'
  BY <1>4 DEF Subscribe, KeysInv, Listens, Releasing, loopVars, hostVars, history
<1>5. ASSUME NEW report \in InputReports, Unsubscribe(report) PROVE KeysInv'
  <2>1. CASE report = "keyboard"
    BY <1>5, <2>1 DEF Unsubscribe, KeysInv, Listens, Releasing, loopVars
  <2>2. CASE report = "media"
    BY <1>5, <2>2 DEF Unsubscribe, KeysInv, Listens, Releasing, loopVars
  <2> QED  BY <2>1, <2>2 DEF InputReports
<1>6. CASE Drop
  BY <1>6 DEF Drop, KeysInv
<1>7. CASE Disconnected
  BY <1>7 DEF Disconnected, KeysInv, Listens, Releasing, loopVars, hostVars, history
<1>8. CASE outbox = <<>> /\ UNCHANGED <<link, encrypted, subscribed, hostKey, hostMute, starved>>
  BY <1>8 DEF KeysInv, Listens, Releasing
<1>9. CASE (SkipReport \/ FindSubscriber \/ CheckSecurity) /\ outbox' # outbox
  BY <1>9, FailedTest, GivenUp DEF history
<1>10. CASE SendNotification
  <2>1. CASE ~Listens(Head(outbox).report)
    BY <1>10, <2>1, GivenUp DEF SendNotification, Sent
  <2>2. CASE Listens(Head(outbox).report) /\ Head(outbox).report = "keyboard"
    <3>1. \A report \in InputReports : Listens(report)' = Listens(report)
      BY <1>10 DEF SendNotification, Listens, linkVars
    <3>2. hostKey' = Head(outbox).key /\ hostMute' = hostMute /\ outbox' = Tail(outbox)
          /\ starved' = starved \ {"keyboard"} /\ outbox # <<>>
      BY <1>10, <2>2 DEF SendNotification, Receive, Sent
    <3>3. hostKey' = None \/ Releasing("keyboard")'
      BY <2>2, <3>2, PressThenRelease DEF Releasing
    <3>4. hostMute = None \/ "media" \in starved'
      BY <2>2, <3>2, TailOfOutbox DEF KeysInv, Releasing
    <3> QED  BY <2>2, <3>1, <3>2, <3>3, <3>4 DEF KeysInv, InputReports
  <2>3. CASE Listens(Head(outbox).report) /\ Head(outbox).report = "media"
    <3>1. \A report \in InputReports : Listens(report)' = Listens(report)
      BY <1>10 DEF SendNotification, Listens, linkVars
    <3>2. hostMute' = Head(outbox).key /\ hostKey' = hostKey /\ outbox' = Tail(outbox)
          /\ starved' = starved \ {"media"} /\ outbox # <<>>
      BY <1>10, <2>3 DEF SendNotification, Receive, Sent
    <3>3. hostMute' = None \/ Releasing("media")'
      BY <2>3, <3>2, PressThenRelease DEF Releasing
    <3>4. hostKey = None \/ "keyboard" \in starved'
      BY <2>3, <3>2, TailOfOutbox DEF KeysInv, Releasing
    <3> QED  BY <2>3, <3>1, <3>2, <3>3, <3>4 DEF KeysInv, InputReports
  <2>4. Head(outbox).report \in InputReports
    BY <1>10, TailOfOutbox DEF SendNotification, Reports
  <2> QED  BY <2>1, <2>2, <2>3, <2>4 DEF InputReports
<1>11. CASE NoBuffer
  <2>1. \A report \in InputReports : Listens(report)' = Listens(report)
    BY <1>11 DEF NoBuffer, Listens, linkVars
  <2>2. hostKey = None \/ "keyboard" \in starved'
    BY <1>11, TailOfOutbox DEF NoBuffer, KeysInv, Releasing
  <2>3. hostMute = None \/ "media" \in starved'
    BY <1>11, TailOfOutbox DEF NoBuffer, KeysInv, Releasing
  <2> QED  BY <1>11, <2>1, <2>2, <2>3 DEF NoBuffer, KeysInv, InputReports, hostVars
<1> QED
  BY <1>1, <1>2, <1>3, <1>4, <1>5, <1>6, <1>7, <1>8, <1>9, <1>10, <1>11
     DEF Next, vars, linkVars, loopVars, hostVars, history, ConnectFails, LoseLink,
         ResetStack, Resync, PushA, PushB, LoopIdle, LoopStep, WriteNext, SkipReport,
         SetReportValue, FindSubscriber, CheckSecurity, PassOn

(***************************************************************************)
(* The text                                                                *)
(***************************************************************************)

\* Taking a character is writing one more.
LEMMA OneMoreWritten ==
  ASSUME TypeOK, TextInv, text # <<>>, text' = Tail(text)
  PROVE  /\ Written \in Nat /\ Written' = Written + 1 /\ Written + 1 \in 1 .. Len(Password)
         /\ Head(text) = Password[Written + 1]
         /\ TextInv'
<1>1. Len(Password) \in Nat
  BY KeyboardAssumption, LenProperties
<1>2. Written \in Nat /\ Written' = Written + 1 /\ Written + 1 \in 1 .. Len(Password)
  BY <1>1, TailOfText DEF Written, TextInv
<1>3. Head(text) = Password[Written + 1]
  BY TailOfText DEF TextInv
<1>4. ASSUME NEW i \in 1 .. Len(text') PROVE text'[i] = Password[Written' + i]
  <2>1. i \in 1 .. Len(text) - 1 /\ i + 1 \in 1 .. Len(text)
    BY TailOfText
  <2>2. text'[i] = text[i + 1]
    BY <2>1, TailOfText
  <2>3. text[i + 1] = Password[Written + (i + 1)]
    BY <2>1 DEF TextInv
  <2>4. Written + (i + 1) = Written' + i
    BY <1>2, <2>1
  <2> QED  BY <2>2, <2>3, <2>4
<1>5. Len(text') <= Len(Password)
  BY <1>1, TailOfText DEF TextInv
<1> QED  BY <1>2, <1>3, <1>4, <1>5 DEF TextInv

LEMMA NextTextInv == TypeOK /\ TextInv /\ [Next]_vars => TextInv'
<1> SUFFICES ASSUME TypeOK, TextInv, [Next]_vars PROVE TextInv'
  OBVIOUS
<1>1. CASE UNCHANGED text
  BY <1>1 DEF TextInv, Written
<1>2. CASE WriteNext
  BY <1>2, OneMoreWritten DEF WriteNext
<1>3. CASE PushA
  <2>1. Len(Password) \in Nat /\ text' = Password
    BY <1>3, KeyboardAssumption, LenProperties DEF PushA
  <2>2. \A i \in 1 .. Len(Password) : Written' + i = i
    BY <2>1 DEF Written
  <2> QED  BY <2>1, <2>2 DEF TextInv
<1> QED
  BY <1>1, <1>2, <1>3
     DEF Next, vars, loopVars, Connect, ConnectFails, Encrypt, LoseLink, ResetStack, Drop,
         Resync, Disconnected, Subscribe, Unsubscribe, PushB, LoopStep, SkipReport,
         SetReportValue, FindSubscriber, CheckSecurity, PassOn, SendNotification, NoBuffer,
         Sent

(***************************************************************************)
(* The places of the characters                                            *)
(***************************************************************************)

LEMMA PlaceType ==
  ASSUME NEW n \in Nat
  PROVE  IsFiniteSet({i \in Shown : i <= n}) /\ Place(n) \in Nat
<1>1. Len(Password) \in Nat
  BY KeyboardAssumption, LenProperties
<1>2. IsFiniteSet(1 .. Len(Password))
  BY <1>1, FS_Interval
<1>3. {i \in Shown : i <= n} \subseteq 1 .. Len(Password)
  BY DEF Shown
<1> QED  BY <1>2, <1>3, FS_Subset, FS_CardinalityType DEF Place

LEMMA PlaceZero == Place(0) = 0
<1>1. {i \in Shown : i <= 0} = {}
  BY KeyboardAssumption, LenProperties DEF Shown
<1> QED  BY <1>1, FS_EmptySet DEF Place

\* A character that is shown takes the next place, and no other takes any.
LEMMA PlaceNext ==
  ASSUME NEW n \in Nat
  PROVE  Place(n + 1) = IF n + 1 \in Shown THEN Place(n) + 1 ELSE Place(n)
<1> DEFINE S == {i \in Shown : i <= n}
           T == {i \in Shown : i <= n + 1}
<1>1. IsFiniteSet(S) /\ Place(n) = Cardinality(S) /\ Place(n + 1) = Cardinality(T)
  BY PlaceType DEF Place
<1>2. Shown \subseteq Int
  BY KeyboardAssumption, LenProperties DEF Shown
<1>3. \A i \in Int : i <= n + 1 <=> i <= n \/ i = n + 1
  OBVIOUS
<1>4. ~(n + 1 <= n)
  OBVIOUS
<1>5. CASE n + 1 \in Shown
  <2>1. T = S \cup {n + 1} /\ n + 1 \notin S
    BY <1>2, <1>5, <1>3, <1>4
  <2> HIDE DEF S, T
  <2> QED  BY <1>1, <1>5, <2>1, FS_AddElement
<1>6. CASE n + 1 \notin Shown
  <2>1. T = S
    BY <1>2, <1>6, <1>3
  <2> QED  BY <1>1, <1>6, <2>1
<1> QED  BY <1>5, <1>6

\* The characters shown up to n have their places up to that of n.
LEMMA PlaceOrder ==
  ASSUME NEW n \in Nat, NEW i \in Shown, i <= n
  PROVE  i \in Nat /\ i >= 1 /\ Place(i) \in 1 .. Place(n)
<1>1. i \in Nat /\ i >= 1
  BY KeyboardAssumption, LenProperties DEF Shown
<1>2. Place(i) \in Nat /\ Place(n) \in Nat
  BY <1>1, PlaceType
<1>3. {j \in Shown : j <= i} \subseteq {j \in Shown : j <= n}
  BY <1>1, KeyboardAssumption, LenProperties DEF Shown
<1>4. Place(i) <= Place(n)
  BY <1>3, PlaceType, FS_Subset DEF Place
<1>5. Place(i) >= 1
  <2>1. i - 1 \in Nat /\ (i - 1) + 1 = i
    BY <1>1
  <2>2. Place(i - 1) \in Nat /\ Place(i) = Place(i - 1) + 1
    BY <2>1, PlaceType, PlaceNext
  <2> QED  BY <2>2
<1> QED  BY <1>1, <1>2, <1>4, <1>5

LEMMA NothingTyped ==
  ASSUME hostText' = <<>>
  PROVE  Typed(0)'
<1>1. \A i \in Shown : ~(i <= 0)
  BY KeyboardAssumption, LenProperties DEF Shown
<1> QED  BY <1>1, PlaceZero DEF Typed

\* The computer has a character without a key as soon as it has those before.
LEMMA SilentTyped ==
  ASSUME NEW n \in Nat, n + 1 \notin Shown, Typed(n)
  PROVE  Typed(n + 1)
<1>1. Place(n + 1) = Place(n)
  BY PlaceNext
<1>2. \A i \in Shown : i <= n + 1 => i <= n
  BY KeyboardAssumption, LenProperties DEF Shown
<1> QED  BY <1>1, <1>2 DEF Typed

\* A press adds the next character that is shown, in its place.
LEMMA OneMoreTyped ==
  ASSUME NEW n \in Nat, n + 1 \in Shown, Typed(n), hostText \in Seq(Characters),
         Password[n + 1] \in Characters, hostText' = Append(hostText, Password[n + 1])
  PROVE  Typed(n + 1)'
<1>1. Place(n + 1) = Place(n) + 1 /\ Place(n) \in Nat /\ Len(hostText) = Place(n)
  BY PlaceNext, PlaceType DEF Typed
<1>2. /\ Len(hostText') = Place(n) + 1 /\ hostText'[Place(n) + 1] = Password[n + 1]
      /\ \A k \in 1 .. Place(n) : hostText'[k] = hostText[k]
  BY <1>1, AppendProperties
<1>3. ASSUME NEW i \in Shown, i <= n PROVE hostText'[Place(i)] = Password[i]
  BY <1>2, <1>3, PlaceOrder DEF Typed
<1>4. \A i \in Shown : i <= n + 1 => i <= n \/ i = n + 1
  BY KeyboardAssumption, LenProperties DEF Shown
<1> QED  BY <1>1, <1>2, <1>3, <1>4 DEF Typed

(***************************************************************************)
(* A steady link                                                           *)
(***************************************************************************)

\* The reports of the mute key leave what is typed alone.
LEMMA MediaTaken ==
  ASSUME TypeOK, OutboxInv, SteadyInv, steady, outbox # <<>>, Head(outbox).report = "media",
         outbox' = Tail(outbox), UNCHANGED <<linkVars, text, hostKey, hostText>>
  PROVE  SteadyInv'
<1>1. ~Pressing /\ ~Releasing("keyboard")
  BY TailOfOutbox DEF Pressing, Releasing
<1>2. ~Pressing' /\ ~Releasing("keyboard")'
  BY PressThenRelease, TailOfOutbox DEF Pressing, Releasing
<1> QED  BY <1>1, <1>2 DEF SteadyInv, Ready, Typed, Written, linkVars

\* A step that leaves the loop and the computer's text alone and keeps the link ready.
LEMMA StillSteady ==
  ASSUME SteadyInv, steady, Ready', UNCHANGED <<text, outbox, hostKey, hostText>>
  PROVE  SteadyInv'
  BY DEF SteadyInv, Typed, Written, Pressing, Releasing

LEMMA NextSteadyInv ==
  TypeOK /\ LinkInv /\ OutboxInv /\ TextInv /\ SteadyInv /\ [Next]_vars => SteadyInv'
<1> SUFFICES ASSUME TypeOK, LinkInv, OutboxInv, TextInv, SteadyInv, [Next]_vars, steady'
             PROVE  SteadyInv'
  BY DEF SteadyInv
<1>1. CASE PushA
  <2>1. hostText' = <<>> /\ outbox' = <<>> /\ hostKey' = None /\ Ready'
    BY <1>1 DEF PushA, LoopIdle, linkVars, Ready
  <2>2. Typed(0)'
    BY <2>1, NothingTyped
  <2>3. Written' = 0
    BY <1>1, KeyboardAssumption, LenProperties DEF PushA, Written
  <2> QED  BY <2>1, <2>2, <2>3 DEF SteadyInv, Pressing, Releasing
<1>2. CASE ~PushA
  <2>1. steady /\ Ready
    BY <1>2
       DEF SteadyInv, Next, vars, history, Connect, ConnectFails, Encrypt, LoseLink,
           ResetStack, Drop, Resync, Disconnected, Subscribe, Unsubscribe, PushB, LoopStep,
           WriteNext, SkipReport, SetReportValue, FindSubscriber, CheckSecurity, PassOn,
           SendNotification, NoBuffer
  <2>2. link = "up" /\ encrypted /\ "keyboard" \in subscribed /\ isConnected
    BY <2>1 DEF Ready, LinkInv, AdvertisedOrConnected
  <2>3. CASE \E report \in InputReports : Subscribe(report) \/ Unsubscribe(report)
    <3>1. Ready' /\ UNCHANGED <<text, outbox, hostKey, hostText>>
      BY <2>2, <2>3 DEF Subscribe, Unsubscribe, Ready, loopVars, hostVars
    <3> QED  BY <2>1, <3>1, StillSteady
  <2>4. CASE WriteNext
    <3>1. outbox = <<>> /\ text # <<>> /\ text' = Tail(text) /\ outbox' = TypeChar(Head(text))
          /\ Ready' /\ hostKey' = hostKey /\ hostText' = hostText
      BY <2>1, <2>4 DEF WriteNext, linkVars, hostVars, Ready
    <3>2. hostKey = None /\ Typed(Written)
      BY <2>1, <3>1 DEF SteadyInv, Pressing, Releasing
    <3>3. Written \in Nat /\ Written' = Written + 1 /\ Written + 1 \in 1 .. Len(Password)
          /\ Head(text) = Password[Written + 1] /\ Head(text) \in Characters
      BY <3>1, OneMoreWritten, TailOfText
    <3>4. CASE Head(text) \in Silent
      <4>1. outbox' = <<>>
        BY <3>1, <3>4 DEF TypeChar
      <4>2. Typed(Written + 1)
        BY <3>2, <3>3, <3>4, SilentTyped DEF Shown
      <4>3. Typed(Written)'
        BY <3>1, <3>3, <4>2 DEF Typed
      <4> QED  BY <3>1, <3>2, <4>1, <4>3 DEF SteadyInv, Pressing, Releasing
    <3>5. CASE Head(text) \notin Silent
      <4>1. outbox' = << [report |-> "keyboard", key |-> Head(text)],
                         [report |-> "keyboard", key |-> None] >>
        BY <3>1, <3>3, <3>5, PressAndRelease DEF TypeChar, InputReports
      <4>2. Pressing' /\ outbox'[1].key = Password[Written'] /\ Written' \in Shown
        BY <3>3, <3>5, <4>1 DEF Pressing, Shown
      <4>3. Typed(Written - 1)'
        BY <3>1, <3>2, <3>3 DEF Typed
      <4> QED  BY <3>1, <3>2, <4>2, <4>3 DEF SteadyInv, Releasing, Pressing
    <3> QED  BY <3>4, <3>5
  <2>5. CASE PushB
    <3>1. outbox' = << [report |-> "media", key |-> "mute"], [report |-> "media", key |-> None] >>
      BY <2>5, PressAndRelease DEF PushB, InputReports
    <3>2. outbox = <<>> /\ UNCHANGED <<linkVars, text, hostKey, hostText>>
      BY <2>5 DEF PushB, LoopIdle, hostVars
    <3>3. hostKey = None /\ Typed(Written)
      BY <2>1, <3>2 DEF SteadyInv, Pressing, Releasing
    <3>4. ~Pressing'
      BY <3>1 DEF Pressing
    <3> QED  BY <2>1, <3>2, <3>3, <3>4 DEF SteadyInv, Typed, Written, Ready, linkVars
  <2>6. CASE (SkipReport \/ FindSubscriber \/ CheckSecurity) /\ outbox' # outbox
    <3>1. outbox # <<>> /\ outbox' = Tail(outbox) /\ ~Listens(Head(outbox).report)
          /\ UNCHANGED <<linkVars, text, hostKey, hostText>>
      BY <2>6, FailedTest DEF hostVars
    <3>2. Head(outbox).report = "media"
      BY <2>2, <3>1, TailOfOutbox DEF Listens, Reports, InputReports
    <3> QED  BY <2>1, <3>1, <3>2, MediaTaken
  <2>7. CASE SendNotification /\ Head(outbox).report = "media"
    <3>1. outbox # <<>> /\ outbox' = Tail(outbox)
          /\ UNCHANGED <<linkVars, text, hostKey, hostText>>
      BY <2>7 DEF SendNotification, Sent, Receive, hostVars
    <3> QED  BY <2>1, <2>7, <3>1, MediaTaken
  <2>8. CASE SendNotification /\ Head(outbox).report = "keyboard"
    <3>1. outbox # <<>> /\ outbox' = Tail(outbox) /\ text' = text /\ Ready'
          /\ Receive("keyboard", Head(outbox).key)
      BY <2>1, <2>2, <2>8 DEF SendNotification, Sent, Listens, linkVars, Ready
    <3>2. CASE Len(outbox) = 1
      <4>1. Head(outbox).key = None /\ outbox' = <<>>
        BY <3>1, <3>2, PressThenRelease
      <4>2. hostKey' = None /\ hostText' = hostText
        BY <3>1, <4>1 DEF Receive
      <4>3. Typed(Written)
        BY <2>1, <3>2 DEF SteadyInv, Pressing
      <4> QED
        BY <3>1, <4>1, <4>2, <4>3 DEF SteadyInv, Typed, Written, Pressing, Releasing
    <3>3. CASE Len(outbox) = 2
      <4>1. Releasing("keyboard")' /\ ~Pressing'
        <5>1. Len(Tail(outbox)) = 1 /\ Tail(outbox)[1].report = "keyboard"
          BY <2>8, <3>1, <3>3, PressThenRelease
        <5> QED  BY <3>1, <5>1 DEF Releasing, Pressing
      <4>2. Pressing
        BY <2>8, <3>1, <3>3, TailOfOutbox DEF Pressing
      <4>3. /\ Written \in Shown /\ Head(outbox).key = Password[Written]
            /\ hostKey = None /\ Typed(Written - 1)
        BY <2>1, <3>1, <4>2, TailOfOutbox DEF SteadyInv
      <4>4. PICK n \in Nat : Written = n + 1 /\ Written - 1 = n
        <5>1. Written \in Nat /\ Written >= 1
          BY <4>3, KeyboardAssumption, LenProperties DEF Shown
        <5> QED  BY <5>1
      <4>5. Password[n + 1] \in Characters
        BY <4>3, <4>4 DEF Shown, Characters
      <4>6. hostText' = Append(hostText, Password[n + 1])
        BY <3>1, <4>3, <4>4, <4>5, KeyboardAssumption DEF Receive
      <4>7. Typed(n + 1)'
        BY <4>3, <4>4, <4>5, <4>6, OneMoreTyped DEF TypeOK
      <4>8. Written' = n + 1
        BY <3>1, <4>4 DEF Written
      <4> QED  BY <3>1, <4>1, <4>7, <4>8 DEF SteadyInv
    <3> QED  BY <3>1, <3>2, <3>3, TailOfOutbox DEF OutboxInv
  <2>9. CASE NoBuffer
    <3>1. outbox # <<>> /\ outbox' = Tail(outbox) /\ Head(outbox).report = "media"
          /\ UNCHANGED <<linkVars, text, hostKey, hostText>>
      BY <2>9, TailOfOutbox DEF NoBuffer, Sent, hostVars, Reports, InputReports
    <3> QED  BY <2>1, <3>1, MediaTaken
  <2>10. CASE UNCHANGED <<linkVars, text, outbox, hostVars>>
    BY <2>1, <2>10, StillSteady DEF linkVars, Ready, hostVars
  <2>11. SendNotification => Head(outbox).report \in {"keyboard", "media"}
    BY TailOfOutbox DEF SendNotification, Reports, InputReports
  <2>12. ~Connect /\ ~ConnectFails /\ ~Encrypt /\ ~Disconnected /\ ~Resync /\ ~Drop
    BY <2>2 DEF Connect, ConnectFails, Encrypt, Disconnected, Resync, Drop
  <2>13. SetReportValue => UNCHANGED <<linkVars, text, outbox, hostVars>>
    BY DEF SetReportValue
  <2>14. SkipReport \/ FindSubscriber \/ CheckSecurity => UNCHANGED <<linkVars, text, hostVars>>
    BY DEF SkipReport, FindSubscriber, CheckSecurity, PassOn
  <2>15. UNCHANGED vars => UNCHANGED <<linkVars, text, outbox, hostVars>>
    BY DEF vars, loopVars
  <2> QED
    BY <1>2, <2>3, <2>4, <2>5, <2>6, <2>7, <2>8, <2>9, <2>10, <2>11, <2>12, <2>13, <2>14, <2>15
       DEF Next, LoopStep, LoseLink, ResetStack
<1> QED  BY <1>1, <1>2

(***************************************************************************)
(* The theorems                                                            *)
(***************************************************************************)

LEMMA InitIInv == Init => IInv
<1> SUFFICES ASSUME Init PROVE IInv
  OBVIOUS
<1>1. TextInv
  BY KeyboardAssumption, LenProperties DEF Init, TextInv
<1>2. LinkInv
  BY Zenon DEF Init, LinkInv, AdvertisedOrConnected
<1> QED
  BY <1>1, <1>2, InitTypeOK DEF Init, IInv, OutboxInv, KeysInv, SteadyInv

LEMMA NextIInv == IInv /\ [Next]_vars => IInv'
  BY NextTypeOK, NextLinkInv, NextOutboxInv, NextKeysInv, NextTextInv, NextSteadyInv DEF IInv

\* The state of the keyboard keeps its types: a report holds a key of its own kind.
THEOREM TypeCorrect == Spec => []TypeOK
  BY InitIInv, NextIInv, PTL DEF Spec, IInv

\* Whenever resets and breaks of the link come, and whether the callbacks notice them or
\* not, a device without a computer whose stack is good again is advertised, unless the
\* controller refused it; and no other device is.
THEOREM AdvertisedWhenAlone == Spec => []AdvertisedOrConnected
<1>1. IInv => AdvertisedOrConnected
  BY DEF IInv, LinkInv
<1> QED  BY <1>1, InitIInv, NextIInv, PTL DEF Spec

\* However connections and typing interleave, the loop leaves no key down, except for
\* one whose release found no mbuf.
THEOREM KeysReleased == Spec => []NoStuckKey
<1>1. IInv => NoStuckKey
  BY DEF IInv, KeysInv, NoStuckKey, LoopIdle, Releasing
<1> QED  BY <1>1, InitIInv, NextIInv, PTL DEF Spec

\* A password of any length typed over a link that is ready and stays so arrives whole.
THEOREM PasswordArrives == Spec => []TypedWhole
<1>1. IInv => TypedWhole
  <2> SUFFICES ASSUME IInv, LoopIdle, steady PROVE Typed(Len(Password))
    BY DEF TypedWhole
  <2>1. Written = Len(Password)
    BY KeyboardAssumption, LenProperties DEF LoopIdle, Written
  <2> QED  BY <2>1 DEF IInv, SteadyInv, LoopIdle, Pressing
<1> QED  BY <1>1, InitIInv, NextIInv, PTL DEF Spec
=============================================================================
