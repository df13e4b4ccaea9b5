----------------------------- MODULE BleKeyboard -----------------------------
(***************************************************************************)
(* The keyboard (BleKeyboard.cpp): the NimBLE host task reports what       *)
(* happens to the link through the callbacks onConnect, onSubscribe and    *)
(* onDisconnect, while the Arduino loop types a text as a series of press  *)
(* and release reports, each a notification that reaches the computer only *)
(* over an encrypted link whose computer has subscribed to it.             *)
(*                                                                         *)
(* The callbacks run in the host task and the reports in the loop.  A      *)
(* report is a step for each state of the link that sendKeyReport and      *)
(* notify look at in turn: isConnected(), the subscribers, the encryption, *)
(* and the connection it is sent over.  What they have found may be out of *)
(* date at the next step.  There is one connection at a time: advertising  *)
(* stops when a computer connects, and the disconnect event tries to start *)
(* it again, which fails while the stack is out of step with its           *)
(* controller, or if the controller refuses.                               *)
(***************************************************************************)
EXTENDS Integers, Sequences, FiniteSets

CONSTANTS Password,  \* what the button types, a sequence of characters
          Silent,    \* characters write() sends nothing for
          None,      \* no key
          MaxLinks,  \* bound: connections made
          MaxPushes, \* bound: buttons pushed
          MaxDrops   \* bound: reports dropped because there is no mbuf

Characters == {Password[i] : i \in 1 .. Len(Password)}

ASSUME KeyboardAssumption ==
  /\ Password \in Seq(Characters) /\ None \notin Characters \cup {"mute"}
  /\ MaxLinks \in Nat /\ MaxPushes \in Nat /\ MaxDrops \in Nat

VARIABLES link,        \* "down", "up", or "lost": broken, its events under way
          encrypted,
          stack,       \* "good": in step with its controller; or being reset, for one of
                       \* the reasons the callbacks look for ("reset"), or another ("error")
          synced,      \* m_synced, what NimBLEDevice knows of it
          advertising,
          refused,     \* history: the controller refused to start the advertising
          subscribed,  \* m_subscribedVec of the two input reports
          isConnected, keyboardSubscribed, mediaSubscribed,  \* the flags of BleKeyboard
          text,        \* characters the loop still has to write
          outbox,      \* reports it still has to send for the last one, or for button B
          stage,       \* how far the first of them has come
          hostKey, hostMute, hostText,  \* what the computer sees pressed, and typed
          steady,      \* history: the link was ready and stayed so since button A
          unbroken,    \* history: the link was up and stayed so since button A
          starved,     \* history: input reports whose last one found no mbuf
          links, pushes, drops

advertiser == <<stack, synced, advertising, refused>>
linkVars == <<link, encrypted, subscribed, advertiser>>
flags == <<isConnected, keyboardSubscribed, mediaSubscribed>>
loopVars == <<text, outbox, stage>>
hostVars == <<hostKey, hostMute, hostText>>
history == <<steady, unbroken, starved>>
budget == <<links, pushes, drops>>
vars == <<linkVars, flags, loopVars, hostVars, history, budget>>

InputReports == {"keyboard", "media"}
Keys == [keyboard |-> Characters \cup {None}, media |-> {"mute", None}]

\* begin(): the services are up and the device advertises, unless that is refused.
Init ==
  /\ link = "down" /\ encrypted = FALSE /\ subscribed = {}
  /\ stack = "good" /\ synced = TRUE /\ advertising \in BOOLEAN /\ refused = ~advertising
  /\ isConnected = FALSE /\ keyboardSubscribed = FALSE /\ mediaSubscribed = FALSE
  /\ text = <<>> /\ outbox = <<>> /\ stage = "next"
  /\ hostKey = None /\ hostMute = None /\ hostText = <<>>
  /\ steady = FALSE /\ unbroken = FALSE /\ starved = {}
  /\ links = 0 /\ pushes = 0 /\ drops = 0

(***************************************************************************)
(* The host task.                                                          *)
(***************************************************************************)

\* A connection: advertising stops, and onConnect sets the flag.
Connect ==
  /\ link = "down" /\ advertising
  /\ links < MaxLinks /\ links' = links + 1
  /\ link' = "up" /\ advertising' = FALSE
  /\ isConnected' = TRUE
  /\ UNCHANGED <<encrypted, subscribed, stack, synced, refused, keyboardSubscribed,
                 mediaSubscribed, loopVars, hostVars, history, pushes, drops>>

\* NimBLEAdvertising::start gives up at once if it knows of a reset.  Of a reset it does
\* not know of it learns when the stack ends the advertising in the same reset.  If the
\* stack is good, the controller starts to advertise or refuses, and nobody looks.
StartAdvertising ==
  /\ advertising' \in {FALSE, synced' /\ stack' = "good"}
  /\ refused' = (synced' /\ stack' = "good" /\ ~advertising')

\* A connection that fails: advertising is resumed.
ConnectFails ==
  /\ link = "down" /\ advertising
  /\ links < MaxLinks /\ links' = links + 1
  /\ UNCHANGED <<stack, synced>> /\ StartAdvertising
  /\ UNCHANGED <<link, encrypted, subscribed, flags, loopVars, hostVars, history, pushes, drops>>

Encrypt ==
  /\ link = "up" /\ ~encrypted
  /\ encrypted' = TRUE
  /\ UNCHANGED <<link, advertiser, subscribed, flags, loopVars, hostVars, history, budget>>

\* onSubscribe: the flag of the report follows the computer's subscription.
OnSubscribe(report, on) ==
  /\ keyboardSubscribed' = IF report = "keyboard" THEN on ELSE keyboardSubscribed
  /\ mediaSubscribed' = IF report = "media" THEN on ELSE mediaSubscribed

Subscribe(report) ==
  /\ link = "up" /\ report \notin subscribed
  /\ subscribed' = subscribed \cup {report}
  /\ OnSubscribe(report, TRUE)
  /\ UNCHANGED <<link, advertiser, encrypted, isConnected, loopVars, hostVars, history,
                 budget>>

\* The computer unsubscribes, and forgets the keys it had from the report; or
\* the stack does it for a link that is broken.
Unsubscribe(report) ==
  /\ link \in {"up", "lost"} /\ report \in subscribed
  /\ subscribed' = subscribed \ {report}
  /\ OnSubscribe(report, FALSE)
  /\ hostKey' = IF report = "keyboard" THEN None ELSE hostKey
  /\ hostMute' = IF report = "media" THEN None ELSE hostMute
  /\ steady' = (steady /\ report # "keyboard") /\ starved' = starved \ {report}
  /\ UNCHANGED <<link, advertiser, encrypted, isConnected, loopVars, hostText, unbroken,
                 budget>>

\* The radio link is gone; the computer drops the keyboard and its keys.
Drop ==
  /\ link' = IF link = "up" THEN "lost" ELSE link
  /\ hostKey' = None /\ hostMute' = None
  /\ steady' = FALSE /\ unbroken' = FALSE /\ starved' = {}
  /\ UNCHANGED <<encrypted, subscribed, flags, loopVars, hostText, budget>>

LoseLink == link = "up" /\ Drop /\ UNCHANGED advertiser

\* The controller does not answer, or reports an error: the stack resets itself and
\* begins to break the connection there is, or ends the advertising, whose event tells
\* NimBLEDevice if it looks for this reason.
\* (A reset for no reason, which a malformed answer of the controller
\* leads to, is left out.)
ResetStack(reason) ==
  /\ stack = "good" /\ stack' = reason
  /\ Drop
  /\ advertising' = FALSE /\ refused' = FALSE
  /\ synced' = (synced /\ ~(advertising /\ reason = "reset"))

\* onDisconnect clears the flags.
OnDisconnect ==
  /\ isConnected' = FALSE
  /\ keyboardSubscribed' = FALSE /\ mediaSubscribed' = FALSE

\* Mutant of Disconnected: advertising is not restarted.
MutDisconnected ==
  /\ link = "lost" /\ subscribed = {}
  /\ link' = "down" /\ encrypted' = FALSE
  /\ synced' = (synced /\ stack # "reset")
  /\ OnDisconnect
  /\ UNCHANGED <<stack, advertising, refused, subscribed, loopVars, hostVars, history, budget>>
\* The disconnect event, after the unsubscribe events: a reset is noted, then
\* onDisconnect, and the device is to advertise again.
Disconnected ==
  /\ link = "lost" /\ subscribed = {}
  /\ link' = "down" /\ encrypted' = FALSE
  /\ UNCHANGED stack /\ synced' = (synced /\ stack # "reset")
  /\ OnDisconnect
  /\ StartAdvertising
  /\ UNCHANGED <<subscribed, loopVars, hostVars, history, budget>>

\* Mutant of Resync: no onReset before onSync, which takes the stack for synced then.
MutResync ==
  /\ stack # "good" /\ link = "down"
  /\ stack' = "good" /\ synced' = TRUE
  /\ IF synced THEN UNCHANGED <<advertising, refused>> ELSE StartAdvertising
  /\ UNCHANGED <<link, encrypted, subscribed, flags, loopVars, hostVars, history, budget>>
\* The rest of a reset: onReset for any reason, and when the controller answers (the
\* stack tries again until it does) onSync, which restarts the advertising.
Resync ==
  /\ stack # "good" /\ link = "down"
  /\ stack' = "good" /\ synced' = TRUE
  /\ StartAdvertising
  /\ UNCHANGED <<link, encrypted, subscribed, flags, loopVars, hostVars, history, budget>>

(***************************************************************************)
(* The loop.                                                               *)
(***************************************************************************)
Ready == link = "up" /\ encrypted /\ "keyboard" \in subscribed

Report(report, key) == <<[report |-> report, key |-> key]>>

\* Mutant of TypeChar: a character is pressed and not released.
MutTypeChar(chr) == IF chr \in Silent THEN <<>> ELSE Report("keyboard", chr)
\* write(chr): pressKey and releaseKey, or nothing.
TypeChar(chr) ==
  IF chr \in Silent THEN <<>> ELSE Report("keyboard", chr) \o Report("keyboard", None)

LoopIdle == text = <<>> /\ outbox = <<>>

\* Button A: the password is typed if a computer is connected.
PushA ==
  /\ LoopIdle /\ isConnected
  /\ pushes < MaxPushes /\ pushes' = pushes + 1
  /\ text' = Password
  /\ hostText' = <<>>
  /\ steady' = (Ready /\ hostKey = None) /\ unbroken' = (link = "up")
  /\ UNCHANGED <<linkVars, flags, outbox, stage, hostKey, hostMute, starved, links, drops>>

\* write(buffer, size): the next character, once the last one is sent.
WriteNext ==
  /\ outbox = <<>> /\ text # <<>>
  /\ outbox' = TypeChar(Head(text)) /\ text' = Tail(text)
  /\ UNCHANGED <<linkVars, flags, stage, hostVars, history, budget>>

\* Mutant of PushB: mute is sent in the keyboard report.
MutPushB ==
  /\ LoopIdle
  /\ pushes < MaxPushes /\ pushes' = pushes + 1
  /\ outbox' = Report("keyboard", "mute") \o Report("keyboard", None)
  /\ UNCHANGED <<linkVars, flags, text, stage, hostVars, history, links, drops>>
\* Button B: mute is pressed and released.
PushB ==
  /\ LoopIdle
  /\ pushes < MaxPushes /\ pushes' = pushes + 1
  /\ outbox' = Report("media", "mute") \o Report("media", None)
  /\ UNCHANGED <<linkVars, flags, text, stage, hostVars, history, links, drops>>

\* sendKeyReport without a connection: the report is skipped.
SkipReport ==
  /\ outbox # <<>> /\ stage = "next" /\ ~isConnected
  /\ outbox' = Tail(outbox)
  /\ UNCHANGED <<linkVars, flags, text, stage, hostVars, history, budget>>

SetReportValue ==
  /\ outbox # <<>> /\ stage = "next" /\ isConnected
  /\ stage' = "value"
  /\ UNCHANGED <<linkVars, flags, text, outbox, hostVars, history, budget>>

\* The loop goes on to the stage if the test holds, or gives the report up
\* without notice.
PassOn(test, next) ==
  /\ stage' = IF test THEN next ELSE "next"
  /\ outbox' = IF test THEN outbox ELSE Tail(outbox)
  /\ UNCHANGED <<linkVars, flags, text, hostVars, history, budget>>

\* notify(): whether m_subscribedVec has an element.  The element is read from
\* here on, even if the host task erases it meanwhile: its memory stays.
FindSubscriber ==
  outbox # <<>> /\ stage = "value" /\ PassOn(Head(outbox).report \in subscribed, "subscriber")

\* The input reports require an encrypted link.  The test of the MTU is none: that
\* of a connection that is gone is 0 - 3.
CheckSecurity ==
  outbox # <<>> /\ stage = "subscriber" /\ PassOn(link # "down" /\ encrypted, "allowed")

\* What the computer makes of a report: a key that goes down is typed.
Receive(report, key) ==
  IF report = "keyboard"
  THEN /\ hostKey' = key
       /\ hostText' = IF key \notin {None, hostKey} THEN Append(hostText, key) ELSE hostText
       /\ UNCHANGED hostMute
  ELSE hostMute' = key /\ UNCHANGED <<hostKey, hostText>>

\* A computer takes the reports it has subscribed to, over a link it has encrypted.
Listens(report) == link = "up" /\ encrypted /\ report \in subscribed

\* The report leaves the loop, which then waits for _delay_ms.
Sent == outbox' = Tail(outbox) /\ stage' = "next" /\ UNCHANGED text

\* Mutant of SendNotification: the loop waits until the computer takes the report.
MutSendNotification ==
  /\ outbox # <<>> /\ stage = "allowed" /\ Listens(Head(outbox).report)
  /\ Receive(Head(outbox).report, Head(outbox).key)
  /\ starved' = starved \ {Head(outbox).report}
  /\ Sent
  /\ UNCHANGED <<linkVars, flags, steady, unbroken, budget>>
\* The notification is sent over the connection there is, or fails without notice.
SendNotification ==
  /\ outbox # <<>> /\ stage = "allowed"
  /\ IF Listens(Head(outbox).report)
     THEN /\ Receive(Head(outbox).report, Head(outbox).key)
          /\ starved' = starved \ {Head(outbox).report}
     ELSE UNCHANGED <<hostVars, starved>>
  /\ Sent
  /\ UNCHANGED <<linkVars, flags, steady, unbroken, budget>>

\* There is no mbuf for the notification: it is lost without notice.
NoBuffer ==
  /\ outbox # <<>> /\ stage = "allowed"
  /\ drops < MaxDrops /\ drops' = drops + 1
  /\ Sent
  /\ starved' = starved \cup {Head(outbox).report}
  /\ steady' = (steady /\ Head(outbox).report # "keyboard") /\ unbroken' = FALSE
  /\ UNCHANGED <<linkVars, flags, hostVars, links, pushes>>

LoopStep ==
  \/ WriteNext
  \/ SkipReport \/ SetReportValue \/ FindSubscriber \/ CheckSecurity \/ SendNotification \/ NoBuffer

Next ==
  \/ Connect \/ ConnectFails \/ Encrypt \/ LoseLink \/ Disconnected
  \/ \E reason \in {"reset", "error"} : ResetStack(reason)
  \/ Resync
  \/ \E report \in InputReports : Subscribe(report) \/ Unsubscribe(report)
  \/ PushA \/ PushB \/ LoopStep

Spec == Init /\ [][Next]_vars

\* The loop sends what it began; the stack finishes with a broken link, and a reset, as
\* the controller answers in the end.
FairSpec ==
  /\ Spec
  /\ WF_vars(LoopStep)
  /\ WF_vars(Disconnected) /\ WF_vars(Resync)
  /\ \A report \in InputReports : WF_vars(link = "lost" /\ Unsubscribe(report))

(***************************************************************************)
(* Properties                                                              *)
(***************************************************************************)
TypeOK ==
  /\ link \in {"down", "up", "lost"} /\ encrypted \in BOOLEAN
  /\ stack \in {"good", "reset", "error"} /\ synced \in BOOLEAN
  /\ advertising \in BOOLEAN /\ refused \in BOOLEAN
  /\ subscribed \subseteq InputReports
  /\ isConnected \in BOOLEAN /\ keyboardSubscribed \in BOOLEAN /\ mediaSubscribed \in BOOLEAN
  /\ text \in Seq(Characters)
  /\ outbox \in Seq([report : InputReports, key : Characters \cup {"mute", None}])
  /\ \A i \in 1 .. Len(outbox) : outbox[i].key \in Keys[outbox[i].report]
  /\ stage \in {"next", "value", "subscriber", "allowed"} /\ starved \subseteq InputReports
  /\ hostKey \in Keys.keyboard /\ hostMute \in Keys.media
  /\ hostText \in Seq(Characters)
  /\ steady \in BOOLEAN /\ unbroken \in BOOLEAN

\* When the loop has sent its reports the computer has no key down: every
\* press it saw was followed by its release, or by the end of the link, in
\* whatever order connection, subscription and typing happened, and although
\* each report may be tested over one link and sent over the next.  Only a release
\* that found no mbuf leaves its key down, and only until the next report.
NoStuckKey ==
  LoopIdle => /\ hostKey = None \/ "keyboard" \in starved
              /\ hostMute = None \/ "media" \in starved

\* The first n characters of the password that write() has a key for are what
\* the computer has: each in its place, and no others.
Shown == {i \in 1 .. Len(Password) : Password[i] \notin Silent}
Place(n) == Cardinality({i \in Shown : i <= n})
Typed(n) ==
  /\ Len(hostText) = Place(n)
  /\ \A i \in Shown : i <= n => hostText[Place(i)] = Password[i]

\* A password typed over a link that was ready and stayed so arrives whole,
\* except for the characters that write() has no key for.  Two equal
\* characters in a row stay two.
TypedWhole == LoopIdle /\ steady => Typed(Len(Password))

\* Only a device without a computer is advertised, and only by a stack in step with its
\* controller.  Such a device is advertised, whatever breaks and resets came before, in
\* whatever state each found the other, and whether or not the callbacks knew of them:
\* unless the controller refused it, which nobody tries again before the next reset.
AdvertisedOrConnected ==
  /\ advertising => link = "down" /\ stack = "good"
  /\ link = "down" /\ stack = "good" => advertising \/ refused

\* The device becomes reachable again after a lost link, also one lost to a reset of the
\* stack, if the controller does not refuse; and a text under way is finished even then:
\* the loop never waits for the computer.
ReachableAgain == link = "lost" ~> advertising \/ refused
TypingEnds == ~LoopIdle ~> LoopIdle

(***************************************************************************)
(* What the documents say and the code does not do.                        *)
(***************************************************************************)

\* lib/BleKeyboard/Readme.md: "if (bleKeyboard.isConnected()) { // Safe to
\* send key events }".  A password typed from a moment where isConnected()
\* holds, over a link that stays up, arrives whole.
ConnectedIsSafe == LoopIdle /\ unbroken => Typed(Len(Password))
=============================================================================
