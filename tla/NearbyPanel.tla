----------------------------- MODULE NearbyPanel -----------------------------
(***************************************************************************)
(* The Nearby surface of the palette (ui/shell.rs): a pairing that runs in *)
(* a thread of its own and speaks to the palette through a channel the     *)
(* palette drains every 100 ms, and the paired devices the palette         *)
(* remembers while the command line changes them in the database.          *)
(*                                                                         *)
(* The thread waits for the user inside spawn_blocking.  The timeout of a  *)
(* pairing drops the future that waits, but the thread's runtime cannot    *)
(* end before that blocking task does.  What the peer does is any outcome; *)
(* Pairing models the two devices of one.  A pairing is named by a number. *)
(***************************************************************************)
EXTENDS Naturals, Sequences

CONSTANTS
    PeerIds,
    Undecided,        \* no decision, no code, no device
    MaxPairings,      \* bound on pairings
    MaxOutside        \* bound on changes from outside

ASSUME PanelAssumption ==
    /\ {MaxPairings, MaxOutside} \subseteq Nat
    /\ Undecided \notin 1..MaxPairings /\ Undecided \notin {"approved", "rejected", "dropped"}

VARIABLES
    panel,      \* the palette's side of a pairing and the devices it shows
    thread,     \* thread[n]: the thread of pairing n
    events,     \* events[n]: its channel to the palette
    decision,   \* decision[n]: the channel back
    trust,      \* the table trusted_devices: the peers, and whether enabled
    outside     \* what has been used of the bound

panelVars == <<panel, thread, events, decision, trust, outside>>

Runs == 1..MaxPairings
Unpaired == "unpaired"
ThreadPhases == {"none", "connecting", "asking", "timed-out", "waiting", "failed", "paired"}

\* The palette reads the devices when it is built, then after a pairing and after
\* its own changes.
PanelInit ==
    /\ trust \in [PeerIds -> {Unpaired, "enabled", "paused"}]
    /\ panel = [active |-> FALSE, last |-> 0, code |-> Undecided,
                confirmation |-> Undecided, devices |-> trust]
    /\ thread = [n \in Runs |-> "none"]
    /\ events = [n \in Runs |-> << >>]
    /\ decision = [n \in Runs |-> Undecided]
    /\ outside = 0

ThreadGoes(n, from, to) == thread[n] = from /\ thread' = [thread EXCEPT ![n] = to]
Send(n, event) == events' = [events EXCEPT ![n] = Append(@, event)]

(***************************************************************************)
(* The thread (run_ui_pairing, pairing_confirmation).                      *)
(***************************************************************************)
\* The handshake has a code; the user is asked.
AskUser(n) ==
    /\ ThreadGoes(n, "connecting", "asking")
    /\ Send(n, "code")
    /\ UNCHANGED <<panel, decision, trust, outside>>

\* Faulty: nothing limits the time a peer takes.
NeverTimesOut(phase) == FALSE
TimesOut(phase) == phase \in {"connecting", "waiting"}

\* Binding, connecting or the peer fails, or five minutes are over.
PairingFailed(n) ==
    /\ TimesOut(thread[n])
    /\ thread' = [thread EXCEPT ![n] = "failed"]
    /\ UNCHANGED <<panel, events, decision, trust, outside>>

\* Five minutes are over, and the blocking task is still there.
TimeoutWhileAsking(n) ==
    /\ ThreadGoes(n, "asking", "timed-out")
    /\ UNCHANGED <<panel, events, decision, trust, outside>>

\* The user has decided, or the palette has dropped the channel.
ReceiveDecision(n) ==
    /\ decision[n] # Undecided
    /\ \/ ThreadGoes(n, "asking", IF decision[n] = "approved" THEN "waiting" ELSE "failed")
       \/ ThreadGoes(n, "timed-out", "failed")
    /\ UNCHANGED <<panel, events, decision, trust, outside>>

\* The peer has approved too; the device is stored as enabled.
PeerConfirms(n, p) ==
    /\ ThreadGoes(n, "waiting", "paired")
    /\ trust' = [trust EXCEPT ![p] = "enabled"]
    /\ UNCHANGED <<panel, events, decision, outside>>

FinishThread(n) ==
    /\ thread[n] \in {"failed", "paired"}
    /\ thread' = [thread EXCEPT ![n] = "none"]
    /\ Send(n, "finished")
    /\ UNCHANGED <<panel, decision, trust, outside>>

(***************************************************************************)
(* The palette.                                                            *)
(***************************************************************************)
StartPairingHere ==
    /\ ~panel.active
    /\ panel.last < MaxPairings
    /\ LET n == panel.last + 1
       IN  /\ panel' = [panel EXCEPT !.active = TRUE, !.last = n, !.code = Undecided]
           /\ thread' = [thread EXCEPT ![n] = "connecting"]
    /\ UNCHANGED <<events, decision, trust, outside>>

\* One event of the channel; those of one pairing are drained in order.
Received(n, event) ==
    IF event = "code" THEN [panel EXCEPT !.code = n, !.confirmation = n]
    ELSE [panel EXCEPT !.active = FALSE, !.code = Undecided, !.confirmation = Undecided,
                       !.devices = trust]

\* A confirmation that is dropped without an answer is a rejection.
DrainEvents(n) ==
    /\ events[n] # << >>
    /\ panel' = Received(n, Head(events[n]))
    /\ events' = [events EXCEPT ![n] = Tail(@)]
    /\ decision' = [m \in Runs |->
           IF panel.confirmation = m /\ panel'.confirmation # m THEN "dropped" ELSE decision[m]]
    /\ UNCHANGED <<thread, trust, outside>>

Decide(approved) ==
    /\ panel.confirmation # Undecided
    /\ panel' = [panel EXCEPT !.confirmation = Undecided]
    /\ decision' = [decision EXCEPT ![panel.confirmation] =
                       IF approved THEN "approved" ELSE "rejected"]
    /\ UNCHANGED <<thread, events, trust, outside>>

\* The new state of a device is the opposite of what the palette remembers.  The
\* list is read again only if the device was found.
ToggleDevice(p) ==
    /\ panel.devices[p] # Unpaired
    /\ IF trust[p] = Unpaired THEN UNCHANGED <<trust, panel>>
       ELSE /\ trust' = [trust EXCEPT ![p] =
                            IF panel.devices[p] = "enabled" THEN "paused" ELSE "enabled"]
            /\ panel' = [panel EXCEPT !.devices = trust']
    /\ UNCHANGED <<thread, events, decision, outside>>

ForgetDevice(p) ==
    /\ panel.devices[p] # Unpaired
    /\ trust' = [trust EXCEPT ![p] = Unpaired]
    /\ panel' = [panel EXCEPT !.devices = trust']
    /\ UNCHANGED <<thread, events, decision, outside>>

\* `superspace nearby` revokes, enables, forgets or pairs a device.
OutsideChange(p) ==
    /\ outside < MaxOutside
    /\ outside' = outside + 1
    /\ \E state \in {Unpaired, "enabled", "paused"} \ {trust[p]} :
          trust' = [trust EXCEPT ![p] = state]
    /\ UNCHANGED <<panel, thread, events, decision>>

PanelNext ==
    \/ \E n \in Runs :
          \/ AskUser(n) \/ PairingFailed(n) \/ TimeoutWhileAsking(n)
          \/ ReceiveDecision(n) \/ FinishThread(n) \/ DrainEvents(n)
          \/ \E p \in PeerIds : PeerConfirms(n, p)
    \/ StartPairingHere
    \/ \E approved \in BOOLEAN : Decide(approved)
    \/ \E p \in PeerIds : ToggleDevice(p) \/ ForgetDevice(p) \/ OutsideChange(p)

\* Threads and timers run; the user answers a code that is shown.
PanelFairness ==
    /\ \A n \in Runs :
          /\ WF_panelVars(PairingFailed(n)) /\ WF_panelVars(ReceiveDecision(n))
          /\ WF_panelVars(FinishThread(n)) /\ WF_panelVars(DrainEvents(n))
    /\ WF_panelVars(\E approved \in BOOLEAN : Decide(approved))

PanelSpec == PanelInit /\ [][PanelNext]_panelVars /\ PanelFairness

(***************************************************************************)
(* Properties.                                                             *)
(***************************************************************************)
PanelTypeOK ==
    /\ panel.active \in BOOLEAN /\ panel.last \in 0..MaxPairings
    /\ {panel.code, panel.confirmation} \subseteq Runs \cup {Undecided}
    /\ {panel.devices, trust} \subseteq [PeerIds -> {Unpaired, "enabled", "paused"}]
    /\ thread \in [Runs -> ThreadPhases]
    /\ events \in [Runs -> Seq({"code", "finished"})]
    /\ decision \in [Runs -> {Undecided, "approved", "rejected", "dropped"}]

\* A pairing comes to an end and another can be started, although its timeout
\* cannot end it while the user is asked: the decision that is still awaited, of a
\* user who answers at last, lets the thread of a lapsed pairing report
\* (start_pairing, run_ui_pairing).  Without that answer it would not end.
PairingEnds == panel.active ~> ~panel.active
=============================================================================
