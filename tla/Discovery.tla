------------------------------ MODULE Discovery ------------------------------
(***************************************************************************)
(* The nearby devices a palette lists: NearbyDiscovery of network/src/     *)
(* discovery.rs (mDNS, and a UDP beacon for networks that filter it) and   *)
(* the loop of ui/src/shell.rs that polls it.                              *)
(*                                                                         *)
(* mDNS is external: it may report anything about a device at any time,    *)
(* and say nothing at all.  An announcement is the address in it; a device *)
(* in Foreign announces another protocol version, which neither parser     *)
(* accepts.  Reports and beacons of one device replace each other when     *)
(* they are applied, so that the last one of each queue stands for it.     *)
(***************************************************************************)
EXTENDS Naturals

CONSTANTS
    Around,          \* devices on the network, this one included
    Here,            \* the device of this palette
    Foreign,         \* devices of another protocol version
    Addresses,
    Gone,            \* no address: not running, removed, not listed
    Silent,          \* nothing queued
    MaxMoves,        \* bound on changes of the network and restarts of the palette
    MaxReports       \* bound on reports of mDNS

ASSUME DiscoveryAssumption ==
    /\ Here \in Around /\ Foreign \subseteq Around \ {Here}
    /\ Gone \notin Addresses /\ Silent \notin Addresses /\ Gone # Silent
    /\ MaxMoves \in Nat /\ MaxReports \in Nat

VARIABLES
    address,      \* address[d]: where d runs Superspace
    reports,      \* reports[d]: the last report of mDNS about d that waits
    beacons,      \* beacons[d]: the last beacon of d that waits in the socket
    discovered,   \* discovered[d]: discovered_devices of the palette
    moves, reported

discoveryVars == <<address, reports, beacons, discovered, moves, reported>>

DiscoveryInit ==
    /\ address = [d \in Around |-> Gone]
    /\ reports = [d \in Around |-> Silent]
    /\ beacons = [d \in Around |-> Silent]
    /\ discovered = [d \in Around |-> Gone]
    /\ moves = 0 /\ reported = 0

(***************************************************************************)
(* The network.                                                            *)
(***************************************************************************)
\* A device starts, gets another address, or leaves.
Moves(d, a) ==
    /\ address[d] # a
    /\ moves < MaxMoves
    /\ address' = [address EXCEPT ![d] = a]
    /\ moves' = moves + 1
    /\ UNCHANGED <<reports, beacons, discovered, reported>>

\* Resolved to an address, or removed: late, wrong, or about this very device.
MdnsReports(d, a) ==
    /\ reported < MaxReports
    /\ reports' = [reports EXCEPT ![d] = a]
    /\ reported' = reported + 1
    /\ UNCHANGED <<address, beacons, discovered, moves>>

\* Each running device polls, and so sends a beacon, again and again.  One that
\* is lost changes nothing; the sender hears its own.
BeaconArrives(d) ==
    /\ address[d] # Gone
    /\ beacons' = [beacons EXCEPT ![d] = address[d]]
    /\ UNCHANGED <<address, reports, discovered, moves, reported>>

(***************************************************************************)
(* The palette.                                                            *)
(***************************************************************************)
\* A parser returns a device, and the palette does not insert itself.
Heard(d) == d # Here /\ d \notin Foreign

\* HashMap::insert.  Faulty: the entry that is there stays.
InsertedOnce(entry, a) == IF entry = Gone THEN a ELSE entry
Listed(entry, a) == a

\* Resolved inserts and Removed removes.
AfterReport(d, entry) ==
    CASE reports[d] = Silent -> entry
      [] reports[d] = Gone -> Gone
      [] OTHER -> IF Heard(d) THEN Listed(entry, reports[d]) ELSE entry

AfterBeacon(d, entry) ==
    IF beacons[d] # Silent /\ Heard(d) THEN Listed(entry, beacons[d]) ELSE entry

\* NearbyDiscovery::poll empties the queue of mDNS, and then the socket.
PollDiscovery ==
    /\ discovered' = [d \in Around |-> AfterBeacon(d, AfterReport(d, discovered[d]))]
    /\ reports' = [d \in Around |-> Silent]
    /\ beacons' = [d \in Around |-> Silent]
    /\ UNCHANGED <<address, moves, reported>>

\* The palette is closed and opened.
RestartDiscovery ==
    /\ moves < MaxMoves
    /\ moves' = moves + 1
    /\ discovered' = [d \in Around |-> Gone]
    /\ reports' = [d \in Around |-> Silent]
    /\ beacons' = [d \in Around |-> Silent]
    /\ UNCHANGED <<address, reported>>

DiscoveryNext ==
    \/ \E d \in Around :
          \/ \E a \in Addresses \cup {Gone} : Moves(d, a) \/ MdnsReports(d, a)
          \/ BeaconArrives(d)
    \/ PollDiscovery \/ RestartDiscovery

DiscoveryFairness ==
    /\ \A d \in Around : WF_discoveryVars(BeaconArrives(d))
    /\ WF_discoveryVars(PollDiscovery)

DiscoverySpec == DiscoveryInit /\ [][DiscoveryNext]_discoveryVars /\ DiscoveryFairness

(***************************************************************************)
(* Properties.                                                             *)
(***************************************************************************)
DiscoveryTypeOK ==
    /\ address \in [Around -> Addresses \cup {Gone}]
    /\ reports \in [Around -> Addresses \cup {Gone, Silent}]
    /\ beacons \in [Around -> Addresses \cup {Silent}]
    /\ discovered \in [Around -> Addresses \cup {Gone}]
    /\ moves \in 0..MaxMoves /\ reported \in 0..MaxReports

\* A device that stays where it is ends up listed at that address for good,
\* although mDNS may have been silent, or have reported an old address or its
\* removal after its beacons, and the palette may have been started again
\* (NearbyDiscovery::poll and the loop over its events).
PresentIsListed ==
    \A d \in Around \ (Foreign \cup {Here}) : \A a \in Addresses :
        <>[](address[d] = a) => <>[](discovered[d] = a)
=============================================================================
