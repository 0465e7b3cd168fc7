---------------------- MODULE LifecyclePublisherGrants ----------------------
(***************************************************************************)
(* The publisher with shells that ask for a child: the grant builder       *)
(* (internal/app/childdomain.go) mints it inside the parent's frame, and   *)
(* RequestDomain sets the lane's baseline there.                           *)
(***************************************************************************)
EXTENDS LifecyclePublisher

\* The frame asks for a child; its grant comes before the frame's own reports.
IngestRequest(c) ==
    /\ call[c].op = "frame" /\ call[c].at = "mutate"
    /\ EchoFrame(call[c].dom)
    /\ Goto(c, "grant")
    /\ UNCHANGED <<turn, last, known, emitted>>

\* The grant builder mints the child, or refuses; the lane is published.
Grant(c) ==
    /\ call[c].at = "grant"
    /\ \/ /\ \E d \in Domain, t \in Transport : RequestDomain(d, call[c].lane, call[c].dom, t)
          /\ Goto(c, "seed")
       \/ /\ Goto(c, "derive")
          /\ UNCHANGED kernelVars
    /\ UNCHANGED <<turn, last, known, emitted>>

GrantNext == PubNext \/ \E c \in Caller : IngestRequest(c) \/ Grant(c)

GrantSpec == PubInit /\ [][GrantNext]_pubVars

\* "Under the lane's turn, the last fact emitted is always the lane's state at
\* the last derive, which follows the last mutation" (publisher.go:1324): a lane
\* with no call under way was told what the kernel says of it.
LastFactFollowsLastMutation == QuietLaneIsTold

\* "that closure is reported like any other" (publisher.go:1138): what
\* TransportLost closed is reported once no call is under way.
LossReportsClosures ==
    (\A c \in Caller : call[c] = Idle) =>
        \A a \in Attempt :
            attempt[a].state = "Unknown" /\ state[attempt[a].domain] = "Lost"
                => a \in closedSaid
=============================================================================
