---------------------------- MODULE Connections ----------------------------
(***************************************************************************)
(* The connections that ansfw.sys remembers on Windows Vista, to find the  *)
(* process a packet belongs to (ansfw/vista/connections.c), and the events *)
(* of the Windows Filtering Platform that change them (the ALE callouts of *)
(* ansfw/vista/wfp.c).                                                     *)
(*                                                                         *)
(* All sockets use one protocol and one local port, so that connections    *)
(* differ in what the table has to tell apart: the local address, which is *)
(* 0 (AnyAddr) for a socket that is bound to none, and the remote end,     *)
(* NULL for one that is only bound.  The port has one process at a time.   *)
(***************************************************************************)
EXTENDS FiniteSets, Lists

CONSTANTS
    Processes,  \* that can have the port
    Remotes,    \* remote ends
    Flows,      \* WFP's flows
    Conns,      \* the memory of CONNECTIONs
    NULL

AnyAddr == "any"
Here == "here"

ASSUME ConnectionsAssumption ==
    NULL \notin Processes \cup Remotes \cup Flows \cup Conns \cup {AnyAddr, Here}

VARIABLES
    conns,      \* g_ConnectionsList
    entry,      \* the fields of a CONNECTION
    socket,     \* the process that has the port, and its local address
    flow,       \* where WFP's flows are; conn is the context
    starved,    \* history: there was no memory for a CONNECTION
    captured    \* history: a flow was given another one's connection

table == <<conns, entry, socket, flow, starved, captured>>

NoEntry == [addr |-> NULL, remote |-> NULL, pid |-> NULL]

NoFlow == [state |-> "idle", by |-> NULL, remote |-> NULL, conn |-> NULL]

TableTypeOK ==
    /\ ToSet(conns) \subseteq Conns /\ IsInjective(conns)
    /\ entry \in [Conns -> [addr : {NULL, AnyAddr, Here},       \* m_LocalAddr
                            remote : Remotes \cup {NULL},   \* m_RemoteAddr
                            pid : Processes \cup {NULL}]]   \* m_Pid
    /\ socket \in [by : Processes \cup {NULL}, addr : {AnyAddr, Here}]
    /\ flow \in [Flows -> [state : {"idle", "connecting", "establishing", "open",
                                    "closing"},
                           by : Processes \cup {NULL},
                           remote : Remotes \cup {NULL},
                           conn : Conns \cup {NULL}]]
    /\ starved \in BOOLEAN /\ captured \in BOOLEAN

TableInit ==
    /\ conns = <<>>
    /\ entry = [c \in Conns |-> NoEntry]
    /\ socket = [by |-> NULL, addr |-> AnyAddr]
    /\ flow = [f \in Flows |-> NoFlow]
    /\ starved = FALSE /\ captured = FALSE

-----------------------------------------------------------------------------
(* The table *)

\* Connections with a local address among addrs, and the remote end.
With(addrs, remote) ==
    {c \in Conns : entry[c].addr \in addrs /\ entry[c].remote = remote}

\* Mutant: the connection need not be unconnected.
UpdateAny(addr) ==
    FirstIn(conns, {c \in Conns : entry[c].addr \in {AnyAddr, addr}}, NULL)

\* A socket that is bound and not connected is AddConnection's to update.
Unconnected(addr) == FirstIn(conns, With({AnyAddr, addr}, NULL), NULL)

\* The local address of a connection that is updated stays what it was.
AddConnection(pid, addr, remote) ==
    LET old  == Unconnected(addr)
        free == Conns \ ToSet(conns)
    IN
    \/ /\ old # NULL
       /\ entry' = [entry EXCEPT ![old].remote = remote, ![old].pid = pid]
       /\ UNCHANGED <<conns, starved>>
    \/ /\ old = NULL /\ free # {}
       /\ LET c == CHOOSE c \in free : TRUE
          IN  /\ conns' = <<c>> \o conns
              /\ entry' = [entry EXCEPT ![c] =
                             [addr |-> addr, remote |-> remote, pid |-> pid]]
       /\ UNCHANGED starved
    \/ /\ old = NULL /\ starved' = TRUE
       /\ UNCHANGED <<conns, entry>>

GetConnection(addr, remote) == FirstIn(conns, With({addr}, remote), NULL)

\* Does nothing for a connection that is not on the list.
RemoveConnection(c) ==
    /\ conns' = Unlink(conns, c)
    /\ entry' = IF c \in ToSet(conns) THEN [entry EXCEPT ![c] = NoEntry] ELSE entry

\* Mutant: connections of sockets without an address are not looked for.
PassesExact(remote) == <<GetConnection(Here, remote), GetConnection(Here, NULL)>>

\* The four passes of GetPidFromLocalInfo over the list.
Passes(remote) ==
    LET Pass(addrs, r) == FirstIn(conns, With(addrs, r), NULL)
    IN  <<Pass({Here}, remote), Pass({AnyAddr, Here}, remote),
          Pass({Here}, NULL), Pass({AnyAddr, Here}, NULL)>>

\* The process of a packet between the port and remote: that of the connection
\* the first pass to succeed has found.
GetPidFromLocalInfo(remote) ==
    LET c == FirstIn(Passes(remote), Conns, NULL)
    IN  IF c = NULL THEN NULL ELSE entry[c].pid

-----------------------------------------------------------------------------
(* Events *)

\* A socket is bound, with or without a local address.
AleResourceAssignmentV4Classify(p, addr) ==
    /\ socket.by = NULL
    /\ socket' = [by |-> p, addr |-> addr]
    /\ AddConnection(p, addr, NULL)
    /\ UNCHANGED <<flow, captured>>

Active(f) == flow[f].state \in {"connecting", "establishing", "open"}

\* The socket connects to, or sends its first datagram to, remote.
AleAuthConnectV4Classify(f, remote) ==
    /\ socket.by # NULL
    /\ flow[f] = NoFlow
    /\ \A g \in Flows : Active(g) => flow[g].remote # remote
    /\ AddConnection(socket.by, Here, remote)
    /\ flow' = [flow EXCEPT ![f] = [state |-> "connecting", by |-> socket.by,
                                    remote |-> remote, conn |-> NULL]]
    /\ UNCHANGED <<socket, captured>>

\* The connection of a socket without a local address, which GetConnection never
\* finds: its flow gets no context, or that of a flow that had the same ends.
Unfindable(remote) ==
    \E c \in ToSet(conns) : entry[c].addr = AnyAddr /\ entry[c].remote = remote

\* The first half of AleFlowEstablishedV4Classify: the connection is looked up,
\* and the lock released, ...
FlowEstablished(f) ==
    LET c == GetConnection(Here, flow[f].remote) IN
    /\ flow[f].state = "connecting"
    /\ flow' = [flow EXCEPT ![f].conn = c,
                            ![f].state = IF c = NULL THEN "open" ELSE "establishing"]
    /\ captured' = (c # NULL /\ Unfindable(flow[f].remote))
    /\ UNCHANGED <<conns, entry, socket, starved>>

\* ... and then made the flow's context.
FlowAssociate(f) ==
    /\ flow[f].state = "establishing"
    /\ flow' = [flow EXCEPT ![f].state = "open"]
    /\ UNCHANGED <<conns, entry, socket, starved, captured>>

\* A flow without a context ends unnoticed, a connection that is not
\* established as well.
Ended(f) == IF flow[f].conn = NULL THEN NoFlow
                                   ELSE [flow[f] EXCEPT !.state = "closing"]

FlowEnds(f) ==
    /\ flow[f].state \in {"connecting", "open"}
    /\ flow' = [flow EXCEPT ![f] = Ended(f)]
    /\ UNCHANGED <<conns, entry, socket, starved, captured>>

\* WFP tells of the end of a flow that has a context.
AleFlowEstablishedV4Delete(f) ==
    /\ flow[f].state = "closing"
    /\ RemoveConnection(flow[f].conn)
    /\ flow' = [flow EXCEPT ![f] = NoFlow]
    /\ UNCHANGED <<socket, starved, captured>>

\* The socket is closed, and its flows with it.
SocketClose ==
    /\ socket.by # NULL
    /\ \A f \in Flows : flow[f].state # "establishing"
    /\ socket' = [socket EXCEPT !.by = NULL]
    /\ flow' = [f \in Flows |-> IF Active(f) THEN Ended(f) ELSE flow[f]]
    /\ UNCHANGED <<conns, entry, starved, captured>>

-----------------------------------------------------------------------------
(* Properties *)

\* The context of a flow is a connection with its ends, is on the list, and is no
\* other flow's: the end of a flow removes its own connection (wfp.c:623-638,
\* 657; connections.c:182-194).
ContextLive == ~starved /\ ~captured =>
    \A f \in Flows : flow[f].conn # NULL =>
        /\ flow[f].conn \in ToSet(conns)
        /\ entry[flow[f].conn].remote = flow[f].remote
        /\ \A g \in Flows \ {f} : flow[g].conn # flow[f].conn

\* A connection that outlived its flow, or whose flow is about to end.
Stale(c) ==
    /\ entry[c].remote # NULL
    /\ ~\E f \in Flows : /\ Active(f) /\ flow[f].by = entry[c].pid
                         /\ flow[f].remote = entry[c].remote

\* The packets of a connection are found to be those of the process that made
\* it, unless a connection with the same ends is still on the list
\* (connections.c:78-113, 208-293).
ProcessFound == ~starved =>
    \A f \in Flows : Active(f) =>
        \/ GetPidFromLocalInfo(flow[f].remote) = flow[f].by
        \/ \E c \in ToSet(conns) : Stale(c) /\ entry[c].remote = flow[f].remote
=============================================================================
