------------------------------ MODULE M17Netd ------------------------------
(***************************************************************************)
(* src/m17netd.cpp: the daemon as a whole.  Its threads form a ring of     *)
(* bounded queues: tun_thread adds to from_net, m17tx_thread to to_radio,  *)
(* the radio thread to to_net, and each reads the queue of the one before. *)
(* TunThread's environment is played here by the other two threads;        *)
(* main() joins them in the order tun, radio, m17tx.                       *)
(***************************************************************************)
EXTENDS TunThread

CONSTANTS Mtu,          \* MTU of the interface
          Blocks        \* blocks of samples in a packet's baseband

ASSUME BlocksAssumption == Blocks \in Nat \ {0}

VARIABLES to_radio,     \* queue m17tx_thread -> radio
          m17_pc, raw, forgotten,           \* m17tx_thread
          radio_pc, left, fetched,          \* the radio thread
          main_pc                           \* the join main() waits in

M17tx == INSTANCE M17txThread
Radio == INSTANCE RadioSide

m17txVars == <<m17_pc, raw, forgotten>>
radioVars == <<radio_pc, left, fetched>>
netdVars  == <<vars, to_radio, m17txVars, radioVars, main_pc>>

NetdInit == /\ Init
            /\ to_radio = <<>>
            /\ M17tx!M17txInit
            /\ Radio!RadioInit
            /\ main_pc = "join tun"

\* No null pointer and no exception has ended the process, nor main().
Running == /\ Alive
           /\ m17_pc # "threw"
           /\ radio_pc # "crashed"
           /\ main_pc # "returned"

TunRest == UNCHANGED <<to_radio, m17txVars, radioVars, main_pc>>

NetdTun == Running /\ TunStep /\ TunRest
NetdMon == Running /\ MonStep /\ TunRest
Outside == Running /\ (Sigint \/ KernelQueues \/ GetPacketFails) /\ TunRest

NetdM17tx ==
    /\ Running
    /\ M17tx!M17txStep
    /\ UNCHANGED <<tun_pc, mon_pc, fdset, eventfd, pushVars, rxVars, tun_in,
                   from_net_packet, lost, arrived, radioVars, main_pc>>

\* The radio thread, and its from_radio.add() in the steps of TunThread.
NetdRadio ==
    /\ Running
    /\ \/ Radio!RadioStep /\ UNCHANGED vars
       \/ Radio!HearsPacket /\ CallAdd
       \/ BeginPush /\ push_pc' = "push" /\ UNCHANGED <<radioVars, to_radio>>
       \/ BeginPush /\ push_pc' = "idle" /\ Radio!AddReturns
       \/ EndPush /\ Radio!AddReturns
    /\ UNCHANGED <<m17txVars, main_pc>>

Joins(from, ended, to) == /\ main_pc = from /\ ended
                          /\ main_pc' = to
                          /\ UNCHANGED <<vars, to_radio, m17txVars, radioVars>>

Main == /\ Running
        /\ \/ Joins("join tun", tun_pc = "done", "join radio")
           \/ Joins("join radio", radio_pc = "end", "join m17tx")
           \/ Joins("join m17tx", m17_pc = "done", "returned")

NetdNext == NetdTun \/ NetdMon \/ NetdM17tx \/ NetdRadio \/ Main \/ Outside

\* The scheduler runs every thread, the deadlines of the queues pass and the
\* sound device delivers and takes blocks.
NetdSpec == /\ NetdInit /\ [][NetdNext]_netdVars
            /\ WF_netdVars(NetdTun) /\ WF_netdVars(NetdMon)
            /\ WF_netdVars(NetdM17tx) /\ WF_netdVars(NetdRadio)
            /\ WF_netdVars(Main)

(***************************************************************************)
(* Properties.                                                             *)
(***************************************************************************)
NetdTypeOK ==
    /\ TypeOK
    /\ to_radio \in Seq(1 .. MaxTun) /\ fetched \in Seq(1 .. MaxTun)
    /\ m17_pc \in {"loop", "consume", "add", "done", "threw"}
    /\ raw \in (1 .. MaxTun) \cup {NoPacket}
    /\ forgotten \subseteq 1 .. MaxTun
    /\ radio_pc \in {"rx", "receive", "add", "consume", "sending",
                     "end", "crashed"}
    /\ left \in 0 .. Blocks
    /\ main_pc \in {"join tun", "join radio", "join m17tx", "returned"}
    /\ (push_pc = "idle") = (radio_pc # "add")

Held(holds, packet) == IF holds THEN <<packet>> ELSE <<>>

\* Every packet the kernel routed to the interface is at one place: fetched by
\* the radio, in one of the queues, in a thread's hands, or lost for a reason
\* the code has (not IPv4, no route, a queue full for a second); those not lost
\* are in the kernel's order.  The radio cuts a packet short only after the
\* signal.
PacketsAccounted ==
    LET path == fetched \o to_radio \o Held(m17_pc \in {"add", "threw"}, raw)
                  \o from_net \o Held(tun_pc = "add", from_net_packet) \o tun_in
    IN  /\ \A i, j \in DOMAIN path : i < j => path[i] < path[j]
        /\ Range(path) \cup lost \cup forgotten = 1 .. arrived
        /\ Range(path) \cap (lost \cup forgotten) = {} /\ lost \cap forgotten = {}
        /\ left > 0 => radio_pc \in {"sending", "crashed"} \/ ~running

\* The packets of the interface are always forwarded as far as to_radio, or
\* given up, whatever the radio does: the busy channel, the radio's full queue
\* and a lost wakeup of the receive direction stop nothing for ever.
TransmitSideServed ==
    tun_in # <<>> ~> \/ /\ tun_in = <<>> /\ tun_pc # "add"
                        /\ from_net = <<>> /\ m17_pc # "add"
                     \/ ~running \/ ~Running

\* After SIGINT main() returns, or the monitor spins for ever (see
\* ThreadsTerminate): the full and the empty queues of threads that ended
\* first hold no other thread.
DaemonEnds ==
    ~running ~> \/ ~Running
                \/ tun_pc = "join" /\ mon_pc = "spin" /\ to_net # <<>>

\* The other threads do nothing but what TunThread lets its environment do.
ImplementsTunThread == Spec
=============================================================================
