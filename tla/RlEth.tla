------------------------------- MODULE RlEth -------------------------------
(***************************************************************************)
(* rleth: whether the card has a link, whether the internet answers (three *)
(* probes), whether eth0 uses DHCP, and the card's addresses.              *)
(*                                                                         *)
(* One call at a time; it shares the descriptor table with the rest of the *)
(* process. Every system call is a step, so the link, the peer and the     *)
(* host's other threads act between any two of them.                       *)
(*                                                                         *)
(* Abstracted: texts and addresses (a buffer holds the name of the query   *)
(* that filled it), lengths of time, log output. A wait that has a limit   *)
(* may end at any time. Signals do not interrupt a wait.                   *)
(***************************************************************************)
EXTENDS Descriptors, RlPublic, FiniteSetsExt, Sequences

CONSTANTS
  Retries,     (* values of retry_count                                    *)
  TrySecs,     (* values of try_sec                                        *)
  Interfaces,  (* contents of /etc/network/interfaces, see Stanza          *)
  RouteTables  (* contents of /proc/net/route, see Route                   *)

(* An iface line of the file; a line of the route table.                   *)
Stanza == [iface : {"eth0", "other"}, mode : {"dhcp", "static", "manual"}]
Route  == [iface : {"eth0", "other"}, default : BOOLEAN]

ASSUME RlEthAssumption ==
  /\ Retries \subseteq Int
  /\ TrySecs \subseteq Nat
  /\ Interfaces \subseteq Seq(Stanza)
  /\ RouteTables \subseteq Seq(Route)

VARIABLES
  ethpc,     (* the next step of the call                                  *)
  fn,        (* the function called last                                   *)
  arg,       (* its argument retry_count or try_sec, 0 if it has none      *)
  room,      (* what fits into the caller's buffer, see Rooms              *)
  sockfd,    (* the descriptor in hand, NoFd if there is none              *)
  tries,     (* retry_count as the loop leaves it                          *)
  limit,     (* the wait for the peer has a timeout in force               *)
  link,      (* the card is enabled and has a carrier                      *)
  conn,      (* the peer: "none", "pending", "open" (answered), "refused"  *)
  ebuf,      (* the caller's address buffer, used again for every query    *)
  verdict,   (* the answer, once it only remains to close the descriptor   *)
  ethret,    (* the value of the last call, Busy during one                *)
  seen       (* history of the call, see Seen                              *)

ethvars == <<ethpc, fn, arg, room, sockfd, tries, limit, link, conn, ebuf, verdict,
             ethret, seen>>

NoFd == -1
Busy == -2

Probes  == {"tcp", "sel", "udp"}
Queries == {"ip", "mask", "gateway"}

(* What the buffer may hold: an address, nothing, or what the host put in. *)
Texts == Queries \cup {"", "host"}

(* How much of an address fits: len is 0, too small, large enough.         *)
Rooms == {"none", "short", "enough"}

(* looks: attempts begun; up, down: the link was so at some moment of the  *)
(* call; fault: a system call failed; asked: the card was asked for an     *)
(* address; before: the buffer as the caller passed it.                    *)
Seen == [looks : Nat, up : BOOLEAN, down : BOOLEAN, fault : BOOLEAN,
         asked : BOOLEAN, before : Texts]

EthTypeOK ==
  /\ ethpc \in {"idle", "close", "card_try", "card_query", "card_close",
                "tcp_timeout", "sel_nonblock", "udp_timeout", "resolve",
                "tcp_connect", "tcp_wait", "sel_connect", "sel_wait",
                "sel_error", "udp_send", "udp_wait", "stanzas", "address",
                "routes"}
  /\ fn \in Probes \cup Queries \cup {"card", "dhcp", "none"}
  /\ arg \in Retries \cup TrySecs \cup {0}
  /\ room \in Rooms
  /\ sockfd \in Fds \cup {NoFd}
  /\ tries \in Int
  /\ limit \in BOOLEAN
  /\ link \in BOOLEAN
  /\ conn \in {"none", "pending", "open", "refused"}
  /\ ebuf \in Texts
  /\ verdict \in {RL_SUCCESS, RL_FAILED, RL_TRUE}
  /\ ethret \in {RL_SUCCESS, RL_FAILED, RL_TRUE, Busy}
  /\ seen \in Seen

EthInit ==
  /\ ethpc = "idle"
  /\ fn = "none"
  /\ arg = 0
  /\ room = "none"
  /\ sockfd = NoFd
  /\ tries = 0
  /\ limit = FALSE
  /\ link \in BOOLEAN
  /\ conn = "none"
  /\ ebuf = "host"
  /\ verdict = RL_FAILED
  /\ ethret = RL_SUCCESS
  /\ seen = [looks |-> 0, up |-> link, down |-> ~link, fault |-> FALSE,
             asked |-> FALSE, before |-> ebuf]

EthGoto(from, to) == ethpc = from /\ ethpc' = to

(* A call begins: what every function does before its first system call.   *)
Enter(f, a, r) ==
  /\ ethpc = "idle"
  /\ fn' = f
  /\ arg' = a
  /\ room' = r
  /\ limit' = FALSE
  /\ conn' = "none"
  /\ seen' = [looks |-> 0, up |-> link, down |-> ~link, fault |-> FALSE,
              asked |-> FALSE, before |-> ebuf]
  /\ UNCHANGED <<link, ebuf, verdict>>

(* socket or fopen gives the lowest free descriptor.                       *)
Obtain(to) ==
  /\ \E d \in Fds : Opened("rleth", d) /\ sockfd' = d
  /\ ethpc' = to
  /\ ethret' = Busy

(* The call returns v and has no descriptor in hand.                       *)
Refuse(v) ==
  /\ ethpc' = "idle"
  /\ ethret' = v
  /\ UNCHANGED <<fdtab, sockfd>>

(* The answer is known; the descriptor is closed in the next step.         *)
Decide(from, v) ==
  /\ EthGoto(from, "close")
  /\ verdict' = v
  /\ UNCHANGED <<fdtab, fn, arg, room, sockfd, tries, link, ethret>>

Proceed(from, to) ==
  /\ EthGoto(from, to)
  /\ UNCHANGED <<fdtab, fn, arg, room, sockfd, tries, link, verdict, ethret>>

eth_close ==
  /\ EthGoto("close", "idle")
  /\ Closed(sockfd)
  /\ sockfd' = NoFd
  /\ ethret' = verdict
  /\ verdict' = RL_FAILED
  /\ limit' = FALSE
  /\ UNCHANGED <<fn, arg, room, tries, link, conn, ebuf, seen>>

-----------------------------------------------------------------------------
(* The link of the card                                                    *)

rl_get_ethernet_card_state ==
  \E n \in Retries :
    /\ Enter("card", n, "none")
    /\ tries' = n
    /\ IF n < 0
       THEN Refuse(RL_FAILED)
       ELSE ethpc' = "card_try" /\ ethret' = Busy /\ UNCHANGED <<fdtab, sockfd>>

(* Mutant: > for >=. *)
MoreLooksOneOff == tries - 1 > 0

(* The loop condition, after the decrement.                                *)
MoreLooks == tries - 1 >= 0

(* Mutant: the counter is not decremented when socket fails. *)
card_try_uncounted ==
  /\ ethpc = "card_try"
  /\ IF tries > 0
     THEN \/ Obtain("card_query") /\ tries' = tries - 1
             /\ seen' = [seen EXCEPT !.looks = @ + 1]
          \/ UNCHANGED <<tries, ethpc, fdtab, sockfd, ethret>>
             /\ seen' = [seen EXCEPT !.fault = TRUE]
     ELSE Refuse(RL_FAILED) /\ UNCHANGED <<tries, seen>>
  /\ UNCHANGED <<fn, arg, room, limit, link, conn, ebuf, verdict>>

(* An attempt begins, or the call ends. Without a socket it only waits.    *)
card_try ==
  /\ ethpc = "card_try"
  /\ tries' = tries - 1
  /\ \/ /\ MoreLooks
        /\ \/ /\ Obtain("card_query")
              /\ seen' = [seen EXCEPT !.looks = @ + 1]
           \/ /\ seen' = [seen EXCEPT !.looks = @ + 1, !.fault = TRUE]
              /\ UNCHANGED <<ethpc, fdtab, sockfd, ethret>>
     \/ /\ ~MoreLooks
        /\ Refuse(RL_FAILED)
        /\ UNCHANGED seen
  /\ UNCHANGED <<fn, arg, room, limit, link, conn, ebuf, verdict>>

(* Mutant: the socket is closed where ioctl fails, and again below. *)
card_query_closed ==
  \/ /\ link
     /\ Decide("card_query", RL_SUCCESS)
     /\ UNCHANGED <<limit, conn, ebuf, seen>>
  \/ /\ ~link
     /\ Proceed("card_query", "card_close")
     /\ UNCHANGED <<limit, conn, ebuf, seen>>
  \/ /\ EthGoto("card_query", "card_close")
     /\ Closed(sockfd)
     /\ seen' = [seen EXCEPT !.fault = TRUE]
     /\ UNCHANGED <<fn, arg, room, sockfd, tries, limit, link, conn, ebuf, verdict, ethret>>

(* ioctl(SIOCGIFFLAGS): IFF_UP and IFF_RUNNING, not so, or an error.       *)
card_query ==
  \/ /\ link
     /\ Decide("card_query", RL_SUCCESS)
     /\ UNCHANGED <<limit, conn, ebuf, seen>>
  \/ /\ ~link
     /\ Proceed("card_query", "card_close")
     /\ UNCHANGED <<limit, conn, ebuf, seen>>
  \/ /\ Proceed("card_query", "card_close")
     /\ seen' = [seen EXCEPT !.fault = TRUE]
     /\ UNCHANGED <<limit, conn, ebuf>>

card_close ==
  /\ EthGoto("card_close", "card_try")
  /\ Closed(sockfd)
  /\ sockfd' = NoFd
  /\ UNCHANGED <<fn, arg, room, tries, limit, link, conn, ebuf, verdict, ethret, seen>>

-----------------------------------------------------------------------------
(* The probes                                                              *)

(* socket: a call that cannot have one fails at once.                      *)
Probe(f, to) ==
  /\ \E s \in TrySecs : Enter(f, s, "none")
  /\ UNCHANGED tries
  /\ Obtain(to) \/ Refuse(RL_FAILED)

rl_get_ethernet_connect_tcp     == Probe("tcp", "tcp_timeout")
rl_get_ethernet_connect_tcp_sel == Probe("sel", "sel_nonblock")
rl_get_ethernet_connect_udp     == Probe("udp", "udp_timeout")

Fails(from) ==
  /\ Decide(from, RL_FAILED)
  /\ UNCHANGED <<limit, conn, ebuf, seen>>

(* setsockopt(SO_SNDTIMEO) bounds connect; 0 seconds mean no limit.        *)
tcp_timeout ==
  \/ Fails("tcp_timeout")
  \/ /\ Proceed("tcp_timeout", "resolve")
     /\ limit' = (arg > 0)
     /\ UNCHANGED <<conn, ebuf, seen>>

sel_nonblock ==
  \/ Fails("sel_nonblock")
  \/ /\ Proceed("sel_nonblock", "resolve")
     /\ UNCHANGED <<limit, conn, ebuf, seen>>

resolve ==
  \/ Fails("resolve")
  \/ /\ Proceed("resolve", IF fn = "tcp" THEN "tcp_connect" ELSE "sel_connect")
     /\ UNCHANGED <<limit, conn, ebuf, seen>>

tcp_connect ==
  /\ Proceed("tcp_connect", "tcp_wait")
  /\ conn' = "pending"
  /\ UNCHANGED <<limit, ebuf, seen>>

(* connect returns 0, an error, or runs into the limit.                    *)
tcp_wait ==
  \/ /\ conn = "open"
     /\ Decide("tcp_wait", RL_SUCCESS)
     /\ UNCHANGED <<limit, conn, ebuf, seen>>
  \/ conn = "refused" /\ Fails("tcp_wait")
  \/ limit /\ Fails("tcp_wait")

(* connect does not wait: an error, 0, or EINPROGRESS.                     *)
sel_connect ==
  \/ Fails("sel_connect")
  \/ /\ Proceed("sel_connect", "sel_wait")
     /\ conn' \in {"open", "pending"}
     /\ UNCHANGED <<limit, ebuf, seen>>

(* Mutant: SO_ERROR is asked after a timeout too. *)
sel_wait_any ==
  /\ Proceed("sel_wait", "sel_error")
  /\ UNCHANGED <<limit, conn, ebuf, seen>>

(* select returns 1 when the connection is made or has failed, else 0.     *)
sel_wait ==
  \/ /\ conn # "pending"
     /\ Proceed("sel_wait", "sel_error")
     /\ UNCHANGED <<limit, conn, ebuf, seen>>
  \/ conn = "pending" /\ Fails("sel_wait")

(* SO_ERROR is 0 unless the connection has failed.                         *)
sel_error ==
  \/ Fails("sel_error")
  \/ /\ conn # "refused"
     /\ Decide("sel_error", RL_SUCCESS)
     /\ UNCHANGED <<limit, conn, ebuf, seen>>

(* The results of setsockopt are not looked at.                            *)
udp_timeout ==
  /\ Proceed("udp_timeout", "udp_send")
  /\ limit' \in {FALSE, arg > 0}
  /\ UNCHANGED <<conn, ebuf, seen>>

udp_send ==
  \/ Fails("udp_send")
  \/ /\ Proceed("udp_send", "udp_wait")
     /\ conn' = "pending"
     /\ UNCHANGED <<limit, ebuf, seen>>

(* Any datagram will do.                                                   *)
udp_wait ==
  \/ /\ conn = "open"
     /\ Decide("udp_wait", RL_SUCCESS)
     /\ UNCHANGED <<limit, conn, ebuf, seen>>
  \/ conn = "refused" /\ Fails("udp_wait")
  \/ limit /\ Fails("udp_wait")

-----------------------------------------------------------------------------
(* The configuration                                                       *)

(* fopen of /etc/network/interfaces.                                       *)
rl_get_dhcp ==
  /\ Enter("dhcp", 0, "none")
  /\ UNCHANGED tries
  /\ Obtain("stanzas") \/ Refuse(RL_FAILED)

(* The first line of eth0 that says dhcp or static decides.                *)
find_mode ==
  \E file \in Interfaces :
    LET hits == {i \in DOMAIN file : file[i].iface = "eth0" /\ file[i].mode # "manual"}
    IN  /\ \/ hits = {} /\ Decide("stanzas", RL_FAILED)
           \/ /\ hits # {}
              /\ Decide("stanzas", IF file[Min(hits)].mode = "dhcp"
                                   THEN RL_TRUE ELSE RL_FALSE)
        /\ UNCHANGED <<limit, conn, ebuf, seen>>

(* A buffer of length 0 is refused; then socket, or fopen of the table.    *)
Query(f, to) ==
  \E r \in Rooms :
    /\ Enter(f, 0, r)
    /\ UNCHANGED tries
    /\ \/ r # "none" /\ Obtain(to)
       \/ Refuse(RL_FAILED)

rl_get_ip_address  == Query("ip", "address")
rl_get_subnet_mask == Query("mask", "address")
rl_get_gateway     == Query("gateway", "routes")

(* Mutant: the buffer keeps its text when the card has no address. *)
get_address_kept ==
  \/ /\ Decide("address", RL_FAILED)
     /\ seen' = [seen EXCEPT !.asked = TRUE]
     /\ UNCHANGED <<limit, conn, ebuf>>
  \/ /\ room = "enough"
     /\ Decide("address", RL_SUCCESS)
     /\ ebuf' = fn
     /\ seen' = [seen EXCEPT !.asked = TRUE]
     /\ UNCHANGED <<limit, conn>>

(* ioctl fails, or inet_ntop does because the text does not fit: the       *)
(* buffer is emptied.                                                      *)
get_address ==
  /\ \/ Decide("address", RL_FAILED) /\ ebuf' = ""
     \/ /\ room = "enough"
        /\ Decide("address", RL_SUCCESS)
        /\ ebuf' = fn
  /\ seen' = [seen EXCEPT !.asked = TRUE]
  /\ UNCHANGED <<limit, conn>>

DefaultRoutes(table) ==
  {i \in DOMAIN table : table[i].default /\ table[i].iface = "eth0"}

(* The first default route of eth0. On failure the buffer keeps its text.  *)
find_gateway ==
  \E table \in RouteTables :
    LET hits == DefaultRoutes(table)
    IN  /\ \/ /\ hits # {} /\ room = "enough"
              /\ Decide("routes", RL_SUCCESS)
              /\ ebuf' = "gateway"
           \/ /\ hits = {} \/ room = "short"
              /\ Decide("routes", RL_FAILED)
              /\ UNCHANGED ebuf
        /\ seen' = [seen EXCEPT !.asked = TRUE]
        /\ UNCHANGED <<limit, conn>>

-----------------------------------------------------------------------------
(* The world outside                                                       *)

(* The cable goes in or out; during the other calls nobody looks at it.    *)
link_changes ==
  /\ link' = ~link
  /\ \/ ethpc = "idle" /\ UNCHANGED seen
     \/ /\ ethpc # "idle"
        /\ fn = "card"
        /\ seen' = IF link THEN [seen EXCEPT !.down = TRUE] ELSE [seen EXCEPT !.up = TRUE]
  /\ UNCHANGED <<fdtab, ethpc, fn, arg, room, sockfd, tries, limit, conn, ebuf, verdict, ethret>>

peer_answers ==
  /\ conn = "pending"
  /\ sockfd # NoFd
  /\ conn' \in {"open", "refused"}
  /\ UNCHANGED <<fdtab, ethpc, fn, arg, room, sockfd, tries, limit, link, ebuf, verdict,
                 ethret, seen>>

EthCall ==
  \/ rl_get_ethernet_card_state
  \/ rl_get_ethernet_connect_tcp
  \/ rl_get_ethernet_connect_tcp_sel
  \/ rl_get_ethernet_connect_udp
  \/ rl_get_dhcp
  \/ rl_get_ip_address
  \/ rl_get_subnet_mask
  \/ rl_get_gateway

EthStep ==
  \/ eth_close
  \/ card_try \/ card_query \/ card_close
  \/ tcp_timeout \/ sel_nonblock \/ resolve
  \/ tcp_connect \/ tcp_wait
  \/ sel_connect \/ sel_wait \/ sel_error
  \/ udp_timeout \/ udp_send \/ udp_wait
  \/ find_mode \/ get_address \/ find_gateway

EthNext == EthCall \/ EthStep \/ link_changes \/ peer_answers

-----------------------------------------------------------------------------
(* Properties                                                              *)

(* A call holds exactly the descriptor it is working with, and when it has *)
(* returned it holds none: no early return forgets its close.              *)
ProbeDescriptors ==
  /\ {d \in Fds : fdtab[d] = "rleth"} = {sockfd} \ {NoFd}
  /\ ethpc = "idle" => sockfd = NoFd

(* The card is reported up only if it was up during the call. If it is     *)
(* reported down, all the attempts asked for were made, and it was down at *)
(* some moment, unless a system call failed or none was asked for.         *)
CardVerdict ==
  ethpc = "idle" /\ fn = "card" =>
    /\ ethret = RL_SUCCESS => seen.up
    /\ ethret = RL_FAILED  => /\ seen.looks = Max({arg, 0})
                              /\ arg > 0 => seen.fault \/ seen.down

(* A probe that answers RL_SUCCESS has a connection or a reply: a late     *)
(* answer may be missed, but a timeout is never taken for one.             *)
OnlineMeansAnswered ==
  ethpc = "idle" /\ fn \in Probes /\ ethret = RL_SUCCESS => conn = "open"

(* What a query leaves in the buffer the caller uses again and again: the  *)
(* address asked for; after a failure that of no query, once the card was  *)
(* asked, and of an earlier one only if this one wrote nothing.            *)
BufferHonest ==
  ethpc = "idle" /\ fn \in Queries =>
    /\ ethret = RL_SUCCESS => ebuf = fn
    /\ ethret = RL_FAILED =>
         ebuf = IF seen.asked /\ fn # "gateway" THEN "" ELSE seen.before

(* A call returns, unless it waits for the peer without a limit.           *)
ProbeEnds ==
  ethpc # "idle" ~>
    (ethpc = "idle" \/ (ethpc \in {"tcp_wait", "udp_wait"} /\ ~limit))
=============================================================================
