---------------------------- MODULE RlEthProofs ----------------------------
(***************************************************************************)
(* Theorems about rleth: what each step does to the descriptor table, and  *)
(* the invariants behind the verdicts. They speak of EthNext and of steps  *)
(* that leave rleth alone, and are put together in RlHostProofs.           *)
(***************************************************************************)
EXTENDS RlEth, TLAPS

-----------------------------------------------------------------------------
(* What opening and closing a descriptor does to those of each owner.      *)

Owned(who) == {d \in Fds : fdtab[d] = who}

(* A component has the one descriptor s in hand, or none when s is -1.     *)
Holds(who, s) == Owned(who) = {s} \ {-1}

(* The step opens a descriptor for who, closes its descriptor d, or leaves *)
(* the table alone.                                                        *)
LEMMA OpenedOwns ==
  ASSUME FdTypeOK, NEW who \in Owners, NEW d, Opened(who, d)
  PROVE  /\ FdTypeOK'
         /\ d \in Fds
         /\ Owned(who)' = Owned(who) \cup {d}
         /\ \A w \in Owners \ {who} : Owned(w)' = Owned(w)
<1>1. d \in Fds /\ fdtab[d] = "none"
  BY DEF Opened, OpenFds
<1>2. fdtab' = [fdtab EXCEPT ![d] = who]
  BY DEF Opened
<1>3. "none" \notin Owners
  BY DEF Owners
<1> QED
  BY <1>1, <1>2, <1>3 DEF FdTypeOK, Owned

(* A component that closes what it owns takes nothing from the others.     *)
LEMMA ClosedOwns ==
  ASSUME FdTypeOK, NEW who \in Owners, NEW d \in Owned(who), Closed(d)
  PROVE  /\ FdTypeOK'
         /\ Owned(who)' = Owned(who) \ {d}
         /\ \A w \in Owners \ {who} : Owned(w)' = Owned(w)
<1>1. "none" \notin Owners
  BY DEF Owners
<1> QED
  BY <1>1 DEF FdTypeOK, Owned, Closed

(* -1 is no descriptor.                                                    *)
LEMMA NoDescriptor == -1 \notin Fds
BY DescriptorsAssumption

(* The descriptor that who has in hand is s, then t, and its program       *)
(* counter c, then e; at the values in free it has none. A step keeps the  *)
(* descriptor, takes one or gives it back.                                 *)
Kept(s, t, c, e, free)      == UNCHANGED fdtab /\ t = s /\ (c \in free <=> e \in free)
Took(who, s, t, c, e, free) == c \in free /\ e \notin free /\ Opened(who, t)
GaveBack(s, t, c, e, free)  == c \notin free /\ e \in free /\ Closed(s) /\ t = -1

(* The state in which who holds s exactly where its program counter says.  *)
Balanced(who, s, c, free) ==
  Holds(who, s) /\ (c \in free <=> s = -1) /\ (c \notin free <=> s \in Fds)

(* Each kind of step keeps the balance of who, and the descriptors of the  *)
(* others.                                                                 *)
LEMMA StepBalanced ==
  ASSUME FdTypeOK, NEW who \in Owners,
         NEW s, NEW t, NEW c, NEW e, NEW free,
         Balanced(who, s, c, free),
         \/ Kept(s, t, c, e, free)
         \/ Took(who, s, t, c, e, free)
         \/ GaveBack(s, t, c, e, free)
  PROVE  /\ FdTypeOK'
         /\ Owned(who)' = {t} \ {-1}
         /\ (e \in free <=> t = -1) /\ (e \notin free <=> t \in Fds)
         /\ \A w \in Owners \ {who} : Owned(w)' = Owned(w)
<1>1. CASE Kept(s, t, c, e, free)
  BY <1>1 DEF Kept, Balanced, Holds, Owned, FdTypeOK
<1>2. CASE Took(who, s, t, c, e, free)
  <2>1. Opened(who, t)
    BY <1>2 DEF Took
  <2>2. /\ FdTypeOK' /\ t \in Fds
        /\ Owned(who)' = Owned(who) \cup {t}
        /\ \A w \in Owners \ {who} : Owned(w)' = Owned(w)
    BY <2>1, OpenedOwns
  <2> QED
    BY <1>2, <2>2, NoDescriptor DEF Took, Balanced, Holds
<1>3. CASE GaveBack(s, t, c, e, free)
  <2>1. Closed(s) /\ s \in Owned(who) /\ Owned(who) = {s}
    BY <1>3, NoDescriptor DEF GaveBack, Balanced, Holds
  <2>2. /\ FdTypeOK'
        /\ Owned(who)' = Owned(who) \ {s}
        /\ \A w \in Owners \ {who} : Owned(w)' = Owned(w)
    BY <2>1, ClosedOwns
  <2> QED
    BY <1>3, <2>1, <2>2, NoDescriptor DEF GaveBack
<1> QED
  BY <1>1, <1>2, <1>3

-----------------------------------------------------------------------------
(* The descriptors of rleth                                                *)

(* rleth has a descriptor everywhere but between calls and attempts.       *)
NoSocket == {"idle", "card_try"}

EthBalanced == Balanced("rleth", sockfd, ethpc, NoSocket)

EthKept     == Kept(sockfd, sockfd', ethpc, ethpc', NoSocket)
EthTook     == Took("rleth", sockfd, sockfd', ethpc, ethpc', NoSocket)
EthGaveBack == GaveBack(sockfd, sockfd', ethpc, ethpc', NoSocket)

(* A socket or file that a call obtains is one it takes.                   *)
LEMMA ObtainTakes ==
  ASSUME NEW to, to \notin NoSocket, ethpc \in NoSocket, Obtain(to)
  PROVE  EthTook
<1>1. PICK d \in Fds : Opened("rleth", d) /\ sockfd' = d
  BY DEF Obtain
<1> QED
  BY <1>1 DEF Obtain, EthTook, Took

(* A refusal keeps.                                                        *)
LEMMA RefuseKeeps ==
  ASSUME NEW v, ethpc \in NoSocket, Refuse(v)
  PROVE  EthKept
BY DEF Refuse, EthKept, Kept, NoSocket

(* An answer is decided, and a call proceeds, with the descriptor in hand. *)
LEMMA DecideKeeps ==
  ASSUME NEW from, NEW v, from \notin NoSocket, Decide(from, v)
  PROVE  EthKept
BY DEF Decide, EthGoto, EthKept, Kept, NoSocket

(* A call that goes on does so with the descriptor in hand.                *)
LEMMA ProceedKeeps ==
  ASSUME NEW from, NEW to, from \notin NoSocket, to \notin NoSocket, Proceed(from, to)
  PROVE  EthKept
BY DEF Proceed, EthGoto, EthKept, Kept, NoSocket

(* Every call of rleth takes a descriptor or ends without one.             *)
LEMMA EthCallKinds == EthCall => EthKept \/ EthTook
<1> SUFFICES ASSUME EthCall PROVE EthKept \/ EthTook
  OBVIOUS
<1>1. ASSUME NEW f, NEW to, to \notin NoSocket, Probe(f, to) PROVE EthKept \/ EthTook
  BY <1>1, ObtainTakes, RefuseKeeps DEF Probe, Enter, NoSocket
<1>2. ASSUME NEW f, NEW to, to \notin NoSocket, Query(f, to) PROVE EthKept \/ EthTook
  BY <1>2, ObtainTakes, RefuseKeeps DEF Query, Enter, NoSocket
<1>3. CASE rl_get_ethernet_card_state
  <2>1. PICK n \in Retries : /\ Enter("card", n, "none")
                             /\ IF n < 0 THEN Refuse(RL_FAILED)
                                ELSE ethpc' = "card_try" /\ ethret' = Busy
                                     /\ UNCHANGED <<fdtab, sockfd>>
    BY <1>3 DEF rl_get_ethernet_card_state
  <2>2. ethpc = "idle"
    BY <2>1 DEF Enter
  <2> QED
    BY <2>1, <2>2, RefuseKeeps DEF EthKept, Kept, NoSocket
<1>4. CASE rl_get_dhcp
  BY <1>4, ObtainTakes, RefuseKeeps DEF rl_get_dhcp, Enter, NoSocket
<1>5. CASE rl_get_ethernet_connect_tcp
  BY <1>5, <1>1 DEF rl_get_ethernet_connect_tcp, NoSocket
<1>6. CASE rl_get_ethernet_connect_tcp_sel
  BY <1>6, <1>1 DEF rl_get_ethernet_connect_tcp_sel, NoSocket
<1>7. CASE rl_get_ethernet_connect_udp
  BY <1>7, <1>1 DEF rl_get_ethernet_connect_udp, NoSocket
<1>8. CASE rl_get_ip_address
  BY <1>8, <1>2 DEF rl_get_ip_address, NoSocket
<1>9. CASE rl_get_subnet_mask
  BY <1>9, <1>2 DEF rl_get_subnet_mask, NoSocket
<1>10. CASE rl_get_gateway
  BY <1>10, <1>2 DEF rl_get_gateway, NoSocket
<1> QED
  BY <1>3, <1>4, <1>5, <1>6, <1>7, <1>8, <1>9, <1>10 DEF EthCall

(* The steps of a call keep the descriptor, and the last one, or the last  *)
(* of an attempt, closes it.                                               *)
LEMMA EthStepKinds == EthStep => EthKept \/ EthTook \/ EthGaveBack
<1> SUFFICES ASSUME EthStep PROVE EthKept \/ EthTook \/ EthGaveBack
  OBVIOUS
<1>1. CASE eth_close
  BY <1>1 DEF eth_close, EthGoto, EthGaveBack, GaveBack, NoSocket, NoFd
<1>2. CASE card_try
  <2>1. ethpc = "card_try"
    BY <1>2 DEF card_try
  <2>2. \/ Obtain("card_query") \/ Refuse(RL_FAILED)
        \/ UNCHANGED <<ethpc, fdtab, sockfd, ethret>>
    BY <1>2 DEF card_try
  <2> QED
    BY <2>1, <2>2, ObtainTakes, RefuseKeeps DEF EthKept, Kept, NoSocket
<1>3. CASE card_query
  BY <1>3, DecideKeeps, ProceedKeeps DEF card_query, NoSocket
<1>4. CASE card_close
  BY <1>4 DEF card_close, EthGoto, EthGaveBack, GaveBack, NoSocket, NoFd
<1>5. CASE tcp_timeout \/ sel_nonblock \/ udp_timeout
  BY <1>5, DecideKeeps, ProceedKeeps DEF tcp_timeout, sel_nonblock, udp_timeout, Fails, NoSocket
<1>6. CASE resolve \/ tcp_connect \/ tcp_wait
  BY <1>6, DecideKeeps, ProceedKeeps DEF resolve, tcp_connect, tcp_wait, Fails, NoSocket
<1>7. CASE sel_connect \/ sel_wait \/ sel_error
  BY <1>7, DecideKeeps, ProceedKeeps DEF sel_connect, sel_wait, sel_error, Fails, NoSocket
<1>8. CASE udp_send \/ udp_wait
  BY <1>8, DecideKeeps, ProceedKeeps DEF udp_send, udp_wait, Fails, NoSocket
<1>9. CASE find_mode
  BY <1>9, DecideKeeps DEF find_mode, NoSocket
<1>10. CASE get_address
  BY <1>10, DecideKeeps DEF get_address, NoSocket
<1>11. CASE find_gateway
  BY <1>11, DecideKeeps DEF find_gateway, NoSocket
<1> QED
  BY <1>1, <1>2, <1>3, <1>4, <1>5, <1>6, <1>7, <1>8, <1>9, <1>10, <1>11 DEF EthStep

(* So does everything rleth and the world do together.                     *)
LEMMA EthKinds == EthNext => EthKept \/ EthTook \/ EthGaveBack
<1>1. link_changes \/ peer_answers => EthKept
  BY DEF link_changes, peer_answers, EthKept, Kept
<1> QED
  BY <1>1, EthCallKinds, EthStepKinds DEF EthNext

-----------------------------------------------------------------------------
(* The probes: a timeout is never taken for an answer                      *)

(* Which function a step belongs to, and what is known of the peer there:  *)
(* a probe whose answer is RL_SUCCESS has been answered, from the decision *)
(* on, since nothing changes an answered peer.                             *)
EthOnline ==
  /\ ethpc \in {"card_try", "card_query", "card_close"} => fn = "card"
  /\ ethpc = "stanzas" => fn = "dhcp"
  /\ ethpc \in {"address", "routes"} => fn \in Queries
  /\ ethpc = "sel_wait"  => conn \in {"open", "pending", "refused"}
  /\ ethpc = "sel_error" => conn \in {"open", "refused"}
  /\ ethpc = "close" /\ fn \in Probes /\ verdict = RL_SUCCESS => conn = "open"
  /\ OnlineMeansAnswered

(* Before the first call no probe has answered.                            *)
LEMMA OnlineInit == EthInit => EthOnline
BY DEF EthInit, EthOnline, OnlineMeansAnswered, Probes

(* A call begins without an answer, or fails at once with RL_FAILED.       *)
LEMMA OnlineCall ==
  ASSUME EthOnline, EthCall
  PROVE  EthOnline'
<1>1. ASSUME NEW f \in Probes, NEW to \in {"tcp_timeout", "sel_nonblock", "udp_timeout"},
             Probe(f, to)
      PROVE  EthOnline'
  BY <1>1 DEF Probe, Enter, Obtain, Refuse, EthOnline, OnlineMeansAnswered, Probes, Queries,
              RL_SUCCESS, RL_FAILED, Busy
<1>2. ASSUME NEW f \in Queries, NEW to \in {"address", "routes"}, Query(f, to)
      PROVE  EthOnline'
  BY <1>2 DEF Query, Enter, Obtain, Refuse, EthOnline, OnlineMeansAnswered, Probes, Queries
<1>3. CASE rl_get_ethernet_card_state
  BY <1>3 DEF rl_get_ethernet_card_state, Enter, Refuse, EthOnline, OnlineMeansAnswered, Probes
<1>4. CASE rl_get_dhcp
  BY <1>4 DEF rl_get_dhcp, Enter, Obtain, Refuse, EthOnline, OnlineMeansAnswered, Probes
<1>5. CASE \/ rl_get_ethernet_connect_tcp \/ rl_get_ethernet_connect_tcp_sel
           \/ rl_get_ethernet_connect_udp
  BY <1>5, <1>1 DEF rl_get_ethernet_connect_tcp, rl_get_ethernet_connect_tcp_sel,
                    rl_get_ethernet_connect_udp, Probes
<1>6. CASE rl_get_ip_address \/ rl_get_subnet_mask \/ rl_get_gateway
  BY <1>6, <1>2 DEF rl_get_ip_address, rl_get_subnet_mask, rl_get_gateway, Queries
<1> QED
  BY <1>3, <1>4, <1>5, <1>6 DEF EthCall

(* Only an answered peer leads to the decision RL_SUCCESS.                 *)
LEMMA OnlineStep ==
  ASSUME EthOnline, EthStep
  PROVE  EthOnline'
<1> USE DEF EthOnline, OnlineMeansAnswered, Probes, Queries
<1>1. CASE eth_close
  BY <1>1 DEF eth_close, EthGoto
<1>2. CASE card_try \/ card_query \/ card_close
  BY <1>2 DEF card_try, card_query, card_close, Obtain, Refuse, Decide, Proceed, EthGoto
<1>fails. ASSUME NEW from, Fails(from) PROVE EthOnline'
  BY <1>fails DEF Fails, Decide, EthGoto, RL_SUCCESS, RL_FAILED
<1>goes. ASSUME NEW from, NEW to \in {"resolve", "udp_send"}, Proceed(from, to) PROVE EthOnline'
  BY <1>goes DEF Proceed, EthGoto
<1>3. CASE tcp_timeout \/ sel_nonblock \/ udp_timeout
  BY <1>3, <1>fails, <1>goes DEF tcp_timeout, sel_nonblock, udp_timeout
<1>4. CASE resolve \/ tcp_connect \/ tcp_wait
  BY <1>4 DEF resolve, tcp_connect, tcp_wait, Fails, Decide, Proceed, EthGoto,
              RL_SUCCESS, RL_FAILED
<1>5. CASE sel_connect \/ sel_wait \/ sel_error
  BY <1>5 DEF sel_connect, sel_wait, sel_error, Fails, Decide, Proceed, EthGoto,
              RL_SUCCESS, RL_FAILED
<1>6. CASE udp_send \/ udp_wait
  BY <1>6 DEF udp_send, udp_wait, Fails, Decide, Proceed, EthGoto, RL_SUCCESS, RL_FAILED
<1>7. CASE find_mode \/ get_address \/ find_gateway
  BY <1>7 DEF find_mode, get_address, find_gateway, Decide, EthGoto
<1> QED
  BY <1>1, <1>2, <1>3, <1>4, <1>5, <1>6, <1>7 DEF EthStep

(* The peer acts only on a call with a socket, so never after the return.  *)
LEMMA OnlineNext ==
  ASSUME EthOnline, EthBalanced, EthNext
  PROVE  EthOnline'
<1>1. CASE link_changes
  BY <1>1 DEF link_changes, EthOnline, OnlineMeansAnswered
<1>2. CASE peer_answers
  <2>1. ethpc # "idle" /\ ethpc' = ethpc
    BY <1>2 DEF peer_answers, EthBalanced, Balanced, NoSocket, NoFd
  <2> QED
    BY <1>2, <2>1 DEF peer_answers, EthOnline, OnlineMeansAnswered
<1> QED
  BY <1>1, <1>2, OnlineCall, OnlineStep DEF EthNext

(* Nothing else that happens in the host touches a probe.                  *)
LEMMA OnlineIdle ==
  ASSUME EthOnline, UNCHANGED ethvars
  PROVE  EthOnline'
BY DEF EthOnline, OnlineMeansAnswered, ethvars

-----------------------------------------------------------------------------
(* The card: the number of attempts, and what was seen of the link         *)

(* An attempt more is an attempt fewer left; the link as it is now is also *)
(* in the history; an attempt that has failed has seen the link down or a  *)
(* system call fail.                                                       *)
EthCard ==
  /\ seen \in Seen /\ ebuf \in Texts
  /\ arg \in Int /\ link \in BOOLEAN
  /\ ethpc \in {"card_try", "card_query", "card_close"} =>
       /\ fn = "card"
       /\ tries \in Nat
       /\ arg = seen.looks + tries
       /\ link => seen.up
       /\ ~link => seen.down
  /\ ethpc = "stanzas" => fn # "card"
  /\ ethpc \in {"address", "routes"} => fn \in Queries
  /\ ethpc = "card_try" /\ seen.looks > 0 => seen.fault \/ seen.down
  /\ ethpc = "card_close" => seen.fault \/ seen.down
  /\ ethpc = "close" /\ fn = "card" => verdict = RL_SUCCESS /\ seen.up
  /\ ethpc \in {"tcp_timeout", "sel_nonblock", "udp_timeout", "resolve", "tcp_connect",
                 "tcp_wait", "sel_connect", "sel_wait", "sel_error", "udp_send",
                 "udp_wait"} => fn # "card"
  /\ CardVerdict

(* The larger of a number and 0.                                           *)
LEMMA MaxOfTwo ==
  ASSUME NEW n \in Int
  PROVE  Max({n, 0}) = IF n > 0 THEN n ELSE 0
<1> DEFINE m == IF n > 0 THEN n ELSE 0
<1>1. m \in {n, 0} /\ \A y \in {n, 0} : m >= y
  OBVIOUS
<1>2. \A x \in {n, 0} : (\A y \in {n, 0} : x >= y) => x = m
  OBVIOUS
<1> QED
  BY <1>1, <1>2 DEF Max

(* The link at the start is in the history from the start.                 *)
LEMMA CardInit == EthInit => EthCard
BY DEF EthInit, EthCard, CardVerdict, Seen, Texts

(* The history with which a call begins.                                   *)
LEMMA CardEnter ==
  ASSUME EthCard, NEW f, NEW a \in Int, NEW r, Enter(f, a, r)
  PROVE  /\ seen' \in Seen /\ ebuf' \in Texts /\ arg' \in Int
         /\ seen'.looks = 0 /\ seen'.up = link /\ seen'.down = ~link
         /\ fn' = f /\ arg' = a /\ link' = link /\ link \in BOOLEAN
BY DEF EthCard, Enter, Seen

(* Of another function's call the invariant says nothing but types.        *)
LEMMA CardOther ==
  ASSUME seen' \in Seen, ebuf' \in Texts, arg' \in Int, link' \in BOOLEAN,
         fn' # "card", ethpc' \notin {"card_try", "card_query", "card_close"},
         ethpc' \in {"address", "routes"} => fn' \in Queries
  PROVE  EthCard'
BY DEF EthCard, CardVerdict

(* A call for the card begins with no attempts made and all of them left.  *)
LEMMA CardCall ==
  ASSUME EthCard, EthCall
  PROVE  EthCard'
<1>1. ASSUME NEW f \in Probes, NEW to \in {"tcp_timeout", "sel_nonblock", "udp_timeout"},
             Probe(f, to)
      PROVE  EthCard'
  <2>1. PICK s \in TrySecs : Enter(f, s, "none")
    BY <1>1 DEF Probe
  <2>2. s \in Int /\ f # "card"
    BY RlEthAssumption DEF Probes
  <2>3. ethpc' \in {to, "idle"}
    BY <1>1 DEF Probe, Obtain, Refuse
  <2> QED
    BY <2>1, <2>2, <2>3, CardEnter, CardOther
<1>2. ASSUME NEW f \in Queries, NEW to \in {"address", "routes"}, Query(f, to)
      PROVE  EthCard'
  <2>1. PICK r \in Rooms : Enter(f, 0, r)
    BY <1>2 DEF Query
  <2>2. ethpc' \in {to, "idle"} /\ f # "card"
    BY <1>2 DEF Query, Obtain, Refuse, Queries
  <2> QED
    BY <2>1, <2>2, CardEnter, CardOther
<1>3. CASE rl_get_ethernet_card_state
  <2>1. PICK n \in Retries : /\ Enter("card", n, "none")
                             /\ tries' = n
                             /\ IF n < 0 THEN Refuse(RL_FAILED)
                                ELSE ethpc' = "card_try" /\ ethret' = Busy
                                     /\ UNCHANGED <<fdtab, sockfd>>
    BY <1>3 DEF rl_get_ethernet_card_state
  <2>2. n \in Int
    BY RlEthAssumption
  <2>3. /\ seen' \in Seen /\ ebuf' \in Texts /\ arg' \in Int /\ link' \in BOOLEAN
        /\ seen'.looks = 0 /\ seen'.up = link' /\ seen'.down = ~link'
        /\ fn' = "card" /\ arg' = n
    BY <2>1, <2>2, CardEnter
  <2>4. CASE n < 0
    BY <2>1, <2>2, <2>3, <2>4, MaxOfTwo
       DEF Refuse, EthCard, CardVerdict, RL_SUCCESS, RL_FAILED
  <2>5. CASE ~(n < 0)
    <3>1. ethpc' = "card_try" /\ tries' \in Nat /\ arg' = seen'.looks + tries'
      BY <2>1, <2>2, <2>3, <2>5
    <3>2. ~(seen'.looks > 0)
      BY <2>3
    <3> QED
      BY <2>3, <3>1, <3>2 DEF EthCard, CardVerdict
  <2> QED
    BY <2>4, <2>5
<1>4. CASE rl_get_dhcp
  <2>1. Enter("dhcp", 0, "none") /\ ethpc' \in {"stanzas", "idle"}
    BY <1>4 DEF rl_get_dhcp, Obtain, Refuse
  <2> QED
    BY <2>1, CardEnter, CardOther
<1>5. CASE \/ rl_get_ethernet_connect_tcp \/ rl_get_ethernet_connect_tcp_sel
           \/ rl_get_ethernet_connect_udp
  BY <1>5, <1>1 DEF rl_get_ethernet_connect_tcp, rl_get_ethernet_connect_tcp_sel,
                    rl_get_ethernet_connect_udp, Probes
<1>6. CASE rl_get_ip_address \/ rl_get_subnet_mask \/ rl_get_gateway
  BY <1>6, <1>2 DEF rl_get_ip_address, rl_get_subnet_mask, rl_get_gateway, Queries
<1> QED
  BY <1>3, <1>4, <1>5, <1>6 DEF EthCall

(* An attempt begun is counted; one that ends has seen why it failed.      *)
LEMMA CardStep ==
  ASSUME EthCard, EthStep
  PROVE  EthCard'
<1>1. CASE eth_close
  BY <1>1 DEF eth_close, EthGoto, EthCard, CardVerdict, RL_SUCCESS, RL_FAILED
<1>2. CASE card_try
  <2>0. /\ ethpc = "card_try" /\ fn = "card" /\ tries \in Nat /\ seen \in Seen
        /\ arg = seen.looks + tries /\ tries' = tries - 1
        /\ UNCHANGED <<fn, arg, link, ebuf, verdict>>
    BY <1>2 DEF card_try, EthCard
  <2>1. CASE /\ MoreLooks /\ Obtain("card_query")
             /\ seen' = [seen EXCEPT !.looks = @ + 1]
    BY <2>0, <2>1 DEF MoreLooks, Obtain, EthCard, CardVerdict, Seen
  <2>2. CASE /\ MoreLooks /\ ethpc' = ethpc
             /\ seen' = [seen EXCEPT !.looks = @ + 1, !.fault = TRUE]
    <3>1. /\ ethpc' = "card_try" /\ fn' = "card" /\ ebuf' \in Texts
          /\ arg' \in Int /\ link' \in BOOLEAN /\ tries' \in Nat
      BY <2>0, <2>2 DEF MoreLooks, EthCard
    <3>0. seen.looks \in Nat /\ seen.looks + 1 \in Nat
      BY <2>0 DEF Seen
    <3>a. seen' = [seen EXCEPT !.looks = seen.looks + 1, !.fault = TRUE]
      BY <2>2
    <3>2. /\ seen' \in Seen /\ seen'.looks = seen.looks + 1 /\ seen'.fault
          /\ seen'.up = seen.up /\ seen'.down = seen.down
      <4>1. seen' \in Seen
        BY <2>0, <3>0, <3>a, Zenon DEF Seen
      <4> QED
        BY <2>0, <3>0, <3>a, <4>1 DEF Seen
    <3>3. arg' = seen'.looks + tries'
      BY <2>0, <3>1, <3>2 DEF Seen
    <3>4. (link' => seen'.up) /\ (~link' => seen'.down)
      BY <2>0, <3>2 DEF EthCard
    <3> QED
      BY <3>1, <3>2, <3>3, <3>4 DEF EthCard, CardVerdict
  <2>3. CASE ~MoreLooks /\ Refuse(RL_FAILED) /\ UNCHANGED seen
    <3>1. tries = 0 /\ arg = seen.looks
      BY <2>0, <2>3 DEF MoreLooks, Seen
    <3>2. arg > 0 => seen.fault \/ seen.down
      BY <2>0, <3>1 DEF EthCard
    <3>3. arg \in Nat /\ Max({arg, 0}) = seen.looks
      BY <2>0, <3>1, MaxOfTwo DEF Seen
    <3> QED
      BY <2>0, <2>3, <3>2, <3>3 DEF Refuse, EthCard, CardVerdict, RL_SUCCESS, RL_FAILED
  <2> QED
    BY <1>2, <2>1, <2>2, <2>3 DEF card_try
<1>3. CASE card_query
  <2>1. CASE link /\ Decide("card_query", RL_SUCCESS) /\ UNCHANGED <<ebuf, seen>>
    BY <2>1 DEF Decide, EthGoto, EthCard, CardVerdict
  <2>2. CASE ~link /\ Proceed("card_query", "card_close") /\ UNCHANGED <<ebuf, seen>>
    BY <2>2 DEF Proceed, EthGoto, EthCard, CardVerdict
  <2>3. CASE /\ Proceed("card_query", "card_close")
             /\ seen' = [seen EXCEPT !.fault = TRUE] /\ UNCHANGED ebuf
    BY <2>3 DEF Proceed, EthGoto, EthCard, CardVerdict, Seen
  <2> QED
    BY <1>3, <2>1, <2>2, <2>3 DEF card_query
<1>4. CASE card_close
  BY <1>4 DEF card_close, EthGoto, EthCard, CardVerdict
<1>decides. ASSUME NEW from \in {"tcp_timeout", "sel_nonblock", "udp_timeout", "resolve",
                               "tcp_connect", "tcp_wait", "sel_connect", "sel_wait",
                               "sel_error", "udp_send", "udp_wait", "stanzas"},
                   NEW v, Decide(from, v), UNCHANGED <<ebuf, seen>>
            PROVE  EthCard'
  BY <1>decides, CardOther DEF Decide, EthGoto, EthCard
<1>goes. ASSUME NEW from \in {"tcp_timeout", "sel_nonblock", "udp_timeout", "resolve",
                            "tcp_connect", "sel_connect", "sel_wait", "udp_send"},
                NEW to \in {"resolve", "tcp_connect", "tcp_wait", "sel_connect", "sel_wait",
                            "sel_error", "udp_send", "udp_wait"},
                Proceed(from, to), UNCHANGED <<ebuf, seen>>
         PROVE  EthCard'
  BY <1>goes, CardOther DEF Proceed, EthGoto, EthCard
<1>5. CASE tcp_timeout \/ sel_nonblock \/ udp_timeout
  BY <1>5, <1>decides, <1>goes DEF tcp_timeout, sel_nonblock, udp_timeout, Fails
<1>6. CASE resolve \/ tcp_connect \/ tcp_wait
  BY <1>6, <1>decides, <1>goes DEF resolve, tcp_connect, tcp_wait, Fails
<1>7. CASE sel_connect \/ sel_wait \/ sel_error
  BY <1>7, <1>decides, <1>goes DEF sel_connect, sel_wait, sel_error, Fails
<1>8. CASE udp_send \/ udp_wait
  BY <1>8, <1>decides, <1>goes DEF udp_send, udp_wait, Fails
<1>9. CASE find_mode
  BY <1>9, <1>decides DEF find_mode
<1>10. CASE get_address \/ find_gateway
  <2>0. PICK from \in {"address", "routes"} : \E v : Decide(from, v)
    BY <1>10 DEF get_address, find_gateway
  <2>1. PICK v : Decide(from, v)
    BY <2>0
  <2>2. /\ ethpc' = "close" /\ fn' = fn /\ arg' = arg /\ link' = link
        /\ fn \in Queries /\ fn # "card"
    BY <2>1 DEF Decide, EthGoto, EthCard, Queries
  <2>3. ebuf' \in Texts
    <3>1. ebuf' \in {"", "gateway", fn, ebuf}
      BY <1>10 DEF get_address, find_gateway
    <3> QED
      BY <2>2, <3>1 DEF EthCard, Texts, Queries
  <2>4. seen' = [seen EXCEPT !.asked = TRUE]
    BY <1>10 DEF get_address, find_gateway
  <2>5. seen' \in Seen
    BY <2>4 DEF EthCard, Seen
  <2> QED
    BY <2>2, <2>3, <2>5, CardOther DEF EthCard
<1> QED
  BY <1>1, <1>2, <1>3, <1>4, <1>5, <1>6, <1>7, <1>8, <1>9, <1>10 DEF EthStep

(* The link may change at any moment; the history keeps both values.       *)
LEMMA CardNext ==
  ASSUME EthCard, EthNext
  PROVE  EthCard'
<1>1. CASE link_changes
  <2>1. CASE ethpc = "idle"
    BY <1>1, <2>1 DEF link_changes, EthCard, CardVerdict
  <2>2. CASE ethpc # "idle"
    <3>1. seen' = IF link THEN [seen EXCEPT !.down = TRUE] ELSE [seen EXCEPT !.up = TRUE]
      BY <1>1, <2>2 DEF link_changes
    <3>2. /\ seen' \in Seen
          /\ seen'.looks = seen.looks /\ seen'.fault = seen.fault
          /\ seen.up => seen'.up
          /\ seen.down => seen'.down
          /\ link' => seen'.up
          /\ ~link' => seen'.down
      BY <1>1, <3>1 DEF link_changes, EthCard, Seen
    <3> QED
      BY <1>1, <2>2, <3>2 DEF link_changes, EthCard, CardVerdict
  <2> QED
    BY <2>1, <2>2
<1>2. CASE peer_answers
  BY <1>2 DEF peer_answers, EthCard, CardVerdict
<1> QED
  BY <1>1, <1>2, CardCall, CardStep DEF EthNext

(* Nothing else that happens in the host touches the card's history.       *)
LEMMA CardIdle ==
  ASSUME EthCard, UNCHANGED ethvars
  PROVE  EthCard'
BY DEF EthCard, CardVerdict, ethvars

-----------------------------------------------------------------------------
(* The queries: what is left in the caller's buffer                        *)

(* Until the card is asked the buffer is as the caller passed it, and the  *)
(* decision and the text it leaves are made in one step.                   *)
EthBuffer ==
  /\ ethpc \in {"address", "routes"} =>
       /\ ethpc = "routes" <=> fn = "gateway"
       /\ fn \in Queries
       /\ ebuf = seen.before
  /\ ethpc = "close" /\ fn \in Queries =>
       /\ verdict = RL_SUCCESS => ebuf = fn
       /\ verdict = RL_FAILED =>
            ebuf = IF seen.asked /\ fn # "gateway" THEN "" ELSE seen.before
  /\ ethpc \in {"card_try", "card_query", "card_close"} => fn = "card"
  /\ ethpc = "stanzas" => fn = "dhcp"
  /\ ethpc \in {"tcp_timeout", "sel_nonblock", "udp_timeout", "resolve", "tcp_connect",
                 "tcp_wait", "sel_connect", "sel_wait", "sel_error", "udp_send",
                 "udp_wait"} => fn \in Probes
  /\ BufferHonest

(* Before the first call no query has written.                             *)
LEMMA BufferInit == EthInit => EthBuffer
BY DEF EthInit, EthBuffer, BufferHonest, Queries

(* A step that leaves rleth working for another function than a query.     *)
LEMMA BufferOther ==
  ASSUME fn' \notin Queries, ethpc' \notin {"address", "routes"},
         ethpc' \in {"card_try", "card_query", "card_close"} => fn' = "card",
         ethpc' = "stanzas" => fn' = "dhcp",
         ethpc' \in {"tcp_timeout", "sel_nonblock", "udp_timeout", "resolve", "tcp_connect",
                     "tcp_wait", "sel_connect", "sel_wait", "sel_error", "udp_send",
                     "udp_wait"} => fn' \in Probes
  PROVE  EthBuffer'
BY DEF EthBuffer, BufferHonest

(* A query begins by noting the buffer, and one refused leaves it so.      *)
LEMMA BufferCall ==
  ASSUME EthCard, EthCall
  PROVE  EthBuffer'
<1>1. ASSUME NEW f \in Probes, NEW to \in {"tcp_timeout", "sel_nonblock", "udp_timeout"},
             Probe(f, to)
      PROVE  EthBuffer'
  BY <1>1, BufferOther DEF Probe, Enter, Obtain, Refuse, Probes, Queries
<1>2. ASSUME NEW f \in Queries, NEW to \in {"address", "routes"}, Query(f, to),
             to = "routes" <=> f = "gateway"
      PROVE  EthBuffer'
  <2>1. /\ fn' = f /\ ebuf' = ebuf /\ seen'.before = ebuf /\ ~seen'.asked
        /\ \/ ethpc' = to
           \/ ethpc' = "idle" /\ ethret' = RL_FAILED
    BY <1>2 DEF Query, Enter, Obtain, Refuse
  <2> QED
    BY <1>2, <2>1 DEF EthBuffer, BufferHonest, RL_SUCCESS, RL_FAILED
<1>3. CASE rl_get_ethernet_card_state
  BY <1>3, BufferOther DEF rl_get_ethernet_card_state, Enter, Refuse, Queries
<1>4. CASE rl_get_dhcp
  BY <1>4, BufferOther DEF rl_get_dhcp, Enter, Obtain, Refuse, Queries
<1>5. CASE \/ rl_get_ethernet_connect_tcp \/ rl_get_ethernet_connect_tcp_sel
           \/ rl_get_ethernet_connect_udp
  BY <1>5, <1>1 DEF rl_get_ethernet_connect_tcp, rl_get_ethernet_connect_tcp_sel,
                    rl_get_ethernet_connect_udp, Probes
<1>6. CASE rl_get_ip_address \/ rl_get_subnet_mask \/ rl_get_gateway
  BY <1>6, <1>2 DEF rl_get_ip_address, rl_get_subnet_mask, rl_get_gateway, Queries
<1> QED
  BY <1>3, <1>4, <1>5, <1>6 DEF EthCall

(* A query writes in the step that decides it, and only then.              *)
LEMMA BufferStep ==
  ASSUME EthCard, EthBuffer, EthStep
  PROVE  EthBuffer'
<1>1. CASE eth_close
  BY <1>1 DEF eth_close, EthGoto, EthBuffer, BufferHonest
<1>2. CASE card_try \/ card_query \/ card_close
  BY <1>2, BufferOther DEF card_try, card_query, card_close, Obtain, Refuse, Decide, Proceed,
                           EthGoto, EthBuffer, Queries
<1>decides. ASSUME NEW from \in {"tcp_timeout", "sel_nonblock", "udp_timeout", "resolve",
                               "tcp_connect", "tcp_wait", "sel_connect", "sel_wait",
                               "sel_error", "udp_send", "udp_wait", "stanzas"},
                   NEW v, Decide(from, v)
            PROVE  EthBuffer'
  BY <1>decides, BufferOther DEF Decide, EthGoto, EthBuffer, Probes, Queries
<1>goes. ASSUME NEW from \in {"tcp_timeout", "sel_nonblock", "udp_timeout", "resolve",
                            "tcp_connect", "sel_connect", "sel_wait", "udp_send"},
                NEW to \in {"resolve", "tcp_connect", "tcp_wait", "sel_connect", "sel_wait",
                            "sel_error", "udp_send", "udp_wait"},
                Proceed(from, to)
         PROVE  EthBuffer'
  BY <1>goes, BufferOther DEF Proceed, EthGoto, EthBuffer, Probes, Queries
<1>3. CASE tcp_timeout \/ sel_nonblock \/ udp_timeout
  BY <1>3, <1>decides, <1>goes DEF tcp_timeout, sel_nonblock, udp_timeout, Fails
<1>4. CASE resolve \/ tcp_connect \/ tcp_wait
  BY <1>4, <1>decides, <1>goes DEF resolve, tcp_connect, tcp_wait, Fails
<1>5. CASE sel_connect \/ sel_wait \/ sel_error
  BY <1>5, <1>decides, <1>goes DEF sel_connect, sel_wait, sel_error, Fails
<1>6. CASE udp_send \/ udp_wait
  BY <1>6, <1>decides, <1>goes DEF udp_send, udp_wait, Fails
<1>7. CASE find_mode
  BY <1>7, <1>decides DEF find_mode
<1>8. CASE get_address
  <2>0. RL_SUCCESS # RL_FAILED
    BY DEF RL_SUCCESS, RL_FAILED
  <2>1. /\ ethpc = "address" /\ ethpc' = "close" /\ fn' = fn
        /\ fn \in Queries /\ fn # "gateway"
    BY <1>8 DEF get_address, Decide, EthGoto, EthBuffer
  <2>2. seen'.asked
    BY <1>8 DEF get_address, EthCard, Seen
  <2>3. \/ verdict' = RL_FAILED /\ ebuf' = ""
        \/ verdict' = RL_SUCCESS /\ ebuf' = fn
    BY <1>8 DEF get_address, Decide
  <2>4. verdict' = RL_SUCCESS => ebuf' = fn'
    BY <2>0, <2>1, <2>3
  <2>5. verdict' = RL_FAILED =>
          ebuf' = IF seen'.asked /\ fn' # "gateway" THEN "" ELSE seen'.before
    <3>1. verdict' = RL_FAILED => ebuf' = ""
      BY <2>0, <2>3
    <3>2. seen'.asked /\ fn' # "gateway"
      BY <2>1, <2>2
    <3> QED
      BY <3>1, <3>2
  <2> QED
    BY <2>1, <2>4, <2>5 DEF EthBuffer, BufferHonest
<1>9. CASE find_gateway
  <2>1. /\ ethpc = "routes" /\ ethpc' = "close" /\ fn' = fn /\ fn = "gateway"
        /\ ebuf = seen.before
    BY <1>9 DEF find_gateway, Decide, EthGoto, EthBuffer
  <2>2. seen'.before = seen.before
    BY <1>9 DEF find_gateway, EthCard, Seen
  <2>3. \/ verdict' = RL_FAILED /\ ebuf' = ebuf
        \/ verdict' = RL_SUCCESS /\ ebuf' = "gateway"
    BY <1>9 DEF find_gateway, Decide
  <2> QED
    BY <2>1, <2>2, <2>3 DEF EthBuffer, BufferHonest, RL_SUCCESS, RL_FAILED
<1> QED
  BY <1>1, <1>2, <1>3, <1>4, <1>5, <1>6, <1>7, <1>8, <1>9 DEF EthStep

(* Neither the link nor the peer touches the buffer or what is known of it. *)
LEMMA BufferNext ==
  ASSUME EthCard, EthBuffer, EthNext
  PROVE  EthBuffer'
<1>1. CASE link_changes
  <2>1. seen'.asked = seen.asked /\ seen'.before = seen.before
    BY <1>1 DEF link_changes, EthCard, Seen
  <2> QED
    BY <1>1, <2>1 DEF link_changes, EthBuffer, BufferHonest
<1>2. CASE peer_answers
  BY <1>2 DEF peer_answers, EthBuffer, BufferHonest
<1> QED
  BY <1>1, <1>2, BufferCall, BufferStep DEF EthNext

(* Nothing else that happens in the host touches the buffer.               *)
LEMMA BufferIdle ==
  ASSUME EthBuffer, UNCHANGED ethvars
  PROVE  EthBuffer'
BY DEF EthBuffer, BufferHonest, ethvars
=============================================================================
