------------------------------- MODULE RlTime -------------------------------
(***************************************************************************)
(* rltime: the time from a web server, the two clocks of the machine, the  *)
(* time zone.                                                              *)
(*                                                                         *)
(* One call at a time. rl_get_time_from_server reads the head of an HTTP   *)
(* reply, which arrives in pieces of any size, into a buffer of Cap        *)
(* tokens; rl_update_sys_time runs two commands, each of which may run, be *)
(* refused (the shell or sudo exits with an error) or not be started.      *)
(*                                                                         *)
(* Abstracted: a reply is a sequence of tokens, of which the code tells    *)
(* those in Token apart; a tm holds the name of what filled it (a date of  *)
(* the server, or the zone a local time was made for); clocks do not tick. *)
(***************************************************************************)
EXTENDS Descriptors, RlPublic, SequencesExt

CONSTANTS
  Cap,        (* the tokens that fit into response[2048]                   *)
  Replies,    (* what servers send before they close the connection        *)
  Dates,      (* the dates in replies that strptime can read               *)
  Requests,   (* arguments of rl_update_sys_time, see Request              *)
  Zones       (* arguments of rl_set_timezone                              *)

HTTP  == "HTTP/"
CRLF  == "CRLF"
OK    == "200 OK"
DATE  == "Date: "
Token == {HTTP, OK, "404", CRLF, DATE, "x"} \cup Dates

Request == [year : Nat, mon : Nat, day : Nat, hour : Nat, min : Nat, sec : Nat]

ASSUME RlTimeAssumption ==
  /\ Cap \in Nat \ {0}
  /\ Replies \subseteq Seq(Token)
  /\ Requests \subseteq Request

VARIABLES
  tpc,      (* the next step of the call                                   *)
  tfn,      (* the function called last                                    *)
  tsock,    (* its socket, -1 if there is none                             *)
  tlimit,   (* try_sec > 0: connect, send and recv have a time limit       *)
  reply,    (* what the server sends                                       *)
  got,      (* total_received: the tokens of the reply in the buffer       *)
  tm,       (* the caller's rl_time_t                                      *)
  tret,     (* the value of the last call; during one the answer, once it  *)
            (* only remains to close the socket                            *)
  clock,    (* the system time                                             *)
  rtc,      (* the hardware clock                                          *)
  tz,       (* the zone in the environment, and the one libc has read      *)
  asked,    (* the date rl_update_sys_time was called with                 *)
  cmds,     (* history: how the commands of the update went                *)
  past      (* history: tm, clock, rtc at the call; a transfer has failed  *)

clocks   == <<clock, rtc, asked, cmds>>
exchange == <<tsock, tlimit, reply, got>>
timevars == <<tpc, tfn, exchange, tm, tret, clocks, tz, past>>

Outcomes == {"ran", "refused", "not started"}

NoReply == <<>>
Epoch   == [year |-> 1970, mon |-> 1, day |-> 1, hour |-> 0, min |-> 0, sec |-> 0]

TimeTypeOK ==
  /\ tpc \in {"idle", "rcvtimeo", "sndtimeo", "getaddrinfo", "connect", "send",
              "recv", "status", "date", "close", "set_clock", "set_rtc"}
  /\ tfn \in {"none", "server", "update", "zone", "time", "stamp"}
  /\ tsock \in Fds \cup {-1}
  /\ tlimit \in BOOLEAN
  /\ reply \in Replies \cup {NoReply}
  /\ got \in 0 .. Cap
  /\ tm \in {"unset", "partial", "host"} \cup Dates \cup Zones
  /\ tret \in {RL_SUCCESS, RL_FAILED, RL_TRUE}
  /\ {clock, rtc, asked} \subseteq Requests \cup {Epoch}
  /\ tz \in [env : Zones \cup {"host"}, libc : Zones \cup {"host"}]
  /\ cmds \in BoundedSeq(Outcomes, 2)
  /\ past.fault \in BOOLEAN

TimeInit ==
  /\ tpc = "idle" /\ tfn = "none"
  /\ tsock = -1
  /\ tlimit = FALSE
  /\ reply = NoReply
  /\ got = 0
  /\ tm = "unset"
  /\ tret = RL_SUCCESS
  /\ clock = Epoch /\ rtc = Epoch /\ asked = Epoch
  /\ tz = [env |-> "host", libc |-> "host"]
  /\ cmds = <<>>
  /\ past = [tm |-> tm, clock |-> clock, rtc |-> rtc, fault |-> FALSE]

Begin(f) ==
  /\ tpc = "idle"
  /\ tfn' = f
  /\ past' = [tm |-> tm, clock |-> clock, rtc |-> rtc, fault |-> FALSE]

-----------------------------------------------------------------------------
(* The exchange with the server                                            *)

(* The exchange goes on with nothing but a step.                           *)
Continue(from, to) ==
  /\ tpc = from
  /\ tpc' = to
  /\ UNCHANGED <<fdtab, tfn, tsock, tlimit, tm, tret, clocks, tz>>

(* It ends with v: the socket is closed in the next step.                  *)
Answer(from, v) ==
  /\ tpc = from
  /\ tpc' = "close"
  /\ tret' = v
  /\ UNCHANGED <<fdtab, tfn, exchange, clocks, tz, past>>

close_socket ==
  /\ tpc = "close"
  /\ tpc' = "idle"
  /\ Closed(tsock)
  /\ tsock' = -1
  /\ UNCHANGED <<tfn, tlimit, reply, got, tm, tret, clocks, tz, past>>

rl_get_time_from_server ==
  /\ Begin("server")
  /\ reply' = NoReply
  /\ got' = 0
  /\ \/ /\ \E d \in Fds : Opened("rltime", d) /\ tsock' = d
        /\ tlimit' \in BOOLEAN
        /\ tpc' = "rcvtimeo"
        /\ UNCHANGED tret
     \/ /\ tret' = RL_FAILED
        /\ UNCHANGED <<fdtab, tpc, tsock, tlimit>>
  /\ UNCHANGED <<tm, clocks, tz>>

(* setsockopt for both directions, then the address of the server.         *)
prepare(from, to) ==
  \/ Continue(from, to) /\ UNCHANGED <<reply, got, past>>
  \/ Answer(from, RL_FAILED) /\ UNCHANGED tm

connect_server ==
  \/ /\ Continue("connect", "send")
     /\ reply' \in Replies
     /\ UNCHANGED <<got, past>>
  \/ Answer("connect", RL_FALSE) /\ UNCHANGED tm

send_request ==
  \/ Continue("send", "recv") /\ UNCHANGED <<reply, got, past>>
  \/ Answer("send", RL_FALSE) /\ UNCHANGED tm

Text(n) == SubSeq(reply, 1, n)

(* Mutant: the end of the head is looked for in the new piece only. *)
HeadEndsInPiece(from, to) ==
  \E i \in from + 1 .. to - 1 : reply[i] = CRLF /\ reply[i + 1] = CRLF

(* "\r\n\r\n" is in the buffer.                                            *)
HeadEnds(from, to) ==
  \E i \in 1 .. to - 1 : reply[i] = CRLF /\ reply[i + 1] = CRLF

(* Mutant: the size given to recv does not shrink. *)
recv_piece_unbounded ==
  \E n \in got + 1 .. Min({Len(reply), got + Cap}) :
    /\ Continue("recv", IF n >= Cap \/ HeadEnds(got, n) THEN "status" ELSE "recv")
    /\ got' = n
    /\ UNCHANGED <<reply, past>>

(* The loop reads until the buffer is full or holds the whole head.        *)
recv_piece ==
  \E n \in got + 1 .. Min({Len(reply), Cap}) :
    /\ Continue("recv", IF n >= Cap \/ HeadEnds(got, n) THEN "status" ELSE "recv")
    /\ got' = n
    /\ UNCHANGED <<reply, past>>

(* recv returns 0: the server has closed the connection.                   *)
recv_end ==
  /\ got = Len(reply)
  /\ Answer("recv", RL_FALSE)
  /\ UNCHANGED tm

(* recv runs into its limit, or the connection is lost.                    *)
recv_fails ==
  /\ tpc = "recv"
  /\ tpc' = "close"
  /\ tret' = RL_FALSE
  /\ past' = [past EXCEPT !.fault = TRUE]
  /\ UNCHANGED <<fdtab, tfn, exchange, tm, clocks, tz>>

(* The reply starts with "HTTP/" and holds "200 OK" somewhere, in the      *)
(* status line or not.                                                     *)
StatusOK(text) == text # <<>> /\ Head(text) = HTTP /\ Contains(text, OK)

check_status ==
  \/ /\ StatusOK(Text(got))
     /\ Continue("status", "date")
     /\ UNCHANGED <<reply, got, past>>
  \/ /\ ~StatusOK(Text(got))
     /\ Answer("status", RL_FALSE)
     /\ UNCHANGED tm

(* The tokens between the first "Date: " and the end of its line; <<>>     *)
(* stands for a field that is missing or cut off.                          *)
DateField(text) ==
  LET date == SelectInSeq(text, LAMBDA x : x = DATE)
      rest == SubSeq(text, date + 1, Len(text))
      line == SelectInSeq(rest, LAMBDA x : x = CRLF)
  IN  IF date = 0 \/ line = 0 THEN <<>> ELSE SubSeq(rest, 1, line)

Readable(field) == Len(field) = 2 /\ field[1] \in Dates

(* Without a whole field tm is left alone; then it is cleared, and strptime *)
(* fills it, or stops in the middle.                                       *)
read_date ==
  LET field == DateField(Text(got))
  IN  \/ field = <<>> /\ Answer("date", RL_FAILED) /\ UNCHANGED tm
      \/ /\ Readable(field)
         /\ Answer("date", RL_SUCCESS)
         /\ tm' = field[1]
      \/ /\ field # <<>> /\ ~Readable(field)
         /\ Answer("date", RL_FAILED)
         /\ tm' = "partial"

-----------------------------------------------------------------------------
(* The clocks                                                              *)

(* Mutant: every fourth year is a leap year. *)
Leap4(y) == y % 4 = 0

Leap(y) == (y % 4 = 0 /\ y % 100 # 0) \/ y % 400 = 0

days_in_month(y) == <<31, IF Leap(y) THEN 29 ELSE 28, 31, 30, 31, 30, 31, 31, 30, 31, 30, 31>>

Accepted(r) ==
  /\ r.year \in 1970 .. 2200
  /\ r.mon \in 1 .. 12
  /\ r.day \in 1 .. days_in_month(r.year)[r.mon]
  /\ r.hour <= 23 /\ r.min <= 59 /\ r.sec <= 59

rl_update_sys_time ==
  /\ Begin("update")
  /\ asked' \in Requests
  /\ cmds' = <<>>
  /\ \/ Accepted(asked') /\ tpc' = "set_clock" /\ UNCHANGED tret
     \/ ~Accepted(asked') /\ tret' = RL_FAILED /\ UNCHANGED tpc
  /\ UNCHANGED <<fdtab, exchange, tm, clock, rtc, tz>>

(* A command goes one of three ways; only one that is not started counts   *)
(* as a failure.                                                           *)
Command(from, to) ==
  \E c \in Outcomes :
    /\ tpc = from
    /\ cmds' = Append(cmds, c)
    /\ tpc' = IF c = "not started" THEN "idle" ELSE to
    /\ tret' = IF c = "not started" THEN RL_FAILED
               ELSE IF to = "idle" THEN RL_SUCCESS ELSE tret
    /\ UNCHANGED <<fdtab, tfn, exchange, tm, asked, tz, past>>

(* Mutant: the hardware clock is written first. *)
set_clock_last ==
  /\ Command("set_clock", "set_rtc")
  /\ rtc' = IF Last(cmds') = "ran" THEN clock ELSE rtc
  /\ clock' = IF Last(cmds') = "ran" THEN asked ELSE clock

(* date -u -s                                                              *)
set_clock ==
  /\ Command("set_clock", "set_rtc")
  /\ clock' = IF Last(cmds') = "ran" THEN asked ELSE clock
  /\ UNCHANGED rtc

(* hwclock -w                                                              *)
set_rtc ==
  /\ Command("set_rtc", "idle")
  /\ rtc' = IF Last(cmds') = "ran" THEN clock ELSE rtc
  /\ UNCHANGED clock

-----------------------------------------------------------------------------
(* The time zone and the local time                                        *)

(* setenv and tzset; an empty name and a failing setenv change nothing.    *)
rl_set_timezone ==
  /\ Begin("zone")
  /\ \/ \E z \in Zones : tz' = [env |-> z, libc |-> z] /\ tret' = RL_SUCCESS
     \/ tret' = RL_FAILED /\ UNCHANGED tz
  /\ UNCHANGED <<fdtab, tpc, exchange, tm, clocks>>

(* localtime_r uses the zone libc has read. time or localtime_r may fail.  *)
LocalTime(f, v) ==
  /\ Begin(f)
  /\ \/ tm' = tz.libc /\ tret' = v
     \/ tret' = RL_FAILED /\ UNCHANGED tm
  /\ UNCHANGED <<fdtab, tpc, exchange, clocks, tz>>

rl_get_time == LocalTime("time", RL_SUCCESS)

(* The value is a number of seconds, for which RL_TRUE stands here.        *)
rl_get_time_stamp == LocalTime("stamp", RL_TRUE)

-----------------------------------------------------------------------------
(* Calls that use the network, and calls that use the clocks.              *)
ExchangeCall == rl_get_time_from_server

ClockCall ==
  \/ rl_update_sys_time
  \/ rl_set_timezone
  \/ rl_get_time \/ rl_get_time_stamp

(* The steps that may wait for the server.                                 *)
TimeWait == connect_server \/ recv_piece \/ recv_end \/ recv_fails

ExchangeStep ==
  \/ prepare("rcvtimeo", "sndtimeo")
  \/ prepare("sndtimeo", "getaddrinfo")
  \/ prepare("getaddrinfo", "connect")
  \/ send_request
  \/ check_status \/ read_date \/ close_socket

ClockStep == set_clock \/ set_rtc

ExchangeNext == ExchangeCall \/ ExchangeStep \/ TimeWait
ClockNext    == ClockCall \/ ClockStep

-----------------------------------------------------------------------------
(* Properties                                                              *)

(* The exchange holds exactly its socket, and nothing after it.            *)
ExchangeDescriptors ==
  /\ {d \in Fds : fdtab[d] = "rltime"} = {tsock} \ {-1}
  /\ tpc = "idle" => tsock = -1

Returned(f) == tpc = "idle" /\ tfn = f

(* What the server says by its status line.                                *)
Is200 == Len(reply) >= 2 /\ reply[1] = HTTP /\ reply[2] = OK

(* A reply with the words "200 OK" nowhere but in its status line, and no  *)
(* date but in its head.                                                   *)
Tidy ==
  LET head == {i \in DOMAIN reply : \A j \in 1 .. i - 1 :
                 ~(reply[j] = CRLF /\ j + 1 < i /\ reply[j + 1] = CRLF)}
  IN  /\ \A i \in DOMAIN reply : reply[i] = OK => i = 2
      /\ {i \in DOMAIN reply : reply[i] = DATE} \subseteq head

(* What a reply of which the first n tokens have been read must come to.   *)
Verdict(n) ==
  LET field == DateField(Text(n))
  IN  IF n = 1 \/ ~Is200 THEN [ret |-> RL_FALSE, tm |-> past.tm]
      ELSE CASE Readable(field) -> [ret |-> RL_SUCCESS, tm |-> field[1]]
             [] field = <<>>    -> [ret |-> RL_FAILED,  tm |-> past.tm]
             [] OTHER           -> [ret |-> RL_FAILED,  tm |-> "partial"]

(* What a reply comes to when all of its head that fits has been read.      *)
Judgement ==
  LET whole == {n \in 1 .. Min({Len(reply), Cap}) :
                  n = Cap \/ \E i \in 1 .. n - 1 : reply[i] = CRLF /\ reply[i + 1] = CRLF}
  IN  IF whole = {} THEN [ret |-> RL_FALSE, tm |-> past.tm] ELSE Verdict(Min(whole))

(* "200 OK" has been received outside the status line.                     *)
Deceptive == \E i \in 1 .. got : reply[i] = OK /\ i # 2

(* For a tidy reply the answer and tm depend on the reply alone, not on    *)
(* the pieces in which it arrives: the head is recognised across any       *)
(* boundary, a head that does not fit is judged by what fits, and what is  *)
(* not a 200 is refused. Whatever fails and whatever comes, tm changes     *)
(* only to a date in what has been received, or to half a date with        *)
(* RL_FAILED: no date of another exchange appears as new. And it changes   *)
(* only for a 200, or for another reply with the words "200 OK" outside    *)
(* its status line, which rltime.c:222 takes for a 200: it searches all    *)
(* that was received, though the comment above says that the status code   *)
(* is checked.                                                             *)
ReplyDecides ==
  Returned("server") =>
    /\ reply # NoReply /\ ~past.fault /\ got > 0 /\ Tidy =>
         [ret |-> tret, tm |-> tm] = Judgement
    /\ tm # past.tm =>
         /\ Is200 \/ Deceptive
         /\ \/ tret = RL_SUCCESS /\ tm \in ToSet(Text(got))
            \/ tret = RL_FAILED /\ tm = "partial" /\ DateField(Text(got)) # <<>>

(* What the comment at rltime.c:221 says, and the code does not keep: only *)
(* a reply whose status is 200 is taken for the time.                      *)
OnlyFor200 == Returned("server") /\ tm # past.tm => Is200

(* RL_SUCCESS of an update whose commands ran: both clocks show the date   *)
(* asked for. After a failure the hardware clock is as it was, and the     *)
(* system time as it was or as asked. The hardware clock never gets a time *)
(* that the system clock does not have.                                    *)
UpdateOutcome ==
  Returned("update") =>
    /\ tret = RL_SUCCESS /\ cmds = <<"ran", "ran">> => clock = asked /\ rtc = asked
    /\ tret = RL_FAILED => rtc = past.rtc /\ clock \in {past.clock, asked}
    /\ rtc \in {past.rtc, clock}

(* The number of a day, counted from a common origin, and the date of a    *)
(* number: the Gregorian rule stated by its 400-year cycle, with the year  *)
(* beginning in March.                                                     *)
DayNumber(y, m, d) ==
  LET yy  == IF m <= 2 THEN y - 1 ELSE y
      yoe == yy % 400
      doy == (153 * ((m + 9) % 12) + 2) \div 5 + d - 1
  IN  (yy \div 400) * 146097 + yoe * 365 + yoe \div 4 - yoe \div 100 + doy

DateOf(n) ==
  LET doe == n % 146097
      yoe == (doe - doe \div 1460 + doe \div 36524 - doe \div 146096) \div 365
      doy == doe - (365 * yoe + yoe \div 4 - yoe \div 100)
      mp  == (5 * doy + 2) \div 153
      m   == IF mp < 10 THEN mp + 3 ELSE mp - 9
  IN  <<yoe + (n \div 146097) * 400 + (IF m <= 2 THEN 1 ELSE 0), m,
        doy - (153 * mp + 2) \div 5 + 1>>

(* A date is taken exactly when it exists (the day with its number has     *)
(* that date), between 1970 and 2200.                                      *)
CalendarExact ==
  tfn = "update" =>
    (tpc \in {"set_clock", "set_rtc"} \/ cmds # <<>>) <=>
      (/\ asked.year \in 1970 .. 2200
       /\ asked.mon \in 1 .. 12
       /\ DateOf(DayNumber(asked.year, asked.mon, asked.day))
            = <<asked.year, asked.mon, asked.day>>
       /\ asked.hour * 3600 + asked.min * 60 + asked.sec < 86400
       /\ asked.min < 60 /\ asked.sec < 60)

(* RL_SUCCESS from rl_get_time_from_server means that tm has the time of   *)
(* the server. The code does not keep this: its failures after connect     *)
(* answer RL_FALSE, which is the same number.                              *)
SuccessMeansServerTime ==
  Returned("server") /\ tret = RL_SUCCESS => got > 0 /\ tm \in ToSet(Text(got))

(* With a time limit an exchange ends, however slowly the server sends.    *)
ExchangeEnds == tpc # "idle" /\ tlimit ~> tpc = "idle"
=============================================================================
