------------------------------ MODULE MCRlHost ------------------------------
(* Small instances of RlHost for TLC. *)
EXTENDS RlHost

Iface(i, m) == [iface |-> i, mode |-> m]
Line(i, d)  == [iface |-> i, default |-> d]

(* None of eth0, one undecided, one after another card's, two that differ. *)
SmallInterfaces ==
  {<<Iface("other", "dhcp")>>,
   <<Iface("eth0", "manual")>>,
   <<Iface("other", "static"), Iface("eth0", "dhcp")>>,
   <<Iface("eth0", "manual"), Iface("eth0", "static"), Iface("eth0", "dhcp")>>}

(* No route; no default route of eth0; one after another card's.           *)
SmallRoutes ==
  {<<>>,
   <<Line("other", TRUE), Line("eth0", FALSE)>>,
   <<Line("other", TRUE), Line("eth0", FALSE), Line("eth0", TRUE)>>}

SomeRetries == {-1, 0, 2}

(* A head that fits, with a body; one that fills the buffer to the last    *)
(* token; one whose date is cut off; an error with the words of success in *)
(* its body; a date that cannot be read; one in the body; a head that ends *)
(* too soon.                                                               *)
SmallReplies ==
  {<<"HTTP/", "200 OK", CRLF, "Date: ", "d1", CRLF, CRLF, "x">>,
   <<"HTTP/", "200 OK", CRLF, "x", CRLF, "Date: ", "d2", CRLF, CRLF>>,
   <<"HTTP/", "200 OK", CRLF, "x", CRLF, "x", "Date: ", "d2", CRLF, CRLF>>,
   <<"HTTP/", "404", CRLF, "Date: ", "d1", CRLF, CRLF, "200 OK">>,
   <<"HTTP/", "200 OK", CRLF, "Date: ", "x", CRLF, CRLF>>,
   <<"HTTP/", "200 OK", CRLF, CRLF, "Date: ", "d1", CRLF, CRLF>>,
   <<"HTTP/", "200 OK", CRLF, "Date: ">>}

At(y, m, d, h, i, s) ==
  [year |-> y, mon |-> m, day |-> d, hour |-> h, min |-> i, sec |-> s]

(* Dates that exist, at the ends of the range and in leap years of three   *)
(* kinds, and dates just beyond each bound.                                *)
SomeRequests ==
  {At(1970, 1, 1, 0, 0, 0), At(2000, 2, 29, 23, 59, 59), At(2024, 2, 29, 0, 0, 0),
   At(2200, 12, 31, 23, 59, 59),
   At(1969, 12, 31, 23, 59, 59), At(2201, 1, 1, 0, 0, 0), At(2100, 2, 29, 0, 0, 0),
   At(2023, 2, 29, 0, 0, 0), At(2024, 2, 30, 0, 0, 0), At(2023, 4, 31, 0, 0, 0),
   At(2023, 0, 1, 0, 0, 0), At(2023, 13, 1, 0, 0, 0), At(2023, 1, 0, 0, 0, 0),
   At(2023, 12, 32, 0, 0, 0), At(2023, 5, 5, 24, 0, 0), At(2023, 5, 5, 0, 60, 0),
   At(2023, 5, 5, 0, 0, 60)}

(* "41", "-5", "9x" and "".                                                *)
SomeReadings ==
  {[text |-> <<52, 49, 10>>, value |-> 41],
   [text |-> <<45, 53, 10>>, value |-> -5],
   [text |-> <<57, 120, 10>>, value |-> RL_FAILED],
   [text |-> <<10>>, value |-> RL_FAILED]}

(* "/a", "/a/bc" and "/ab/a/b".                                            *)
SomeExes ==
  {<<47, 97>>, <<47, 97, 47, 98, 99>>, <<47, 97, 98, 47, 97, 47, 98>>}

SomeFiles == {<<98>>, <<97, 98>>}
SomeNames == {<<97, 97, 98>>}
=============================================================================
