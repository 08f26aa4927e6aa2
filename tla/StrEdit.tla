------------------------------ MODULE StrEdit ------------------------------
(***************************************************************************)
(* A host that edits one array with the functions of rlstr, call after     *)
(* call, so that each works on the stale codes the earlier ones have left  *)
(* behind the terminator. Behind the array lies memory of somebody else.   *)
(***************************************************************************)
EXTENDS RlStr, SequencesExt

CONSTANTS
  Size,       (* sizeof the array                                          *)
  Chars,      (* the character codes                                       *)
  Sources,    (* strings passed as src, target and replace                 *)
  Lengths     (* sizes passed as dst_len, max, len and out_size            *)

ASSUME StrEditAssumption ==
  /\ Size \in 1 .. Wrap
  /\ Chars \subseteq Nat \ {NUL}
  /\ Sources \subseteq Seq(Chars)
  /\ Lengths \subseteq 0 .. Size

VARIABLES
  mem,     (* the array and two codes behind it                            *)
  call     (* the last call: fn, its arguments, mem before it, its answer  *)

editvars == <<mem, call>>

FOREIGN == 99

Offsets == 0 .. Size + 1

NoCall == [fn |-> "none", s |-> <<>>, t |-> <<>>, pos |-> 0, ch |-> NUL, len |-> Size,
           ret |-> RL_SUCCESS, was |-> mem]

EditInit ==
  /\ mem = [i \in Offsets |-> IF i < Size THEN NUL ELSE FOREIGN]
  /\ call = NoCall

(* The host has seen the answer.                                           *)
answered ==
  /\ call.fn # "none" /\ call.ret # UNDEFINED
  /\ call' = NoCall
  /\ UNCHANGED mem

(* Behind a call that overran, nothing is said of the host.                *)
undefined ==
  /\ call.ret = UNDEFINED
  /\ UNCHANGED editvars

(* The call c of the memory as it is, with what the operation makes of it. *)
Do(c, outcome) ==
  /\ call.fn = "none"
  /\ mem' = outcome.mem
  /\ call' = [c EXCEPT !.ret = outcome.ret]

copy == \E s \in Sources, n \in Lengths :
          Do([NoCall EXCEPT !.fn = "copy", !.s = s, !.len = n], rl_strcpy_s(mem, n, s))

remove_line == Do([NoCall EXCEPT !.fn = "line"], rl_str_rm_line(mem))

insert == \E p \in 0 .. Size, ch \in Chars, n \in Lengths :
            Do([NoCall EXCEPT !.fn = "insert", !.pos = p, !.ch = ch, !.len = n],
               rl_str_insert_ch(mem, p, ch, n))

delete == \E p \in 0 .. Size :
            Do([NoCall EXCEPT !.fn = "delete", !.pos = p], rl_delete_char(mem, p))

remove == \E t \in Sources :
            Do([NoCall EXCEPT !.fn = "remove", !.t = t], rl_remove_substr(mem, t))

replace_text ==
  \E t, s \in Sources, n \in Lengths :
    Do([NoCall EXCEPT !.fn = "replace", !.t = t, !.s = s, !.len = n],
       rl_replace_substr(mem, t, s, n))

replace_ch ==
  \E t \in Sources, ch \in Chars, n \in Lengths :
    Do([NoCall EXCEPT !.fn = "replace_char", !.t = t, !.ch = ch, !.len = n],
       rl_replace_char(mem, t, ch, n))

after_char ==
  \E s \in Sources, ch \in Chars, n \in Lengths :
    Do([NoCall EXCEPT !.fn = "after", !.s = s, !.ch = ch, !.len = n],
       rl_get_str_after_char(mem, s, ch, n))

EditNext ==
  \/ answered \/ undefined
  \/ copy \/ remove_line \/ insert \/ delete
  \/ remove \/ replace_text \/ replace_ch \/ after_char

EditSpec == EditInit /\ [][EditNext]_editvars

-----------------------------------------------------------------------------
(* Properties                                                              *)

(* What the call is meant to make of a text, as an operation on sequences  *)
(* that knows nothing of memory; None where there is nothing to make.      *)
None == <<NUL>>

Meant(c, text) ==
  LET Swap(r) == IF c.t # <<>> /\ r # <<>> /\ c.t \in SubSeqs(text)
                 THEN ReplaceFirstSubSeq(r, c.t, text) ELSE None
  IN CASE c.fn = "copy"    -> IF c.s = <<>> THEN None ELSE Cut(c.s, c.len - 1)
       [] c.fn = "line"    -> IF text = <<>> THEN None
                              ELSE Cut(text, SelectInSeq(text \o <<NEWLINE>>,
                                               LAMBDA x : x = NEWLINE) - 1)
       [] c.fn = "insert"  -> IF c.pos > Len(text) THEN None
                              ELSE InsertAt(text, c.pos + 1, c.ch)
       [] c.fn = "delete"  -> IF c.pos >= Len(text) THEN None
                              ELSE RemoveAt(text, c.pos + 1)
       [] c.fn = "remove"  -> IF c.t # <<>> /\ c.t \in SubSeqs(text)
                              THEN ReplaceFirstSubSeq(<<>>, c.t, text) ELSE None
       [] c.fn = "replace" -> Swap(c.s)
       [] c.fn = "replace_char" -> Swap(<<c.ch>>)
       [] c.fn = "after"   ->
            LET at == SelectInSeq(c.s, LAMBDA x : x = c.ch)
            IN  IF at \in {0, Len(c.s)} \/ c.len = 0 THEN None
                ELSE Cut(SubSeq(c.s, at + 1, Len(c.s)), c.len - 1)

(* Every call makes of the text exactly what it is meant to, when there is *)
(* something to make and it fits the size named; else it answers RL_FAILED *)
(* and leaves every code of the memory as it was. Of the calls that        *)
(* overrun, which InBounds names, nothing is claimed.                      *)
EditExact ==
  call.fn # "none" /\ call.ret # UNDEFINED =>
    LET made == Meant(call, Str(call.was))
    IN  IF made # None /\ Len(made) < call.len
        THEN call.ret = RL_SUCCESS /\ Str(mem) = made
        ELSE call.ret = RL_FAILED /\ mem = call.was

(* The calls that write outside what they have: a copy of anything into a  *)
(* size of 0 (rlstr.c:55), and a replacement which fits the size named     *)
(* when the old text does not (rlstr.c:231, 237).                          *)
Overruns(c) ==
  \/ c.fn = "copy" /\ c.len = 0 /\ c.s # <<>>
  \/ /\ c.fn = "replace"
     /\ Meant(c, Str(c.was)) # None
     /\ Len(Meant(c, Str(c.was))) < c.len /\ strlen(c.was) >= c.len

(* These two calls overrun and no others do. No other call writes past the *)
(* array, nor past the end of the old text and the size it was given; and  *)
(* the array keeps holding a string.                                       *)
InBounds ==
  /\ call.ret = UNDEFINED <=> Overruns(call)
  /\ call.ret # UNDEFINED =>
       /\ \A i \in Offsets : i >= Max({call.len, strlen(call.was) + 1}) => mem[i] = call.was[i]
       /\ \A i \in Offsets : i >= Size => mem[i] = FOREIGN
       /\ strlen(mem) < Size
=============================================================================
