------------------------------- MODULE RlStr -------------------------------
(***************************************************************************)
(* rlstr: C strings in memory. A piece of memory is a function from the    *)
(* offsets 0, 1, ... to character codes; the string in it ends at the      *)
(* first NUL. Each operation gives its value and the memory it leaves.     *)
(* A source string that is only read is a sequence of codes.               *)
(*                                                                         *)
(* NULL pointers are left out: they are refused like an empty string.      *)
(***************************************************************************)
EXTENDS RlPublic, FiniteSetsExt, Sequences

CONSTANT Wrap    (* the range of size_t                                    *)

ASSUME RlStrAssumption == Wrap \in Nat \ {0}

NUL     == 0
NEWLINE == 10
MINUS   == 45
DIGITS  == 48 .. 57

strlen(m) == Min({i \in DOMAIN m : m[i] = NUL})

(* The string in m.                                                        *)
Str(m) == [i \in 1 .. strlen(m) |-> m[i - 1]]

(* m after n codes have been moved from one offset to another.             *)
memmove(m, to, from, n) ==
  [i \in DOMAIN m |-> IF i \in to .. to + n - 1 THEN m[i - to + from] ELSE m[i]]

(* m after the codes of s and a NUL have been written at an offset.        *)
strcpy(m, to, s) ==
  [i \in DOMAIN m |-> IF i \in to .. to + Len(s) - 1 THEN s[i - to + 1]
                      ELSE IF i = to + Len(s) THEN NUL ELSE m[i]]

(* The offsets at which t stands in the string s; strstr takes the first.  *)
Occurrences(s, t) ==
  {p \in 0 .. Len(s) - Len(t) : SubSeq(s, p + 1, p + Len(t)) = t}

(* What follows the first t in s.                                          *)
After(s, t) == SubSeq(s, Min(Occurrences(s, t)) + Len(t) + 1, Len(s))

(* s cut off after n codes.                                                *)
Cut(s, n) == SubSeq(s, 1, Min({Len(s), n}))

Done(m)    == [ret |-> RL_SUCCESS, mem |-> m]
Refused(m) == [ret |-> RL_FAILED,  mem |-> m]

(* A call that writes outside what it has: nothing is known from there on. *)
UNDEFINED  == 2
Overrun(m) == [ret |-> UNDEFINED, mem |-> m]

(* Mutant: the size is taken for the greatest length. *)
rl_strcpy_s_full(m, dst_len, src) ==
  LET text == Cut(src, dst_len)
  IN  IF src = <<>> THEN Refused(m)
      ELSE IF Len(text) >= dst_len THEN Overrun(m)
      ELSE Done(strcpy(m, 0, text))

(* dst_len - 1 is unsigned: a size of 0 cuts nothing off.                  *)
rl_strcpy_s(m, dst_len, src) ==
  LET text == Cut(src, (dst_len - 1) % Wrap)
  IN  IF src = <<>> THEN Refused(m)
      ELSE IF Len(text) >= dst_len THEN Overrun(m)
      ELSE Done(strcpy(m, 0, text))

rl_str_rm_line(m) ==
  LET lines == {i \in 0 .. strlen(m) - 1 : m[i] = NEWLINE}
  IN  IF strlen(m) = 0 THEN Refused(m)
      ELSE Done(IF lines = {} THEN m ELSE [m EXCEPT ![Min(lines)] = NUL])

rl_str_insert_ch(m, pos, ch, max) ==
  IF max = 0 \/ strlen(m) >= max - 1 \/ pos > strlen(m) \/ pos >= max - 1
  THEN Refused(m)
  ELSE Done([memmove(m, pos + 1, pos, strlen(m) - pos + 1) EXCEPT ![pos] = ch])

rl_delete_char(m, pos) ==
  IF pos >= strlen(m) THEN Refused(m)
  ELSE Done(memmove(m, pos, pos + 1, strlen(m) - pos))

rl_remove_substr(m, target) ==
  LET found == Occurrences(Str(m), target)
  IN  IF strlen(m) = 0 \/ target = <<>> \/ found = {} THEN Refused(m)
      ELSE Done(memmove(m, Min(found), Min(found) + Len(target),
                        Len(After(Str(m), target)) + 1))

(* The text is put together in buffer[len] and copied back. The whole old  *)
(* string goes there first, whatever its length.                           *)
rl_replace_substr(m, target, replace, len) ==
  LET s     == Str(m)
      found == Occurrences(s, target)
      text  == SubSeq(s, 1, Min(found)) \o replace \o After(s, target)
  IN  IF s = <<>> \/ target = <<>> \/ replace = <<>> \/ found = {} THEN Refused(m)
      ELSE IF Len(text) + 1 > len THEN Refused(m)
      ELSE IF Len(s) + 1 > len THEN Overrun(m)
      ELSE Done(strcpy(m, 0, text))

rl_replace_char(m, target, replace, len) ==
  LET s     == Str(m)
      found == Occurrences(s, target)
      text  == SubSeq(s, 1, Min(found)) \o <<replace>> \o After(s, target)
  IN  IF s = <<>> \/ target = <<>> \/ found = {} THEN Refused(m)
      ELSE IF Len(text) + 1 > len THEN Refused(m)
      ELSE Done(strcpy(m, 0, text))

(* Mutant: a character at the very end counts as found. *)
rl_get_str_after_char_empty(m, src, ch, out_size) ==
  IF src = <<>> \/ out_size = 0 \/ Occurrences(src, <<ch>>) = {} THEN Refused(m)
  ELSE Done(strcpy(m, 0, Cut(After(src, <<ch>>), out_size - 1)))

(* snprintf cuts the text to what fits.                                    *)
rl_get_str_after_char(m, src, ch, out_size) ==
  IF src = <<>> \/ out_size = 0 \/ Occurrences(src, <<ch>>) = {} THEN Refused(m)
  ELSE IF After(src, <<ch>>) = <<>> THEN Refused(m)
  ELSE Done(strcpy(m, 0, Cut(After(src, <<ch>>), out_size - 1)))

(* A minus sign may stand first, but not alone.                            *)
rl_str_isdigit(s) ==
  IF s = <<>> THEN RL_FAILED
  ELSE IF /\ \A i \in DOMAIN s : s[i] \in DIGITS \/ (i = 1 /\ s[i] = MINUS)
          /\ s # <<MINUS>>
       THEN RL_TRUE ELSE RL_FALSE

(* atoi of a string that rl_str_isdigit accepts.                           *)
rl_str_atoi(s) ==
  LET value[i \in 0 .. Len(s)] ==
        IF i = 0 THEN 0
        ELSE IF s[i] = MINUS THEN 0 ELSE 10 * value[i - 1] + s[i] - 48
  IN  IF s = <<>> THEN RL_FAILED
      ELSE IF s[1] = MINUS THEN -value[Len(s)] ELSE value[Len(s)]
=============================================================================
