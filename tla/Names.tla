------------------------------- MODULE Names -------------------------------
(***************************************************************************)
(* Subject names as the name policy and the name constraints read them.    *)
(*                                                                         *)
(* A domain is the sequence of the labels of its text, so "a.local" is     *)
(* <<"a", "local">>, ".local" is <<"", "local">> and "" is <<>>.  Labels   *)
(* stand for themselves: "*" is an asterisk, "*a" and "a*" contain one,    *)
(* " " holds a character that no domain may hold.  An address is a         *)
(* sequence of bits with its family, a network a prefix of one.            *)
(***************************************************************************)
EXTENDS Sequences, Naturals, FiniteSets, SequencesExt

Asterisks == {"*", "*a", "a*"}

(* strings.ToLower and strings.EqualFold on labels and local parts.        *)
Lower(l) ==
    CASE l = "LOCAL" -> "local"
      [] l = "John"  -> "john"
      [] OTHER       -> l

LowerAll(d) == [i \in DOMAIN d |-> Lower(d[i])]

EqualFold(d, e) == LowerAll(d) = LowerAll(e)

DNS(d)        == [type |-> "dns", labels |-> d]
IP(f, b)      == [type |-> "ip", family |-> f, bits |-> b]
Email(l, d)   == [type |-> "email", local |-> l, labels |-> d]
URI(form, d)  == [type |-> "uri", form |-> form, labels |-> d]

FoldName(n) ==
    CASE n.type = "ip"    -> n
      [] n.type = "email" -> [n EXCEPT !.local = Lower(@), !.labels = LowerAll(@)]
      [] OTHER            -> [n EXCEPT !.labels = LowerAll(@)]

=============================================================================
