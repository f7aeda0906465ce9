-------------------------------- MODULE TcpTargets --------------------------------
(***************************************************************************)
(* The key of a TCP connection: what connection_targets makes of the host  *)
(* and the port that are configured, and what parse_tcp_target, which      *)
(* opens the connection, reads in it (transport.py).  A text is a sequence *)
(* of marks (":", "[" and "]"), letters and digits.                        *)
(***************************************************************************)
EXTENDS Naturals, Sequences, SequencesExt

CONSTANTS
  DigitSet,     \* characters that are digits
  DefaultPort   \* DEFAULT_TCP_PORT, as text

Holds(text, char) == char \in ToSet(text)

\* The first and the last place of a character that the text holds.
FirstAt(text, char) == CHOOSE i \in DOMAIN text : text[i] = char /\ \A j \in 1..i - 1 : text[j] # char
LastAt(text, char) ==
  CHOOSE i \in DOMAIN text : text[i] = char /\ \A j \in i + 1..Len(text) : text[j] # char

Before(text, i) == SubSeq(text, 1, i - 1)
After(text, i) == SubSeq(text, i + 1, Len(text))

Bracketed(host) == host # << >> /\ Head(host) = "["

\* Mutant: brackets that are there already are not looked for.
BracketsTwice(host) == Holds(host, ":")

\* A bare IPv6 address gets brackets.
NeedsBrackets(host) == Holds(host, ":") /\ ~Bracketed(host)

\* connection_targets, after the tcp:// that parse_tcp_target takes off again.
TcpTarget(host, port) ==
  (IF NeedsBrackets(host) THEN <<"[">> \o host \o <<"]">> ELSE host) \o <<":">> \o port

\* What int() reads a port from.
IsPort(text) == text # << >> /\ ToSet(text) \subseteq DigitSet
Port(text) == IF IsPort(text) THEN text ELSE DefaultPort

\* lstrip("[").
WithoutBrackets(text) ==
  SubSeq(text, Min({i \in 1..Len(text) + 1 : i > Len(text) \/ text[i] # "["}), Len(text))

ParseBracketed(rest) ==
  LET inner == Tail(rest)
      at == FirstAt(inner, "]")
      after == After(inner, at)
  IN  CASE ~Holds(inner, "]") -> [host |-> WithoutBrackets(rest), port |-> DefaultPort]
        [] OTHER -> [host |-> Before(inner, at),
                     port |-> IF after # << >> /\ Head(after) = ":" THEN Port(Tail(after))
                                                                   ELSE DefaultPort]

ParsePlain(rest) ==
  IF Holds(rest, ":")
  THEN [host |-> Before(rest, LastAt(rest, ":")), port |-> Port(After(rest, LastAt(rest, ":")))]
  ELSE [host |-> rest, port |-> DefaultPort]

ParseTcpTarget(rest) == IF Bracketed(rest) THEN ParseBracketed(rest) ELSE ParsePlain(rest)
==================================================================================
