-------------------------------- MODULE Texts --------------------------------
(***************************************************************************)
(* The few things the programs do with text.  A text is a sequence of        *)
(* characters; which ones there are is up to the modules that use it.        *)
(***************************************************************************)
EXTENDS Integers, Sequences, FiniteSets, SequencesExt

NL == "nl"      \* the line feed
Blank == " "
Minus == "-"
Digits == {"0", "1", "2", "3", "4", "5", "6", "7", "8", "9"}

\* An int that is not negative, as text.
Numerals == Seq(Digits) \ {<<>>}

\* The k-th smallest number of a set, counted from 0.
Nth(S, k) == CHOOSE i \in S : Cardinality({j \in S : j < i}) = k

\* A sequence without the elements equal to one value.
Without(seq, v) == FlattenSeq([i \in DOMAIN seq |-> IF seq[i] = v THEN <<>> ELSE <<seq[i]>>])

\* The pieces of a text between the separators, one more than there are of these.
Split(text, sep) ==
  LET pieces[n \in 0..Len(text)] ==
        IF n = 0 THEN << <<>> >>
        ELSE LET before == pieces[n - 1]
             IN IF text[n] = sep THEN Append(before, <<>>)
                ELSE [before EXCEPT ![Len(before)] = Append(@, text[n])]
  IN pieces[Len(text)]

\* The text from its first to its last character that is in a set.
Span(text, inside) ==
  LET at == {i \in DOMAIN text : text[i] \in inside}
  IN IF at = {} THEN <<>> ELSE SubSeq(text, Nth(at, 0), Nth(at, Cardinality(at) - 1))

Trim(text) == Span(text, {text[i] : i \in DOMAIN text} \ {Blank})

\* What std::stoi and std::stoll read of a text: after blanks, a sign or none and
\* digits.  Without a digit they throw; then this is the empty text.  A plus sign and
\* a number out of range are left out.
FirstDigit(t) == IF t # <<>> /\ t[1] = Minus THEN 2 ELSE 1

Number(text) ==
  LET t == Trim(text)
      from == FirstDigit(t)
      n == Nth({i \in from..(Len(t) + 1) : i = Len(t) + 1 \/ t[i] \notin Digits}, 0)
  IN IF n = from THEN <<>> ELSE SubSeq(t, 1, n - 1)

\* An int as text.
IsInteger(text) == text # <<>> /\ Number(text) = text

\* A time: its whole seconds, and what goes beyond them.
Times == [seconds : Numerals, rest : Nat]

InSeconds(time) == [time EXCEPT !.rest = 0]
=============================================================================
