------------------------------- MODULE Bizzbuzz -------------------------------
(***************************************************************************)
(* bizbuzz/bizzbuzz.c: in a text, numbers that 3 divides become "bizz",    *)
(* those that 5 divides "buzz".  A character is a digit or one of the      *)
(* others below; bizz and buzz count as one character each.                *)
(***************************************************************************)
EXTENDS Integers, Sequences

CONSTANTS Texts  \* the inputs
ASSUME BizzAssumption == Texts \subseteq Seq(-3..9)

VARIABLES input, output, transferred
bizzVars == <<input, output, transferred>>

Space == -1
Minus == -2
Letter == -3
Bizz == -4
Buzz == -5
IsDigit(c) == c \in 0..9
BizzInit(texts) == input \in texts /\ output = <<>> /\ transferred = FALSE
-----------------------------------------------------------------------------
(* Mutant: the sum of the digits is kept for the next word. *)
SumKept(s) == s.summa
SumAfter(s) == 0

(* One character: what is known of the word so far. *)
Look(s, c, i) ==
  [s EXCEPT !.flag = \/ @
                     \/ c # Space /\ ~IsDigit(c) /\ (c # Minus \/ i # s.last_sp + 1)
                     \/ c = Space /\ s.buf = Minus,
            !.summa = IF IsDigit(c) THEN (@ + c) % 3 ELSE @,
            !.word = IF c = Space THEN @ ELSE Append(@, c)]

(* A word that ends: what stands for it.  The code goes back in the file to    *)
(* copy a word that stays.                                                     *)
Replace(s) ==
  LET bizz == IF ~s.flag /\ s.summa = 0 THEN <<Bizz>> ELSE <<>>
      buzz == IF ~s.flag /\ s.buf % 5 = 0 THEN <<Buzz>> ELSE <<>>
      stays == s.flag \/ (buzz = <<>> /\ s.summa # 0)
  IN bizz \o buzz \o (IF stays THEN s.word ELSE <<>>)

Step(s, c, i) ==
  LET t == Look(s, c, i)
      ends == c = Space /\ s.word # <<>>
      n == IF ends THEN [t EXCEPT !.out = @ \o Replace(t), !.summa = SumAfter(t),
                                  !.flag = FALSE, !.word = <<>>]
           ELSE t
  IN [n EXCEPT !.buf = c, !.last_sp = IF c = Space THEN i ELSE @,
               !.out = IF c = Space THEN Append(@, c) ELSE @]

Start == [out |-> <<>>, word |-> <<>>, buf |-> 0, summa |-> 0, flag |-> FALSE, last_sp |-> -1]
Pass(text) == LET After[i \in 0..Len(text)] ==
                    IF i = 0 THEN Start ELSE Step(After[i - 1], text[i], i - 1)
              IN After[Len(text)].out

Transfer == ~transferred /\ output' = Pass(input) /\ transferred' = TRUE /\ UNCHANGED input
-----------------------------------------------------------------------------
BizzTypeOK == transferred \in BOOLEAN

(* What the text should become: each word that a space ends is replaced on its *)
(* own, by the value it has as a number.                                       *)
Digits(w) == IF w # <<>> /\ w[1] = Minus THEN Tail(w) ELSE w
IsNumber(w) == Digits(w) # <<>> /\ \A k \in DOMAIN Digits(w) : IsDigit(Digits(w)[k])
Value(ds) == LET V[k \in 0..Len(ds)] == IF k = 0 THEN 0 ELSE 10 * V[k - 1] + ds[k] IN V[Len(ds)]
Becomes(w) ==
  LET v == Value(Digits(w))
  IN IF w = <<>> THEN w
     ELSE IF ~IsNumber(w) \/ (v % 3 # 0 /\ v % 5 # 0) THEN w
     ELSE (IF v % 3 = 0 THEN <<Bizz>> ELSE <<>>) \o (IF v % 5 = 0 THEN <<Buzz>> ELSE <<>>)
Spaces(text) == {i \in DOMAIN text : text[i] = Space}
WordBefore(text, i) ==
  LET from == CHOOSE j \in 0..(i - 1) : /\ j = 0 \/ j \in Spaces(text)
                                        /\ \A k \in (j + 1)..(i - 1) : text[k] # Space
  IN SubSeq(text, from + 1, i - 1)
Reference(text) ==
  LET Upto[i \in 0..Len(text)] ==
        IF i = 0 THEN <<>>
        ELSE IF text[i] = Space THEN Upto[i - 1] \o Becomes(WordBefore(text, i)) \o <<Space>>
        ELSE Upto[i - 1]
  IN Upto[Len(text)]

(* One pass with a running sum of digits and the last digit does what division *)
(* does, word by word: nothing of a word is carried over to the next           *)
(* (bizzbuzz.c:21).                                                            *)
TransferIsReference == transferred => output = Reference(input)
==============================================================================
