---------------------------- MODULE CommandLine ----------------------------
(***************************************************************************)
(* What a line means to a user of the shell: which words are programs, in  *)
(* what order they run, and where each one reads and writes.  The line is  *)
(* read as it stands, by the depth of its parentheses, without a tree.     *)
(***************************************************************************)
EXTENDS Integers, Sequences, FiniteSets

Symbols == {"<", ">", ">>", "|", "&", ";", "(", ")"}
Arrows == {"<", ">", ">>"}
Ends == {"|", "&", ";"}

Places(s) == DOMAIN s
Words(s) == {k \in Places(s) : s[k] \notin Symbols}
IsTarget(s, k) == k > 1 /\ s[k - 1] \in Arrows

\* How many parentheses are open around place k; a parenthesis is outside.
Depth(s, k) ==
  Cardinality({i \in 1..k - 1 : s[i] = "("})
    - Cardinality({i \in 1..k : s[i] = ")"})

\* The places next to k, at its depth d or inside of it, up to the seps.
Part(s, k, d, seps) ==
  {i \in Places(s) :
     \A m \in Places(s) :
       (i <= m /\ m <= k) \/ (k <= m /\ m <= i) =>
         Depth(s, m) >= d /\ ~(Depth(s, m) = d /\ s[m] \in seps)}
First(S) == CHOOSE k \in S : \A i \in S : k <= i
Last(S) == CHOOSE k \in S : \A i \in S : i <= k

\* The word that a command begins with, redirections apart.
Programs(s) ==
  {k \in Words(s) :
     LET own == Part(s, k, Depth(s, k), Ends) \cap Words(s) IN
     /\ ~IsTarget(s, k)
     /\ k = First({i \in own : ~IsTarget(s, i)})}

\* Whether s is a line at all, with fewer than max words in a command.
Grammatical(s, max) ==
  LET at(k) == IF k \in Places(s) THEN s[k] ELSE "" IN
  /\ \A k \in Places(s) : Depth(s, k) >= 0
  /\ Cardinality({k \in Places(s) : s[k] = "("})
       = Cardinality({k \in Places(s) : s[k] = ")"})
  /\ \A k \in Places(s) :
       /\ s[k] \in Arrows => k + 1 \in Words(s)
       /\ s[k] = "(" => at(k - 1) \in {"", "(", "|", ";"}
       /\ s[k] = ")" => at(k + 1) \in {"", ")"} \cup Ends \cup Arrows
       /\ s[k] = "&" => at(k + 1) \in {"", ")", "&", ";"}
       /\ k \in Words(s) /\ at(k - 1) \in Arrows =>
            \/ at(k + 1) \in {"", ")"} \cup Ends \cup Arrows
            \/ /\ k + 1 \in Words(s)
               /\ ")" \notin {s[i] : i \in {m \in Part(s, k, Depth(s, k), Ends) :
                                              m < k}}
  /\ \A k \in Programs(s) :
       Cardinality({i \in Part(s, k, Depth(s, k), Ends) \cap Words(s) :
                      ~IsTarget(s, i)}) < max

-----------------------------------------------------------------------------
(* Order.                                                                  *)

\* The program at j is left to itself by what follows at depth d.
Background(s, j, d) ==
  \E e \in d..Depth(s, j) : \E i \in Part(s, j, e, {";"}) :
    i > j /\ Depth(s, i) = e /\ s[i] = "&"

\* The program at j is over before place k is reached; the place after the
\* end of the line is the next prompt.
Before(s, j, k) ==
  LET over(d) == k > Len(s) \/ \E m \in j..k : Depth(s, m) = d /\ s[m] = ";"
      d == IF k > Len(s) THEN 0
           ELSE LET D == {Depth(s, m) : m \in j..k} IN First(D) IN
  j < k /\ over(d) /\ ~Background(s, j, d)

-----------------------------------------------------------------------------
(* Wires: <<"console", 0>>, <<"file", place of its name>>, or              *)
(* <<"pipe", place of the bar>>.                                           *)

Targets(s, k, d, arrows) ==
  {m \in Part(s, k, d, Ends) : Depth(s, m) = d /\ s[m] \in arrows}

\* The nearest of the commands around k that says, and in it the first
\* redirection, or else the bar next to it.
Wire(s, k, arrows, bar(_)) ==
  LET says(d) ==
        \/ Targets(s, k, d, arrows) # {}
        \/ bar(d) \in Places(s) /\ s[bar(d)] = "|"
      near == {d \in 0..Depth(s, k) : says(d)}
      d == Last(near) IN
  IF near = {} THEN <<"console", 0>>
  ELSE IF Targets(s, k, d, arrows) # {}
  THEN <<"file", First(Targets(s, k, d, arrows)) + 1>>
  ELSE <<"pipe", bar(d)>>

In(s, k) ==
  Wire(s, k, {"<"}, LAMBDA d : First(Part(s, k, d, Ends)) - 1)
Out(s, k) ==
  Wire(s, k, {">", ">>"}, LAMBDA d : Last(Part(s, k, d, Ends)) + 1)

=============================================================================
