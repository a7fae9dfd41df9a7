--------------------------- MODULE CommandProofs ----------------------------
(***************************************************************************)
(* For every set of calls and of servers: what the exit status and the     *)
(* JSON document of a command may be relied on for, that its queries name  *)
(* the columns there are, that a plan is read whatever it is wrapped in,   *)
(* and that what is said of a plan is true of the execution.  The first    *)
(* arguments are about what is left of a script, in four predicates that   *)
(* Tail preserves; the last are about rounding.                            *)
(***************************************************************************)
EXTENDS Command, SequenceTheorems, FiniteSetTheorems, WellFoundedInduction, TLAPS

Steps ==
  {"connect", "version", "extensions", "tables", "indexes", "measure", "index_stats",
   "stats_reset", "seq_scans", "settings", "databases", "relations", "holders", "sessions",
   "targets", "limits", "progress", "distribution", "current_database", "caveat_reset", "facts",
   "parse", "json", "finish"} \cup Output

\* What follows the findings in a script.
Late == {"caveat_reset", "caveat", "footer", "facts", "json", "finish"}

Avoids(s, A) == s \in Seq(Steps) /\ \A i \in 1..Len(s) : s[i] \notin A

Within(s, A) == s \in Seq(Steps) /\ \A i \in 1..Len(s) : s[i] \in A

\* The last step is "finish", and no other is.
EndsOnce(s) ==
  /\ s \in Seq(Steps) /\ Len(s) >= 1
  /\ s[Len(s)] = "finish"
  /\ \A i \in 1..Len(s) - 1 : s[i] # "finish"

\* Nothing to print, then the document and the end.
JsonTail(s) ==
  /\ s \in Seq(Steps) /\ Len(s) >= 2
  /\ s[Len(s)] = "finish" /\ s[Len(s) - 1] = "json"
  /\ \A i \in 1..Len(s) - 2 : s[i] \notin Output \cup {"json", "finish"}

\* The findings are still to be printed, and whatever finds is before that.
Talks(s) ==
  /\ s \in Seq(Steps)
  /\ \E k \in 1..Len(s) :
       /\ s[k] = "findings"
       /\ \A i \in 1..k - 1 : s[i] \notin {"findings", "json", "finish"}
       /\ \A i \in k + 1..Len(s) : s[i] \in Late

Measuring(s) == \E i \in 1..Len(s) : s[i] = "measure"

\* The version is still to be looked at, and nothing is found before that.
Gate(s) ==
  /\ s \in Seq(Steps)
  /\ \E k \in 1..Len(s) :
       /\ s[k] = "extensions"
       /\ \A i \in 1..k - 1 : s[i] \in {"connect", "version"}

-----------------------------------------------------------------------------
(* Concatenation and Tail *)

LEMMA Concat ==
  ASSUME NEW s \in Seq(Steps), NEW t \in Seq(Steps)
  PROVE  /\ s \o t \in Seq(Steps)
         /\ Len(s) \in Nat /\ Len(t) \in Nat
         /\ Len(s \o t) = Len(s) + Len(t)
         /\ \A i \in 1..Len(s) : (s \o t)[i] = s[i]
         /\ \A i \in 1..Len(t) : (s \o t)[Len(s) + i] = t[i]
         /\ \A i \in Len(s) + 1..Len(s) + Len(t) :
              i - Len(s) \in 1..Len(t) /\ (s \o t)[i] = t[i - Len(s)]
<1>1. Len(s) \in Nat /\ Len(t) \in Nat
  BY LenProperties
<1>2. /\ s \o t \in Seq(Steps) /\ Len(s \o t) = Len(s) + Len(t)
      /\ \A i \in 1..Len(s) + Len(t) : (s \o t)[i] = IF i <= Len(s) THEN s[i] ELSE t[i - Len(s)]
  BY ConcatProperties
<1> QED
  BY <1>1, <1>2

LEMMA AvoidsConcat ==
  ASSUME NEW s, NEW t, NEW A, Avoids(s, A), Avoids(t, A)
  PROVE  Avoids(s \o t, A)
BY Concat DEF Avoids

LEMMA WithinConcat ==
  ASSUME NEW s, NEW t, NEW A, Within(s, A), Within(t, A)
  PROVE  Within(s \o t, A)
BY Concat DEF Within

LEMMA EndsOnceConcat ==
  ASSUME NEW s, NEW t, Avoids(s, {"finish"}), EndsOnce(t)
  PROVE  EndsOnce(s \o t)
<1> USE DEF Avoids, EndsOnce
<1>1. (s \o t)[Len(s \o t)] = "finish"
  BY Concat
<1>2. ASSUME NEW i \in 1..Len(s \o t) - 1
      PROVE  (s \o t)[i] # "finish"
  <2>1. CASE i <= Len(s)
    BY <2>1, Concat
  <2>2. CASE i > Len(s)
    BY <2>2, Concat
  <2> QED
    BY <2>1, <2>2, Concat
<1> QED
  BY <1>1, <1>2, Concat

LEMMA JsonTailConcat ==
  ASSUME NEW s, NEW t, Avoids(s, Output \cup {"json", "finish"}), JsonTail(t)
  PROVE  JsonTail(s \o t)
<1> USE DEF Avoids, JsonTail
<1>1. (s \o t)[Len(s \o t)] = "finish" /\ (s \o t)[Len(s \o t) - 1] = "json"
  BY Concat
<1>2. ASSUME NEW i \in 1..Len(s \o t) - 2
      PROVE  (s \o t)[i] \notin Output \cup {"json", "finish"}
  <2>1. CASE i <= Len(s)
    BY <2>1, Concat
  <2>2. CASE i > Len(s)
    BY <2>2, Concat
  <2> QED
    BY <2>1, <2>2, Concat
<1> QED
  BY <1>1, <1>2, Concat

LEMMA TalksConcat ==
  ASSUME NEW s, NEW t, Avoids(s, {"findings", "json", "finish"}), Talks(t)
  PROVE  Talks(s \o t)
<1>1. PICK k \in 1..Len(t) :
        /\ t[k] = "findings"
        /\ \A i \in 1..k - 1 : t[i] \notin {"findings", "json", "finish"}
        /\ \A i \in k + 1..Len(t) : t[i] \in Late
  BY DEF Talks
<1>2. s \in Seq(Steps) /\ t \in Seq(Steps)
  BY DEF Avoids, Talks
<1> DEFINE m == Len(s) + k
<1>3. m \in 1..Len(s \o t) /\ (s \o t)[m] = "findings"
  BY <1>1, <1>2, Concat
<1>4. ASSUME NEW i \in 1..m - 1
      PROVE  (s \o t)[i] \notin {"findings", "json", "finish"}
  <2>1. CASE i <= Len(s)
    BY <2>1, <1>2, Concat DEF Avoids
  <2>2. CASE i > Len(s)
    BY <2>2, <1>1, <1>2, Concat
  <2> QED
    BY <2>1, <2>2, <1>2, Concat
<1>5. ASSUME NEW i \in m + 1..Len(s \o t)
      PROVE  (s \o t)[i] \in Late
  BY <1>1, <1>2, Concat
<1> QED
  BY <1>2, <1>3, <1>4, <1>5, Concat DEF Talks

LEMMA TalksThenLate ==
  ASSUME NEW s, NEW t, Talks(s), Within(t, Late)
  PROVE  Talks(s \o t)
<1>1. PICK k \in 1..Len(s) :
        /\ s[k] = "findings"
        /\ \A i \in 1..k - 1 : s[i] \notin {"findings", "json", "finish"}
        /\ \A i \in k + 1..Len(s) : s[i] \in Late
  BY DEF Talks
<1>2. s \in Seq(Steps) /\ t \in Seq(Steps)
  BY DEF Within, Talks
<1>3. ASSUME NEW i \in k + 1..Len(s \o t)
      PROVE  (s \o t)[i] \in Late
  <2>1. CASE i <= Len(s)
    BY <2>1, <1>1, <1>2, Concat
  <2>2. CASE i > Len(s)
    BY <2>2, <1>2, Concat DEF Within
  <2> QED
    BY <2>1, <2>2, <1>2, Concat
<1>4. /\ k \in 1..Len(s \o t) /\ (s \o t)[k] = "findings"
      /\ \A i \in 1..k - 1 : (s \o t)[i] \notin {"findings", "json", "finish"}
  BY <1>1, <1>2, Concat
<1> QED
  BY <1>2, <1>3, <1>4, Concat DEF Talks

LEMMA TailOf ==
  ASSUME NEW s \in Seq(Steps), Len(s) >= 1
  PROVE  /\ Head(s) = s[1] /\ Tail(s) \in Seq(Steps)
         /\ Len(s) \in Nat /\ Len(Tail(s)) = Len(s) - 1
         /\ \A i \in 1..Len(s) - 1 : Tail(s)[i] = s[i + 1]
         /\ \A i \in 2..Len(s) : i - 1 \in 1..Len(Tail(s)) /\ Tail(s)[i - 1] = s[i]
<1>1. s # << >> /\ Len(s) \in Nat
  BY LenProperties, EmptySeq
<1>2. /\ Tail(s) \in Seq(Steps) /\ Len(Tail(s)) = Len(s) - 1
      /\ \A i \in 1..Len(Tail(s)) : Tail(s)[i] = s[i + 1]
  BY <1>1, HeadTailProperties
<1>3. Head(s) = s[1]
  BY <1>1
<1> QED
  BY <1>1, <1>2, <1>3

LEMMA EndsOnceTail ==
  ASSUME NEW s, EndsOnce(s), Head(s) # "finish"
  PROVE  EndsOnce(Tail(s))
BY TailOf DEF EndsOnce

LEMMA WithinTail ==
  ASSUME NEW s, NEW A, Within(s, A), Len(s) >= 1
  PROVE  Within(Tail(s), A) /\ Head(s) \in A
BY TailOf DEF Within

LEMMA JsonTailTail ==
  ASSUME NEW s, JsonTail(s), Head(s) # "json"
  PROVE  JsonTail(Tail(s)) /\ Head(s) \notin Output \cup {"finish"}
<1>1. Len(s) > 2
  BY TailOf DEF JsonTail
<1> QED
  BY <1>1, TailOf DEF JsonTail

LEMMA JsonTailHead ==
  ASSUME NEW s, JsonTail(s), Head(s) = "json"
  PROVE  Within(Tail(s), {"finish"})
<1>1. s \in Seq(Steps) /\ Len(s) \in Nat /\ Len(s) >= 2
  BY LenProperties DEF JsonTail
<1>2. s[1] = "json"
  BY <1>1, TailOf
<1>3. ~(Len(s) > 2)
  <2> SUFFICES ASSUME Len(s) > 2 PROVE FALSE
    OBVIOUS
  <2>1. 1 \in 1..Len(s) - 2
    BY <1>1
  <2> QED
    BY <1>2, <2>1 DEF JsonTail
<1>4. Len(s) = 2
  <2>1. \A n \in Nat : n >= 2 /\ ~(n > 2) => n = 2
    OBVIOUS
  <2> QED
    BY <1>1, <1>3, <2>1
<1>5. Len(Tail(s)) = 1 /\ Tail(s) \in Seq(Steps) /\ Tail(s)[1] = s[2]
  <2>1. Len(Tail(s)) = Len(s) - 1 /\ Tail(s) \in Seq(Steps)
        /\ \A i \in 1..Len(s) - 1 : Tail(s)[i] = s[i + 1]
    BY <1>1, TailOf
  <2>2. 1 \in 1..Len(s) - 1 /\ Len(s) - 1 = 1 /\ 1 + 1 = 2
    BY <1>4
  <2> QED
    BY <2>1, <2>2
<1> QED
  BY <1>4, <1>5 DEF JsonTail, Within

LEMMA TalksTail ==
  ASSUME NEW s, Talks(s), Head(s) # "findings"
  PROVE  Talks(Tail(s)) /\ Head(s) \notin {"json", "finish"}
<1>1. PICK k \in 1..Len(s) :
        /\ s[k] = "findings"
        /\ \A i \in 1..k - 1 : s[i] \notin {"findings", "json", "finish"}
        /\ \A i \in k + 1..Len(s) : s[i] \in Late
  BY DEF Talks
<1>2. s \in Seq(Steps) /\ Len(s) >= 1
  BY <1>1, LenProperties DEF Talks
<1>3. k > 1 /\ Head(s) \notin {"json", "finish"}
  BY <1>1, <1>2, TailOf
<1>4. /\ k - 1 \in 1..Len(Tail(s)) /\ Tail(s)[k - 1] = "findings"
      /\ \A i \in 1..(k - 1) - 1 : Tail(s)[i] \notin {"findings", "json", "finish"}
      /\ \A i \in (k - 1) + 1..Len(Tail(s)) : Tail(s)[i] \in Late
  BY <1>1, <1>2, <1>3, TailOf
<1> QED
  BY <1>2, <1>3, <1>4, TailOf DEF Talks

LEMMA TalksHead ==
  ASSUME NEW s, Talks(s), Head(s) = "findings"
  PROVE  Within(Tail(s), Late)
<1>1. PICK k \in 1..Len(s) :
        /\ s[k] = "findings"
        /\ \A i \in 1..k - 1 : s[i] \notin {"findings", "json", "finish"}
        /\ \A i \in k + 1..Len(s) : s[i] \in Late
  BY DEF Talks
<1>2. s \in Seq(Steps) /\ Len(s) >= 1
  BY <1>1, LenProperties DEF Talks
<1>3. k = 1
  BY <1>1, <1>2, TailOf
<1> QED
  BY <1>1, <1>2, <1>3, TailOf DEF Within

LEMMA MeasuringTail ==
  ASSUME NEW s \in Seq(Steps), Measuring(s), Head(s) # "measure"
  PROVE  Measuring(Tail(s))
<1>1. PICK k \in 1..Len(s) : s[k] = "measure"
  BY DEF Measuring
<1>2. Len(s) >= 1
  BY <1>1, LenProperties
<1>3. k \in 2..Len(s)
  BY <1>1, <1>2, TailOf
<1> QED
  BY <1>1, <1>2, <1>3, TailOf DEF Measuring

LEMMA MeasuringConcat ==
  ASSUME NEW s \in Seq(Steps), NEW t \in Seq(Steps), Measuring(s) \/ Measuring(t)
  PROVE  Measuring(s \o t)
<1>1. CASE Measuring(s)
  BY <1>1, Concat DEF Measuring
<1>2. CASE Measuring(t)
  <2>1. PICK k \in 1..Len(t) : t[k] = "measure"
    BY <1>2 DEF Measuring
  <2>2. Len(s) + k \in 1..Len(s \o t) /\ (s \o t)[Len(s) + k] = "measure"
    BY <2>1, Concat
  <2> QED
    BY <2>2 DEF Measuring
<1> QED
  BY <1>1, <1>2

LEMMA GateConcat ==
  ASSUME NEW s, NEW t \in Seq(Steps), Gate(s)
  PROVE  Gate(s \o t)
<1>1. s \in Seq(Steps)
  BY DEF Gate
<1>2. PICK k \in 1..Len(s) :
        s[k] = "extensions" /\ \A i \in 1..k - 1 : s[i] \in {"connect", "version"}
  BY DEF Gate
<1>3. /\ k \in 1..Len(s \o t) /\ (s \o t)[k] = "extensions"
      /\ \A i \in 1..k - 1 : (s \o t)[i] \in {"connect", "version"}
  BY <1>1, <1>2, Concat
<1> QED
  BY <1>1, <1>3, Concat DEF Gate

LEMMA GateTail ==
  ASSUME NEW s, Gate(s), Head(s) # "extensions"
  PROVE  Gate(Tail(s)) /\ Head(s) \in {"connect", "version"}
<1>1. PICK k \in 1..Len(s) :
        s[k] = "extensions" /\ \A i \in 1..k - 1 : s[i] \in {"connect", "version"}
  BY DEF Gate
<1>2. s \in Seq(Steps) /\ Len(s) >= 1
  BY <1>1, LenProperties DEF Gate
<1>3. k > 1 /\ Head(s) \in {"connect", "version"}
  BY <1>1, <1>2, TailOf
<1>4. /\ k - 1 \in 1..Len(Tail(s)) /\ Tail(s)[k - 1] = "extensions"
      /\ \A i \in 1..(k - 1) - 1 : Tail(s)[i] \in {"connect", "version"}
  BY <1>1, <1>2, <1>3, TailOf
<1> QED
  BY <1>2, <1>3, <1>4, TailOf DEF Gate

-----------------------------------------------------------------------------
(* The six scripts *)

LEMMA Literals ==
  /\ Avoids(Connecting, Output \cup {"parse", "json", "finish"}) /\ Gate(Connecting)
  /\ JsonTail(Finishing) /\ EndsOnce(Finishing) /\ Within(Finishing, Late)
  /\ Finishing \in Seq(Steps)
<1> USE DEF Steps, Output, Connecting, Finishing
<1>1. Connecting \in Seq(Steps) /\ Finishing \in Seq(Steps)
  OBVIOUS
<1>2. Avoids(Connecting, Output \cup {"parse", "json", "finish"})
  BY <1>1 DEF Avoids
<1>3. Gate(Connecting)
  <2>1. 3 \in 1..Len(Connecting) /\ Connecting[3] = "extensions"
        /\ \A i \in 1..3 - 1 : Connecting[i] \in {"connect", "version"}
    OBVIOUS
  <2> QED
    BY <1>1, <2>1 DEF Gate
<1>4. JsonTail(Finishing) /\ EndsOnce(Finishing) /\ Within(Finishing, Late)
  BY <1>1 DEF JsonTail, EndsOnce, Within, Late
<1> QED
  BY <1>1, <1>2, <1>3, <1>4

\* Fits(s, c): what the invariants need of the script of a call.
Fits(s, c) ==
  /\ EndsOnce(s)
  /\ c.json => JsonTail(s)
  /\ ~c.json => Talks(s)
  /\ c.exact => Measuring(s)
  /\ c.sub # "plan" => Gate(s)

Checks == Output \cup {"parse", "json", "finish"}

\* What every script is made of: the checks, then with text what is printed of them.
LEMMA ServerScript ==
  ASSUME NEW c, c.json \in BOOLEAN, NEW checks, NEW text,
         Avoids(checks, Checks), Avoids(text, {"parse", "json", "finish"}), Talks(text),
         c.exact \in BOOLEAN, c.exact => Measuring(checks)
  PROVE  Fits(Connecting \o (checks \o IfText(c, text)) \o Finishing, c)
<1> DEFINE body == checks \o IfText(c, text)
           s == Connecting \o body \o Finishing
<1> USE Literals
<1>1. /\ checks \in Seq(Steps) /\ text \in Seq(Steps) /\ IfText(c, text) \in Seq(Steps)
      /\ Connecting \in Seq(Steps)
  <2>1. << >> \in Seq(Steps)
    OBVIOUS
  <2> QED
    BY <2>1 DEF Avoids, IfText
<1>2. body \in Seq(Steps) /\ Connecting \o body \in Seq(Steps)
  BY <1>1, Concat
<1>3. Avoids(IfText(c, text), {"finish"})
  BY <1>1 DEF Avoids, IfText
<1>4. Avoids(checks, {"finish"}) /\ Avoids(Connecting, {"finish"})
  BY DEF Avoids, Checks
<1>5. Avoids(Connecting \o body, {"finish"})
  <2> HIDE DEF body
  <2>1. Avoids(body, {"finish"})
    BY <1>3, <1>4, AvoidsConcat DEF body
  <2> QED
    BY <1>4, <2>1, AvoidsConcat
<1>6. EndsOnce(s)
  BY <1>5, EndsOnceConcat
<1>7. Gate(s)
  <2>1. Gate(Connecting \o body)
    BY <1>2, GateConcat
  <2> QED
    BY <2>1, GateConcat
<1>8. ASSUME c.json PROVE JsonTail(s)
  <2> DEFINE A == Output \cup {"json", "finish"}
  <2>1. Avoids(checks, A) /\ Avoids(Connecting, A)
    BY DEF Avoids, Checks
  <2>2. Avoids(IfText(c, text), A)
    BY <1>8, <1>1 DEF Avoids, IfText
  <2> HIDE DEF A
  <2>3. Avoids(body, A)
    BY <2>1, <2>2, AvoidsConcat
  <2>4. Avoids(Connecting \o body, A)
    BY <2>1, <2>3, AvoidsConcat
  <2> QED
    BY <2>4, JsonTailConcat DEF A
<1>9. ASSUME ~c.json PROVE Talks(s)
  <2> DEFINE A == {"findings", "json", "finish"}
  <2>1. "findings" \in Output
    BY DEF Output
  <2>2. Avoids(checks, A) /\ Avoids(Connecting, A)
    BY <2>1 DEF Avoids, Checks
  <2>3. Talks(body)
    BY <1>9, <2>2, TalksConcat DEF IfText
  <2>4. Talks(Connecting \o body)
    BY <2>2, <2>3, TalksConcat
  <2> QED
    BY <2>4, TalksThenLate
<1>10. ASSUME Measuring(checks) PROVE Measuring(s)
  <2>1. Measuring(body)
    BY <1>1, <1>10, MeasuringConcat
  <2>2. Measuring(Connecting \o body)
    BY <1>1, <1>2, <2>1, MeasuringConcat
  <2> QED
    BY <1>2, <2>2, MeasuringConcat
<1> QED
  BY <1>6, <1>7, <1>8, <1>9, <1>10 DEF Fits

LEMMA PlanScript ==
  ASSUME NEW c, c.json \in BOOLEAN
  PROVE  LET s == Plan(c) \o <<"json", "finish">>
         IN /\ EndsOnce(s)
            /\ c.json => JsonTail(s)
            /\ ~c.json => Talks(s)
<1> DEFINE parse == <<"parse">>
           text == <<"headline", "findings">>
           end == <<"json", "finish">>
           none == << >>
<1>1. /\ parse \in Seq(Steps) /\ text \in Seq(Steps) /\ end \in Seq(Steps)
      /\ none \in Seq(Steps)
  BY DEF Steps, Output
<1>2. Avoids(parse, Output \cup {"json", "finish"}) /\ Avoids(none, Output \cup {"json", "finish"})
  BY <1>1 DEF Avoids, Output
<1>3. Avoids(parse, {"finish"}) /\ Avoids(none, {"finish"}) /\ Avoids(text, {"finish"})
  BY <1>1 DEF Avoids
<1>4. Avoids(parse, {"findings", "json", "finish"})
  BY <1>1 DEF Avoids
<1>5. Talks(text)
  <2>1. 2 \in 1..Len(text) /\ text[2] = "findings"
        /\ (\A i \in 1..2 - 1 : text[i] \notin {"findings", "json", "finish"})
        /\ \A i \in 2 + 1..Len(text) : text[i] \in Late
    OBVIOUS
  <2> HIDE DEF text
  <2> QED
    BY <1>1, <2>1 DEF Talks
<1>6. EndsOnce(end) /\ JsonTail(end) /\ Within(end, Late)
  BY <1>1 DEF EndsOnce, JsonTail, Within, Late
<1> HIDE DEF parse, text, end, none
<1>7. ASSUME c.json PROVE EndsOnce((parse \o none) \o end) /\ JsonTail((parse \o none) \o end)
  BY <1>2, <1>3, <1>6, AvoidsConcat, EndsOnceConcat, JsonTailConcat
<1>8. ASSUME ~c.json PROVE EndsOnce((parse \o text) \o end) /\ Talks((parse \o text) \o end)
  BY <1>3, <1>4, <1>5, <1>6, AvoidsConcat, EndsOnceConcat, TalksConcat, TalksThenLate
<1> QED
  BY <1>7, <1>8 DEF Plan, IfText, parse, text, end, none

LEMMA AnalysesAvoid ==
  /\ Avoids(<<"tables", "indexes">>, Checks) /\ Avoids(<<"measure">>, Checks)
  /\ Avoids(<< >>, Checks) /\ Avoids(AnalyzeIndexes, Checks) /\ Avoids(AnalyzeVacuum, Checks)
  /\ Avoids(AnalyzeLocks, Checks) /\ Avoids(<<"progress">>, Checks)
  /\ Avoids(<<"distribution">>, Checks)
<1> USE DEF Avoids, Steps, Output, Checks
<1>1. Avoids(<<"tables", "indexes">>, Checks)
  OBVIOUS
<1>2. Avoids(<<"measure">>, Checks)
  OBVIOUS
<1>3. Avoids(<< >>, Checks)
  OBVIOUS
<1>4. Avoids(AnalyzeIndexes, Checks)
  BY DEF AnalyzeIndexes
<1>5. Avoids(AnalyzeVacuum, Checks)
  BY DEF AnalyzeVacuum
<1>6. Avoids(AnalyzeLocks, Checks)
  BY DEF AnalyzeLocks
<1>7. Avoids(<<"progress">>, Checks)
  OBVIOUS
<1>8. Avoids(<<"distribution">>, Checks)
  OBVIOUS
<1> HIDE DEF Avoids
<1> QED
  BY <1>1, <1>2, <1>3, <1>4, <1>5, <1>6, <1>7, <1>8

LEMMA BloatChecks ==
  /\ \A exact \in BOOLEAN : Avoids(AnalyzeBloat(exact), Checks)
  /\ Measuring(AnalyzeBloat(TRUE))
<1> DEFINE two == <<"tables", "indexes">>
           one == <<"measure">>
           none == << >>
<1>1. Avoids(two, Checks) /\ Avoids(one, Checks) /\ Avoids(none, Checks)
  BY AnalysesAvoid
<1>2. Measuring(one)
  BY DEF Measuring
<1>3. two \in Seq(Steps) /\ one \in Seq(Steps)
  BY <1>1 DEF Avoids
<1> HIDE DEF two, one, none
<1>4. Avoids(two \o one, Checks) /\ Avoids(two \o none, Checks)
  BY <1>1, AvoidsConcat
<1>5. Measuring(two \o one)
  BY <1>2, <1>3, MeasuringConcat
<1> QED
  BY <1>4, <1>5 DEF AnalyzeBloat, two, one, none

LEMMA Texts ==
  ASSUME NEW t \in {<<"current_database", "headline", "bloat_table", "findings">>,
                    <<"findings", "caveat_reset", "caveat">>,
                    <<"headline", "progress_table", "findings">>,
                    <<"forest", "connections", "findings">>,
                    <<"current_database", "headline", "bloat_table", "findings", "footer">>}
  PROVE  Avoids(t, {"parse", "json", "finish"}) /\ Talks(t)
<1>1. t \in Seq(Steps)
  <2>1. <<"current_database", "headline", "bloat_table", "findings">> \in Seq(Steps)
    BY DEF Steps, Output
  <2>2. <<"findings", "caveat_reset", "caveat">> \in Seq(Steps)
    BY DEF Steps, Output
  <2>3. <<"headline", "progress_table", "findings">> \in Seq(Steps)
    BY DEF Steps, Output
  <2>4. <<"forest", "connections", "findings">> \in Seq(Steps)
    BY DEF Steps, Output
  <2>5. <<"current_database", "headline", "bloat_table", "findings", "footer">> \in Seq(Steps)
    BY DEF Steps, Output
  <2> QED
    BY <2>1, <2>2, <2>3, <2>4, <2>5
<1>2. Avoids(t, {"parse", "json", "finish"})
  BY <1>1 DEF Avoids
<1>3. ASSUME NEW k \in 1..Len(t), t[k] = "findings",
             \A i \in 1..k - 1 : t[i] \notin {"findings", "json", "finish"},
             \A i \in k + 1..Len(t) : t[i] \in Late
      PROVE  Talks(t)
  BY <1>1, <1>3 DEF Talks
<1>4. CASE t = <<"current_database", "headline", "bloat_table", "findings">>
  <2>1. 4 \in 1..Len(t) /\ t[4] = "findings"
        /\ (\A i \in 1..4 - 1 : t[i] \notin {"findings", "json", "finish"})
        /\ \A i \in 4 + 1..Len(t) : t[i] \in Late
    BY <1>4 DEF Late
  <2> QED
    BY <2>1, <1>2, <1>3
<1>5. CASE t = <<"findings", "caveat_reset", "caveat">>
  <2>1. 1 \in 1..Len(t) /\ t[1] = "findings"
        /\ (\A i \in 1..1 - 1 : t[i] \notin {"findings", "json", "finish"})
        /\ \A i \in 1 + 1..Len(t) : t[i] \in Late
    BY <1>5 DEF Late
  <2> QED
    BY <2>1, <1>2, <1>3
<1>6. CASE t = <<"headline", "progress_table", "findings">>
           \/ t = <<"forest", "connections", "findings">>
  <2>1. 3 \in 1..Len(t) /\ t[3] = "findings"
        /\ (\A i \in 1..3 - 1 : t[i] \notin {"findings", "json", "finish"})
        /\ \A i \in 3 + 1..Len(t) : t[i] \in Late
    BY <1>6 DEF Late
  <2> QED
    BY <2>1, <1>2, <1>3
<1>7. CASE t = <<"current_database", "headline", "bloat_table", "findings", "footer">>
  <2>1. 4 \in 1..Len(t) /\ t[4] = "findings"
        /\ (\A i \in 1..4 - 1 : t[i] \notin {"findings", "json", "finish"})
        /\ \A i \in 4 + 1..Len(t) : t[i] \in Late
    BY <1>7 DEF Late
  <2> QED
    BY <2>1, <1>2, <1>3
<1> QED
  BY <1>2, <1>4, <1>5, <1>6, <1>7

LEMMA ScriptFits ==
  ASSUME NEW c \in Calls
  PROVE  Fits(Script(c), c)
<1>1. /\ c.json \in BOOLEAN /\ c.exact \in BOOLEAN /\ c.sub \in Commands
      /\ c.exact => c.sub = "bloat"
  BY CallsAssumption
<1>2. CASE c.sub = "bloat"
  <2> DEFINE text == <<"current_database", "headline", "bloat_table", "findings">>
  <2>1. Avoids(text, {"parse", "json", "finish"}) /\ Talks(text)
    BY Texts
  <2>2. Avoids(AnalyzeBloat(c.exact), Checks)
        /\ (c.exact => Measuring(AnalyzeBloat(c.exact)))
    BY <1>1, BloatChecks
  <2>3. Script(c) = Connecting \o (AnalyzeBloat(c.exact) \o IfText(c, text)) \o Finishing
    BY <1>2 DEF Script, Bloat
  <2> HIDE DEF text
  <2> QED
    BY <1>1, <1>2, <2>1, <2>2, <2>3, ServerScript
<1>3. CASE c.sub = "indexes"
  <2> DEFINE text == <<"findings", "caveat_reset", "caveat">>
  <2>1. Avoids(text, {"parse", "json", "finish"}) /\ Talks(text)
    BY Texts
  <2>2. Script(c) = Connecting \o (AnalyzeIndexes \o IfText(c, text)) \o Finishing
    BY <1>3 DEF Script, Indexes
  <2> HIDE DEF text
  <2> QED
    BY <1>1, <1>3, <2>1, <2>2, AnalysesAvoid, ServerScript
<1>4. CASE c.sub = "plan"
  <2>1. Script(c) = Plan(c) \o <<"json", "finish">>
    BY <1>4 DEF Script
  <2> QED
    BY <1>1, <1>4, <2>1, PlanScript DEF Fits
<1>5. CASE c.sub = "vacuum"
  <2> DEFINE text == <<"headline", "progress_table", "findings">>
             checks == AnalyzeVacuum \o <<"progress">>
  <2>1. Avoids(text, {"parse", "json", "finish"}) /\ Talks(text)
    BY Texts
  <2>2. Avoids(checks, Checks)
    BY AnalysesAvoid, AvoidsConcat
  <2>3. Script(c) = Connecting \o (checks \o IfText(c, text)) \o Finishing
    BY <1>5 DEF Script, Vacuum
  <2> HIDE DEF text, checks
  <2> QED
    BY <1>1, <1>5, <2>1, <2>2, <2>3, ServerScript
<1>6. CASE c.sub = "locks"
  <2> DEFINE text == <<"forest", "connections", "findings">>
             checks == AnalyzeLocks \o <<"distribution">>
  <2>1. Avoids(text, {"parse", "json", "finish"}) /\ Talks(text)
    BY Texts
  <2>2. Avoids(checks, Checks)
    BY AnalysesAvoid, AvoidsConcat
  <2>3. Script(c) = Connecting \o (checks \o IfText(c, text)) \o Finishing
    BY <1>6 DEF Script, Locks
  <2> HIDE DEF text, checks
  <2> QED
    BY <1>1, <1>6, <2>1, <2>2, <2>3, ServerScript
<1>7. CASE c.sub = "report"
  <2> DEFINE text == <<"current_database", "headline", "bloat_table", "findings", "footer">>
             checks == AnalyzeBloat(FALSE) \o AnalyzeIndexes \o AnalyzeVacuum \o AnalyzeLocks
  <2>1. Avoids(text, {"parse", "json", "finish"}) /\ Talks(text)
    BY Texts
  <2>2. Avoids(checks, Checks)
    BY AnalysesAvoid, AvoidsConcat, BloatChecks
  <2>3. Script(c) = Connecting \o (checks \o IfText(c, text)) \o Finishing
    BY <1>7 DEF Script, Report
  <2> HIDE DEF text, checks
  <2> QED
    BY <1>1, <1>7, <2>1, <2>2, <2>3, ServerScript
<1> QED
  BY <1>1, <1>2, <1>3, <1>4, <1>5, <1>6, <1>7 DEF Commands

-----------------------------------------------------------------------------
(* What may be found *)

LEMMA LevelsAre ==
  ASSUME NEW c, NEW step
  PROVE  /\ Levels(c, step) \subseteq Severities
         /\ step \in Late \cup {"connect", "version", "extensions"} => Levels(c, step) = {}
<1>1. Notice..Critical \subseteq Severities /\ Warning..Critical \subseteq Severities
      /\ Notice \in Severities /\ Critical \in Severities
  BY DEF Severities, Info, Notice, Warning, Critical
<1>2. Levels(c, step) \in {Notice..Critical, {Notice}, {Critical}, Warning..Critical, {}}
  BY DEF Levels
<1>3. ASSUME step \in Late \cup {"connect", "version", "extensions"}
      PROVE  Levels(c, step) = {}
  BY <1>3 DEF Levels, Late
<1> QED
  BY <1>1, <1>2, <1>3

LEMMA PlanLevelsAre ==
  ASSUME NEW plan
  PROVE  \A f \in AnalyzePlan(plan) : f.severity \in Severities
<1>1. Notice \in Severities /\ Warning \in Severities /\ Critical \in Severities
  BY DEF Severities, Info, Notice, Warning, Critical
<1> USE DEF Finding
<1>2. \A f \in MisestimateFindings(plan) : f.severity \in {Warning, Critical}
  BY DEF MisestimateFindings
<1>3. \A f \in NestedLoopFindings(plan) : f.severity \in {Warning, Critical}
  BY DEF NestedLoopFindings
<1>4. \A f \in SortFindings(plan) : f.severity = Warning
  BY DEF SortFindings
<1>5. \A f \in HashSpillFindings(plan) : f.severity \in {Notice, Warning}
  BY DEF HashSpillFindings
<1>6. ASSUME NEW f \in HeapFetchFindings(plan)
      PROVE  f.severity \in {Notice, Warning}
  <2>1. PICK p : f = Finding("plan.heap_fetches",
                             IF 10 * plan[p].fetches >= Larger(TotalRows(plan[p]), 1)
                             THEN Warning ELSE Notice, p, "vacuum")
    BY Zenon DEF HeapFetchFindings
  <2> QED
    BY <2>1
<1>7. \A f \in FilterFindings(plan) : f.severity = Notice
  BY DEF FilterFindings
<1> QED
  BY <1>1, <1>2, <1>3, <1>4, <1>5, <1>6, <1>7 DEF AnalyzePlan

\* The version that is compared and the number a server gives are two views of one.
LEMMA ReleaseOf ==
  ASSUME NEW num \in Nat
  PROVE  /\ Unsupported(num) <=> num < 130000
         /\ \A major \in 13..16 : FromNum(num)[1] >= major <=> num >= 10000 * major
<1>1. FromNum(num)[1] = num \div 10000
  BY DEF FromNum
<1>2. /\ num \div 10000 < 13 <=> num < 130000
      /\ num \div 10000 >= 13 <=> num >= 130000
      /\ num \div 10000 >= 14 <=> num >= 140000
      /\ num \div 10000 >= 15 <=> num >= 150000
      /\ num \div 10000 >= 16 <=> num >= 160000
  OBVIOUS
<1> QED
  BY <1>1, <1>2 DEF Unsupported

-----------------------------------------------------------------------------
(* The invariant *)

\* With text: before the findings nothing says "no findings"; after them nothing is
\* found any more, and it was said if there were none.
SaidSo == levels = {} <=> \E i \in 1..Len(out) : out[i] = "no_findings"
TextInv ==
  /\ out \in Seq(Output \cup {"no_findings"})
  /\ \/ exit = Running /\ Talks(todo) /\ \A i \in 1..Len(out) : out[i] # "no_findings"
     \/ exit # 0 /\ exit # Running
     \/ exit = Running /\ Within(todo, Late) /\ SaidSo
     \/ exit = 0 /\ SaidSo

\* With --json: nothing was printed, or only the end is left.
JsonInv ==
  exit = Running =>
    \/ out = << >> /\ JsonTail(todo)
    \/ out = <<"json">> /\ Within(todo, {"finish"})

CommandInv ==
  /\ call \in Calls /\ server \in Servers
  /\ levels \subseteq Severities
  /\ exit \in {Running, 0, 1}
  /\ exit = Running => why = "none" /\ EndsOnce(todo)
  /\ exit = Running /\ call.exact /\ ~server.pgstattuple => Measuring(todo)
  /\ call.json => JsonInv
  /\ ~call.json => TextInv
  /\ CleanExitIsClean
  /\ JsonTellsFailureApart

LEMMA FailLevelIs ==
  ASSUME NEW c \in Calls
  PROVE  FailLevel(c) \in Int
BY CallsAssumption DEF FailLevel, Notice, Warning, Critical

LEMMA CommandInit == Init => CommandInv
<1> SUFFICES ASSUME Init PROVE CommandInv
  OBVIOUS
<1>1. Fits(todo, call)
  BY ScriptFits DEF Init
<1>2. exit = Running /\ exit # 0 /\ exit # 1 /\ why = "none" /\ levels = {}
  BY DEF Init, Running
<1>3. ~call.json => TextInv
  <2>1. out \in Seq(Output \cup {"no_findings"}) /\ Len(out) = 0
    BY DEF Init
  <2> QED
    BY <1>1, <1>2, <2>1 DEF Fits, TextInv
<1>4. call.json => JsonInv
  BY <1>1 DEF Fits, JsonInv, Init
<1> QED
  BY <1>1, <1>2, <1>3, <1>4
     DEF Init, Fits, CommandInv, CleanExitIsClean, JsonTellsFailureApart, Ended

\* A step of a script that prints nothing and does not end it.
LEMMA QuietStep ==
  ASSUME CommandInv, exit = Running, todo' = Tail(todo),
         UNCHANGED <<call, server, out, exit, why>>,
         Head(todo) \notin Output \cup {"json", "finish"},
         Head(todo) = "measure" => server.pgstattuple,
         levels' \subseteq Severities, Head(todo) \in Late => levels' = levels
  PROVE  CommandInv'
<1>1. todo \in Seq(Steps) /\ Len(todo) >= 1
  BY DEF CommandInv, EndsOnce
<1>2. EndsOnce(Tail(todo))
  BY EndsOnceTail DEF CommandInv
<1>3. call.exact /\ ~server.pgstattuple => Measuring(Tail(todo))
  BY <1>1, MeasuringTail DEF CommandInv
<1>4. exit # 0 /\ exit # 1
  BY DEF Running
<1>5. call.json => JsonInv'
  <2>1. Within(todo, {"finish"}) => Head(todo) = "finish"
    BY <1>1, WithinTail
  <2> QED
    BY <2>1, JsonTailTail DEF CommandInv, JsonInv
<1>6. ~call.json => TextInv'
  <2>1. "findings" \in Output
    BY DEF Output
  <2>2. Talks(todo) => Talks(Tail(todo))
    BY <2>1, TalksTail
  <2>3. Within(todo, Late) => Within(Tail(todo), Late) /\ Head(todo) \in Late
    BY <1>1, WithinTail
  <2> QED
    BY <1>4, <2>2, <2>3 DEF CommandInv, TextInv, SaidSo
<1> QED
  BY <1>2, <1>3, <1>4, <1>5, <1>6
     DEF CommandInv, CleanExitIsClean, JsonTellsFailureApart, Ended

\* An exception: only before the document, and then it is never printed.
LEMMA FailStep ==
  ASSUME CommandInv, exit = Running, NEW reason, reason # "none", Fail(reason),
         Head(todo) # "finish"
  PROVE  CommandInv'
<1>1. todo \in Seq(Steps) /\ Len(todo) >= 1
  BY DEF CommandInv, EndsOnce
<1>2. exit' = 1 /\ why' = reason /\ UNCHANGED <<call, server, todo, levels, out>>
  BY DEF Fail
<1>3. exit' # 0 /\ exit' # Running /\ exit' \in {Running, 0, 1}
  BY <1>2 DEF Running
<1>4. ~Within(todo, {"finish"})
  BY <1>1, WithinTail
<1>5. call.json => out = << >>
  BY <1>4 DEF CommandInv, JsonInv
<1>6. ~call.json => TextInv'
  BY <1>2, <1>3 DEF CommandInv, TextInv
<1> QED
  BY <1>2, <1>3, <1>5, <1>6
     DEF CommandInv, JsonInv, CleanExitIsClean, JsonTellsFailureApart, Ended

LEMMA PrintTextStep ==
  ASSUME CommandInv, PrintText
  PROVE  CommandInv'
<1>1. /\ exit = Running /\ Head(todo) \in Output
      /\ out' = Append(out, Prints(Head(todo))) /\ todo' = Tail(todo)
      /\ UNCHANGED <<call, server, levels, exit, why>>
  BY DEF PrintText, Comes
<1>2. todo \in Seq(Steps) /\ Len(todo) >= 1
  BY <1>1 DEF CommandInv, EndsOnce
<1>3. EndsOnce(Tail(todo)) /\ Head(todo) \notin {"measure", "json", "finish"}
  BY <1>1, EndsOnceTail DEF CommandInv, Output
<1>4. call.exact /\ ~server.pgstattuple => Measuring(Tail(todo))
  BY <1>1, <1>2, <1>3, MeasuringTail DEF CommandInv
<1>5. exit # 0 /\ exit # 1
  BY <1>1 DEF Running
<1>6. ~call.json
  <2>1. ~Within(todo, {"finish"})
    BY <1>2, <1>3, WithinTail
  <2> QED
    BY <1>1, <1>3, <2>1, JsonTailTail DEF CommandInv, JsonInv
<1>7. TextInv'
  <2> DEFINE line == Prints(Head(todo))
  <2>1. out \in Seq(Output \cup {"no_findings"}) /\ line \in Output \cup {"no_findings"}
    BY <1>1, <1>6 DEF CommandInv, TextInv, Prints
  <2>2. /\ out' \in Seq(Output \cup {"no_findings"}) /\ Len(out') = Len(out) + 1
        /\ Len(out) \in Nat
        /\ \A i \in 1..Len(out) : out'[i] = out[i]
        /\ out'[Len(out) + 1] = line
    <3> HIDE DEF line
    <3> QED
      BY <2>1, <1>1, AppendProperties, LenProperties DEF line
  <2>3. line = "no_findings" <=> Head(todo) = "findings" /\ levels = {}
    BY <1>1 DEF Prints, Output
  <2> HIDE DEF line
  <2>4. CASE Talks(todo) /\ \A i \in 1..Len(out) : out[i] # "no_findings"
    <3>1. CASE Head(todo) = "findings"
      <4>1. Within(Tail(todo), Late)
        BY <2>4, <3>1, TalksHead
      <4>2. SaidSo'
        BY <1>1, <2>2, <2>3, <2>4, <3>1 DEF SaidSo
      <4> QED
        BY <1>1, <2>2, <4>1, <4>2 DEF TextInv
    <3>2. CASE Head(todo) # "findings"
      <4>1. Talks(Tail(todo))
        BY <2>4, <3>2, TalksTail
      <4>2. \A i \in 1..Len(out') : out'[i] # "no_findings"
        BY <2>2, <2>3, <2>4, <3>2
      <4> QED
        BY <1>1, <2>2, <4>1, <4>2 DEF TextInv
    <3> QED
      BY <3>1, <3>2
  <2>5. CASE Within(todo, Late) /\ SaidSo
    <3>1. Within(Tail(todo), Late) /\ Head(todo) \in Late
      BY <2>5, <1>2, WithinTail
    <3>2. line # "no_findings"
      BY <2>3, <3>1 DEF Late
    <3>3. SaidSo'
      BY <1>1, <2>2, <2>5, <3>2 DEF SaidSo
    <3> QED
      BY <1>1, <2>2, <3>1, <3>3 DEF TextInv
  <2> QED
    BY <1>1, <1>5, <1>6, <2>4, <2>5 DEF CommandInv, TextInv
<1> QED
  BY <1>1, <1>3, <1>4, <1>5, <1>6, <1>7
     DEF CommandInv, CleanExitIsClean, JsonTellsFailureApart, Ended

LEMMA EmitJsonStep ==
  ASSUME CommandInv, EmitJson
  PROVE  CommandInv'
<1>1. /\ exit = Running /\ Head(todo) = "json" /\ todo' = Tail(todo)
      /\ out' = IF call.json THEN Append(out, "json") ELSE out
      /\ UNCHANGED <<call, server, levels, exit, why>>
  BY DEF EmitJson, Comes
<1>2. todo \in Seq(Steps) /\ Len(todo) >= 1
  BY <1>1 DEF CommandInv, EndsOnce
<1>3. EndsOnce(Tail(todo))
  BY <1>1, EndsOnceTail DEF CommandInv
<1>4. call.exact /\ ~server.pgstattuple => Measuring(Tail(todo))
  BY <1>1, <1>2, MeasuringTail DEF CommandInv
<1>5. exit # 0 /\ exit # 1
  BY <1>1 DEF Running
<1>6. call.json => JsonInv'
  <2> SUFFICES ASSUME call.json PROVE JsonInv'
    OBVIOUS
  <2>1. ~Within(todo, {"finish"})
    BY <1>1, <1>2, WithinTail
  <2>2. out = << >> /\ JsonTail(todo)
    BY <1>1, <2>1 DEF CommandInv, JsonInv
  <2>3. out' = <<"json">> /\ Within(Tail(todo), {"finish"})
    BY <1>1, <2>2, JsonTailHead
  <2> QED
    BY <1>1, <2>3 DEF JsonInv
<1>7. ~call.json => TextInv'
  <2>1. ~Talks(todo)
    BY <1>1, TalksTail, TalksHead
  <2>2. Within(todo, Late) => Within(Tail(todo), Late)
    BY <1>2, WithinTail
  <2> QED
    BY <1>1, <1>5, <2>1, <2>2 DEF CommandInv, TextInv, SaidSo
<1> QED
  BY <1>1, <1>3, <1>4, <1>5, <1>6, <1>7
     DEF CommandInv, CleanExitIsClean, JsonTellsFailureApart, Ended

LEMMA FinishStep ==
  ASSUME CommandInv, Finish
  PROVE  CommandInv'
<1>1. /\ exit = Running /\ Head(todo) = "finish" /\ todo' = Tail(todo)
      /\ exit' = IF FailsOn THEN 1 ELSE 0
      /\ UNCHANGED <<call, server, levels, out, why>>
  BY DEF Finish, Comes
<1>2. todo \in Seq(Steps) /\ Len(todo) >= 1 /\ todo[1] = "finish"
  BY <1>1, TailOf DEF CommandInv, EndsOnce
<1>3. Len(todo) = 1
  <2>1. ~(1 \in 1..Len(todo) - 1)
    BY <1>1, <1>2 DEF CommandInv, EndsOnce
  <2>2. \A n \in Nat : n >= 1 /\ ~(1 \in 1..n - 1) => n = 1
    OBVIOUS
  <2>3. Len(todo) \in Nat
    BY <1>2, LenProperties
  <2> QED
    BY <1>2, <2>1, <2>2, <2>3
<1>4. Tail(todo) = << >>
  <2>1. Tail(todo) \in Seq(Steps) /\ Len(Tail(todo)) = 0
    BY <1>2, <1>3, TailOf
  <2> QED
    BY <2>1, EmptySeq
<1>5. call.exact => server.pgstattuple
  <2>1. ~Measuring(todo)
    BY <1>2, <1>3 DEF Measuring
  <2> QED
    BY <1>1, <2>1 DEF CommandInv
<1>6. exit' \in {0, 1} /\ exit' # Running /\ why = "none"
  BY <1>1 DEF CommandInv, Running
<1>7. exit' = 0 => \A level \in levels : level < FailLevel(call)
  <2>1. FailLevel(call) \in Int /\ levels \subseteq Int
    BY FailLevelIs DEF CommandInv, Severities, Info, Critical
  <2> QED
    BY <1>1, <2>1 DEF FailsOn
<1>8. call.json => out = <<"json">>
  <2>1. JsonTail(todo) => FALSE
    BY <1>1, JsonTailTail
  <2> QED
    BY <1>1, <2>1 DEF CommandInv, JsonInv
<1>9. ~call.json => SaidSo /\ out \in Seq(Output \cup {"no_findings"})
  <2>1. ~Talks(todo)
    BY <1>1, TalksTail
  <2> QED
    BY <1>1, <2>1 DEF CommandInv, TextInv, Running
<1>10. ~call.json => TextInv'
  BY <1>1, <1>6, <1>9 DEF TextInv, SaidSo
<1>11. CleanExitIsClean'
  <2>1. ~call.json => DOMAIN out = 1..Len(out)
    BY <1>9
  <2> QED
    BY <1>1, <1>4, <1>5, <1>6, <1>7, <1>9, <2>1 DEF CleanExitIsClean, SaidSo, FailLevel
<1> QED
  BY <1>1, <1>6, <1>8, <1>10, <1>11
     DEF CommandInv, JsonInv, JsonTellsFailureApart, Ended

LEMMA CommandNext == CommandInv /\ [Next]_vars => CommandInv'
<1> SUFFICES ASSUME CommandInv, [Next]_vars PROVE CommandInv'
  OBVIOUS
<1>1. CASE Answered
  <2>1. /\ exit = Running /\ todo' = Tail(todo)
        /\ UNCHANGED <<call, server, out, exit, why>>
        /\ Head(todo) \notin Output \cup {"json", "finish"}
        /\ Head(todo) = "measure" => server.pgstattuple # FALSE
    BY <1>1 DEF Answered, Statement, Comes, Refused
  <2>2. PICK found \in SUBSET Levels(call, Head(todo)) : levels' = levels \cup found
    BY <1>1 DEF Answered
  <2>3. levels' \subseteq Severities
    BY <2>2, LevelsAre DEF CommandInv
  <2>4. Head(todo) \in Late => levels' = levels
    BY <2>2, LevelsAre
  <2>5. server.pgstattuple \in BOOLEAN
    BY ServersAssumption DEF CommandInv
  <2> QED
    BY <2>1, <2>3, <2>4, <2>5, QuietStep
<1>2. CASE ServerFails
  <2>1. exit = Running /\ Head(todo) # "finish" /\ Fail("server")
    BY <1>2 DEF ServerFails, Statement, Comes
  <2> QED
    BY <2>1, FailStep
<1>3. CASE Refuse
  <2> DEFINE reason == IF Unsupported(server.num) THEN "unsupported" ELSE "no_pgstattuple"
  <2>1. exit = Running /\ Head(todo) # "finish" /\ Fail(reason) /\ reason # "none"
    BY <1>3 DEF Refuse, Statement, Comes
  <2> HIDE DEF reason
  <2> QED
    BY <2>1, FailStep
<1>4. CASE ReadPlan
  <2>1. exit = Running /\ Head(todo) = "parse"
    BY <1>4 DEF ReadPlan, Comes
  <2>2. CASE Parse(call.document) = "parsed"
    <3>1. /\ findings' = AnalyzePlan(call.document.nodes)
          /\ levels' = {f.severity : f \in findings'}
          /\ todo' = Tail(todo) /\ UNCHANGED <<call, server, out, exit, why>>
      BY <1>4, <2>2 DEF ReadPlan
    <3>2. levels' \subseteq Severities
      BY <3>1, PlanLevelsAre
    <3>3. Head(todo) \notin Output \cup {"json", "finish", "measure"} \cup Late
      BY <2>1 DEF Output, Late
    <3> QED
      BY <2>1, <3>1, <3>2, <3>3, QuietStep
  <2>3. CASE Parse(call.document) # "parsed"
    <3>1. Fail("bad_plan")
      BY <1>4, <2>3 DEF ReadPlan
    <3> QED
      BY <2>1, <3>1, FailStep
  <2> QED
    BY <2>2, <2>3
<1>5. CASE PrintText
  BY <1>5, PrintTextStep
<1>6. CASE MarkupFails
  <2>1. exit = Running /\ Head(todo) # "finish" /\ Fail("markup")
    BY <1>6 DEF MarkupFails, Comes
  <2> QED
    BY <2>1, FailStep
<1>7. CASE EmitJson
  BY <1>7, EmitJsonStep
<1>8. CASE Finish
  BY <1>8, FinishStep
<1>9. CASE UNCHANGED vars
  BY <1>9 DEF vars, CommandInv, JsonInv, TextInv, SaidSo, CleanExitIsClean,
              JsonTellsFailureApart, Ended
<1> QED
  BY <1>1, <1>2, <1>3, <1>4, <1>5, <1>6, <1>7, <1>8, <1>9 DEF Next

\* The exit status a script acts on: with 0 the whole script was run, nothing it found
\* reaches --fail-on, --exact was exact, and the text says "no findings" exactly if
\* there are none; whatever the server, the plan and the moment of a failure.
THEOREM CleanExit == Spec => []CleanExitIsClean
<1>1. CommandInv => CleanExitIsClean
  BY DEF CommandInv
<1> QED
  BY <1>1, CommandInit, CommandNext, PTL DEF Spec

\* With --json stdout has one whole document or nothing at all, and nothing exactly if
\* the command could not do its work.
THEOREM JsonIsWhole == Spec => []JsonTellsFailureApart
<1>1. CommandInv => JsonTellsFailureApart
  BY DEF CommandInv
<1> QED
  BY <1>1, CommandInit, CommandNext, PTL DEF Spec

-----------------------------------------------------------------------------
(* What a server is asked for *)

GateInv ==
  /\ CommandInv
  /\ why = "unsupported" => server.num < 130000
  /\ server.num < 130000 /\ call.sub # "plan" =>
       levels = {} /\ (exit = Running => Gate(todo))

LEMMA GatedAre ==
  ASSUME NEW step, NEW column \in Gated(step)
  PROVE  /\ column \in {"last_idx_scan", "last_seq_scan", "n_ins_since_vacuum", "query_id"}
         /\ Introduced(column) \in 13..16
         /\ server.num >= 10000 * Introduced(column) <=> ServerHas(column)
<1>1. column \in {"last_idx_scan", "last_seq_scan", "n_ins_since_vacuum", "query_id"}
  BY DEF Gated
<1>2. CASE column = "n_ins_since_vacuum"
  BY <1>2 DEF Introduced, ServerHas
<1>3. CASE column = "query_id"
  BY <1>3 DEF Introduced, ServerHas
<1>4. CASE column \in {"last_idx_scan", "last_seq_scan"}
  BY <1>4 DEF Introduced, ServerHas
<1> QED
  BY <1>1, <1>2, <1>3, <1>4

LEMMA AsksExactly ==
  ASSUME server.num \in Nat, NEW step
  PROVE  AskedBy(step) = {column \in Gated(step) : ServerHas(column)}
<1>1. ASSUME NEW column \in Gated(step)
      PROVE  Has(server.num, column) <=> ServerHas(column)
  <2>1. Introduced(column) \in 13..16
    BY GatedAre
  <2>2. FromNum(server.num)[1] >= Introduced(column)
          <=> server.num >= 10000 * Introduced(column)
    BY <2>1, ReleaseOf
  <2> QED
    BY <2>2, GatedAre DEF Has
<1> QED
  BY <1>1 DEF AskedBy

LEMMA GateNext == GateInv /\ [Next]_vars => GateInv'
<1> SUFFICES ASSUME GateInv, [Next]_vars PROVE GateInv'
  OBVIOUS
<1>1. CommandInv'
  BY CommandNext DEF GateInv
<1>2. server.num \in Nat /\ (exit = Running => why = "none")
  BY ServersAssumption DEF GateInv, CommandInv
<1>3. Unsupported(server.num) <=> server.num < 130000
  BY <1>2, ReleaseOf
<1>4. ASSUME NEW reason, Fail(reason), exit = Running,
             reason = "unsupported" => server.num < 130000
      PROVE  GateInv'
  BY <1>1, <1>4 DEF Fail, GateInv, Running
<1>5. ASSUME exit = Running, todo' = Tail(todo), UNCHANGED <<call, server>>,
             why' = "none", Head(todo) \in {"connect", "version"} => levels' = levels,
             Head(todo) = "extensions" => ~Unsupported(server.num)
      PROVE  GateInv'
  BY <1>1, <1>3, <1>5, GateTail DEF GateInv
<1>6. CASE Answered
  <2>1. PICK found \in SUBSET Levels(call, Head(todo)) : levels' = levels \cup found
    BY <1>6 DEF Answered
  <2>2. Head(todo) \in {"connect", "version"} => levels' = levels
    BY <2>1, LevelsAre
  <2> QED
    BY <1>2, <1>5, <1>6, <2>2 DEF Answered, Statement, Comes, Refused
<1>7. CASE ServerFails
  BY <1>4, <1>7 DEF ServerFails, Statement, Comes
<1>8. CASE Refuse
  BY <1>3, <1>4, <1>8 DEF Refuse, Statement, Comes
<1>9. CASE ReadPlan
  <2>1. CASE Parse(call.document) = "parsed"
    BY <1>2, <1>5, <1>9, <2>1 DEF ReadPlan, Comes
  <2>2. CASE Parse(call.document) # "parsed"
    BY <1>4, <1>9, <2>2 DEF ReadPlan, Comes
  <2> QED
    BY <2>1, <2>2
<1>10. CASE PrintText
  BY <1>2, <1>5, <1>10 DEF PrintText, Comes, Output
<1>11. CASE MarkupFails
  BY <1>4, <1>11 DEF MarkupFails, Comes
<1>12. CASE EmitJson
  BY <1>2, <1>5, <1>12 DEF EmitJson, Comes
<1>13. CASE Finish
  BY <1>2, <1>5, <1>13 DEF Finish, Comes
<1>14. CASE UNCHANGED vars
  BY <1>1, <1>14 DEF vars, GateInv
<1> QED
  BY <1>6, <1>7, <1>8, <1>9, <1>10, <1>11, <1>12, <1>13, <1>14 DEF Next

\* The one list of version-gated columns is right for every server number: none from 13
\* on is turned away, nothing is found on an older one, and each query names exactly the
\* columns the server has.
THEOREM AsksRight == Spec => []AsksForWhatThereIs
<1>1. Init => GateInv
  <2> SUFFICES ASSUME Init PROVE GateInv
    OBVIOUS
  <2>1. Fits(todo, call) /\ CommandInv
    BY ScriptFits, CommandInit DEF Init
  <2> QED
    BY <2>1 DEF Init, GateInv, Fits
<1>2. GateInv => AsksForWhatThereIs
  <2> SUFFICES ASSUME GateInv PROVE AsksForWhatThereIs
    OBVIOUS
  <2>1. server.num \in Nat
    BY ServersAssumption DEF GateInv, CommandInv
  <2> QED
    BY <2>1, AsksExactly DEF GateInv, AsksForWhatThereIs
<1> QED
  BY <1>1, <1>2, GateNext, PTL DEF Spec

-----------------------------------------------------------------------------
(* Rows per loop, and rows *)

LEMMA Division ==
  ASSUME NEW t \in Nat, NEW l \in Nat \ {0}
  PROVE  /\ t \div l \in Nat /\ t % l \in 0..l - 1
         /\ t = ((t \div l) * l) + (t % l)
OBVIOUS

(* What EXPLAIN prints is off by half of the loops at most. *)
LEMMA Rounding ==
  ASSUME NEW t \in Nat, NEW l \in Nat \ {0}
  PROVE  /\ PerLoop(t, l) \in Nat
         /\ 2 * (PerLoop(t, l) * l) <= 2 * t + l
         /\ 2 * t <= 2 * (PerLoop(t, l) * l) + l
<1> DEFINE q == t \div l
           r == t % l
           a == PerLoop(t, l)
<1>1. q \in Nat /\ r \in 0..l - 1 /\ t = q * l + r
  BY Division
<1>2. (a = q /\ 2 * r <= l) \/ (a = q + 1 /\ 2 * r >= l)
  <2> HIDE DEF q, r
  <2>1. a = IF 2 * r > l \/ (2 * r = l /\ q % 2 = 1) THEN q + 1 ELSE q
    BY DEF PerLoop, q, r
  <2> QED
    BY <1>1, <2>1
<1> HIDE DEF q, r, a
<1>3. (q + 1) * l = q * l + l /\ q * l \in Nat
  BY <1>1
<1>4. CASE a = q /\ 2 * r <= l
  BY <1>1, <1>3, <1>4 DEF a
<1>5. CASE a = q + 1 /\ 2 * r >= l
  BY <1>1, <1>3, <1>5 DEF a
<1> QED
  BY <1>2, <1>4, <1>5

(* By a third, with a row per loop. *)
LEMMA AtLeastOne ==
  ASSUME NEW t \in Nat, NEW l \in Nat \ {0}, t >= l
  PROVE  /\ PerLoop(t, l) >= 1
         /\ 2 * t <= 3 * (PerLoop(t, l) * l)
         /\ 2 * (PerLoop(t, l) * l) <= 3 * t
<1> DEFINE a == PerLoop(t, l)
<1>1. a \in Nat /\ 2 * (a * l) <= 2 * t + l /\ 2 * t <= 2 * (a * l) + l
  BY Rounding
<1> HIDE DEF a
<1>2. a >= 1
  <2>1. a = 0 => a * l = 0
    OBVIOUS
  <2> QED
    BY <1>1, <2>1
<1>3. a * l >= l /\ a * l \in Nat
  BY <1>1, <1>2
<1> QED
  BY <1>1, <1>2, <1>3 DEF a

LEMMA Product ==
  ASSUME NEW x \in Nat, NEW y \in Nat, NEW z \in Nat
  PROVE  /\ x * y \in Nat
         /\ (x * y) * z = x * (y * z)
         /\ x <= y => x * z <= y * z /\ z * x <= z * y
OBVIOUS

(* e rows expected and a rows printed per loop, t rows in l loops, factor f. *)
LEMMA EstimateTooHigh ==
  ASSUME NEW e \in Nat, NEW a \in Nat, NEW t \in Nat, NEW l \in Nat \ {0}, NEW f \in Nat
  PROVE  /\ e >= f * a /\ 2 * t <= 3 * (a * l) => 3 * (e * l) >= 2 * f * t
         /\ 2 * (e * l) >= 3 * f * t /\ 2 * (a * l) <= 3 * t => e >= f * a
<1>1. /\ a * l \in Nat /\ e * l \in Nat /\ f * a \in Nat /\ f * t \in Nat
      /\ (f * a) * l = f * (a * l) /\ f * (a * l) \in Nat
      /\ (2 * f) * t = 2 * (f * t) /\ (3 * f) * t = 3 * (f * t)
  BY Product
<1>2. ASSUME e >= f * a, 2 * t <= 3 * (a * l)
      PROVE  3 * (e * l) >= 2 * f * t
  <2>1. f * (a * l) <= e * l
    BY <1>1, <1>2, Product
  <2>2. f * (2 * t) <= f * (3 * (a * l))
    BY <1>1, <1>2, Product
  <2>3. f * (2 * t) = 2 * (f * t) /\ f * (3 * (a * l)) = 3 * (f * (a * l))
    BY <1>1
  <2> QED
    BY <1>1, <2>1, <2>2, <2>3
<1>3. ASSUME 2 * (e * l) >= 3 * f * t, 2 * (a * l) <= 3 * t, ~(e >= f * a)
      PROVE  FALSE
  <2>1. e + 1 <= f * a /\ (e + 1) * l = e * l + l
    BY <1>1, <1>3
  <2>2. e * l + l <= f * (a * l)
    BY <1>1, <2>1, Product
  <2>3. f * (2 * (a * l)) <= f * (3 * t)
    BY <1>1, <1>3, Product
  <2>4. f * (2 * (a * l)) = 2 * (f * (a * l)) /\ f * (3 * t) = 3 * (f * t)
    BY <1>1
  <2> QED
    BY <1>1, <1>3, <2>2, <2>3, <2>4
<1> QED
  BY <1>1, <1>2, <1>3

LEMMA EstimateTooLow ==
  ASSUME NEW e \in Nat, NEW a \in Nat, NEW t \in Nat, NEW l \in Nat \ {0}, NEW f \in Nat
  PROVE  /\ a >= f * e /\ 2 * (a * l) <= 3 * t => 3 * t >= 2 * f * (e * l)
         /\ 2 * t >= 3 * f * (e * l) /\ 2 * t <= 3 * (a * l) => a >= f * e
<1>1. /\ a * l \in Nat /\ e * l \in Nat /\ f * e \in Nat
      /\ (f * e) * l = f * (e * l) /\ f * (e * l) \in Nat
      /\ (2 * f) * (e * l) = 2 * (f * (e * l)) /\ (3 * f) * (e * l) = 3 * (f * (e * l))
  BY Product
<1>2. ASSUME a >= f * e, 2 * (a * l) <= 3 * t
      PROVE  3 * t >= 2 * f * (e * l)
  <2>1. f * (e * l) <= a * l
    BY <1>1, <1>2, Product
  <2> QED
    BY <1>1, <1>2, <2>1
<1>3. ASSUME 2 * t >= 3 * f * (e * l), 2 * t <= 3 * (a * l), ~(a >= f * e)
      PROVE  FALSE
  <2>1. a + 1 <= f * e /\ (a + 1) * l = a * l + l
    BY <1>1, <1>3
  <2>2. a * l + l <= f * (e * l)
    BY <1>1, <2>1, Product
  <2> QED
    BY <1>1, <1>3, <2>2
<1> QED
  BY <1>1, <1>2, <1>3

NodeOK(n) ==
  /\ n.est \in Nat /\ n.rows \in Nat /\ n.loops \in Nat
  /\ n.removed \in Nat /\ n.fetches \in Nat

LEMMA MeasuredNode ==
  ASSUME NEW n, NodeOK(n), Measured(n)
  PROVE  /\ n.loops \in Nat \ {0} /\ n.rows \in Nat
         /\ ActualRows(n) \in Nat /\ ActualRows(n) >= 1
         /\ TotalRows(n) = ActualRows(n) * n.loops /\ TotalRows(n) \in Nat
         /\ 2 * n.rows <= 3 * TotalRows(n) /\ 2 * TotalRows(n) <= 3 * n.rows
<1>1. n.loops \in Nat \ {0} /\ n.rows \in Nat /\ n.rows >= n.loops
  BY DEF NodeOK, Measured
<1>2. ActualRows(n) = PerLoop(n.rows, n.loops)
  BY <1>1 DEF ActualRows, Printed
<1>3. /\ PerLoop(n.rows, n.loops) \in Nat /\ PerLoop(n.rows, n.loops) >= 1
      /\ 2 * n.rows <= 3 * (PerLoop(n.rows, n.loops) * n.loops)
      /\ 2 * (PerLoop(n.rows, n.loops) * n.loops) <= 3 * n.rows
  BY <1>1, Rounding, AtLeastOne
<1>4. ActualRows(n) * n.loops \in Nat
  BY <1>1, <1>2, <1>3, Product
<1> QED
  BY <1>1, <1>2, <1>3, <1>4 DEF TotalRows

LEMMA LargerIs ==
  ASSUME NEW a \in Nat
  PROVE  Larger(a, 1) \in Nat /\ Larger(a, 1) >= a /\ (a >= 1 => Larger(a, 1) = a)
BY DEF Larger

(* The verdict on a node, from what is printed, against what happened.       *)
LEMMA MisestimateIsReal ==
  ASSUME NEW n, NodeOK(n), Measured(n), OutBy(n, MisestimateFactor)
  PROVE  LET expected == Larger(n.est, 1) * n.loops
         IN \/ 3 * expected >= 2 * MisestimateFactor * n.rows
            \/ 3 * n.rows >= 2 * MisestimateFactor * expected
<1> DEFINE e == Larger(n.est, 1)
           a == ActualRows(n)
<1>1. /\ n.loops \in Nat \ {0} /\ n.rows \in Nat /\ a \in Nat /\ a >= 1
      /\ 2 * n.rows <= 3 * (a * n.loops) /\ 2 * (a * n.loops) <= 3 * n.rows
  BY MeasuredNode
<1>2. e \in Nat /\ MisestimateFactor \in Nat /\ Larger(a, 1) = a
  BY <1>1, LargerIs, PlanAssumption DEF NodeOK
<1>3. e >= MisestimateFactor * a \/ a >= MisestimateFactor * e
  BY <1>2 DEF OutBy
<1> HIDE DEF e, a
<1>4. \/ 3 * (e * n.loops) >= 2 * MisestimateFactor * n.rows
      \/ 3 * n.rows >= 2 * MisestimateFactor * (e * n.loops)
  BY <1>1, <1>2, <1>3, EstimateTooHigh, EstimateTooLow
<1> QED
  BY <1>4 DEF e

LEMMA MisestimateIsNoticed ==
  ASSUME NEW n, NodeOK(n), Measured(n),
         n.rows >= 2 * MisestimateFloor \/ n.est >= MisestimateFloor,
         \/ 2 * (Larger(n.est, 1) * n.loops) >= 3 * MisestimateFactor * n.rows
         \/ 2 * n.rows >= 3 * MisestimateFactor * (Larger(n.est, 1) * n.loops)
  PROVE  Misestimated(n)
<1> DEFINE e == Larger(n.est, 1)
           a == ActualRows(n)
<1>1. /\ n.loops \in Nat \ {0} /\ n.rows \in Nat /\ a \in Nat /\ a >= 1
      /\ 2 * n.rows <= 3 * (a * n.loops) /\ 2 * (a * n.loops) <= 3 * n.rows
      /\ 2 * n.rows <= 3 * TotalRows(n) /\ TotalRows(n) \in Nat
  BY MeasuredNode
<1>2. e \in Nat /\ MisestimateFactor \in Nat /\ Larger(a, 1) = a
  BY <1>1, LargerIs, PlanAssumption DEF NodeOK
<1>3. TotalRows(n) >= MisestimateFloor \/ n.est >= MisestimateFloor
  BY <1>1 DEF MisestimateFloor
<1>4. \/ 2 * (e * n.loops) >= 3 * MisestimateFactor * n.rows
      \/ 2 * n.rows >= 3 * MisestimateFactor * (e * n.loops)
  OBVIOUS
<1> HIDE DEF e, a
<1>5. e >= MisestimateFactor * a \/ a >= MisestimateFactor * e
  BY <1>1, <1>2, <1>4, EstimateTooHigh, EstimateTooLow
<1> QED
  BY <1>2, <1>3, <1>5 DEF Misestimated, OutBy, e, a

LEMMA FetchesAreReal ==
  ASSUME NEW n, NodeOK(n), Measured(n), 10 * n.fetches >= Larger(TotalRows(n), 1)
  PROVE  15 * n.fetches >= n.rows
<1>1. TotalRows(n) \in Nat /\ 2 * n.rows <= 3 * TotalRows(n) /\ n.rows \in Nat
  BY MeasuredNode
<1>2. Larger(TotalRows(n), 1) >= TotalRows(n) /\ Larger(TotalRows(n), 1) \in Nat
  BY <1>1, LargerIs
<1> QED
  BY <1>1, <1>2 DEF NodeOK

LEMMA DiscardsAreReal ==
  ASSUME NEW n, NodeOK(n), Measured(n), Discards(n)
  PROVE  n.removed >= 6 * n.rows
<1> DEFINE a == ActualRows(n)
           b == PerLoop(n.removed, n.loops)
           l == n.loops
<1>1. /\ l \in Nat \ {0} /\ n.rows \in Nat /\ a \in Nat /\ a >= 1 /\ a * l \in Nat
      /\ 2 * n.rows <= 3 * (a * l)
  BY MeasuredNode
<1>2. b \in Nat /\ 2 * (b * l) <= 2 * n.removed + l /\ n.removed \in Nat
  BY <1>1, Rounding DEF NodeOK
<1>3. b >= 10000 /\ b >= 10 * a
  <2>1. Printed(n.removed, n) = b
    BY <1>1 DEF Printed
  <2>2. Larger(a, 1) = a
    BY <1>1, LargerIs
  <2> QED
    BY <2>1, <2>2 DEF Discards, FilterFloor, FilterDiscardRatio
<1> HIDE DEF a, b, l
<1>4. 10000 * l <= b * l /\ 10 * (a * l) <= b * l /\ b * l \in Nat
  <2>1. (10 * a) * l = 10 * (a * l) /\ 10 * a \in Nat
    BY <1>1
  <2> QED
    BY <1>1, <1>2, <1>3, <2>1, Product
<1> QED
  BY <1>1, <1>2, <1>4

-----------------------------------------------------------------------------
(* What is found in a plan *)

LEMMA PathsAre ==
  ASSUME NEW plan, IsExecution(plan), NEW p \in DOMAIN plan
  PROVE  NodeOK(plan[p]) /\ p \in Seq(Nat)
BY DEF IsExecution, NodeOK

LEMMA PairHasTwo ==
  ASSUME NEW a, NEW b, a # b
  PROVE  IsFiniteSet({a, b}) /\ Cardinality({a, b}) = 2
<1>1. Cardinality({a}) = 1 /\ IsFiniteSet({a})
  BY FS_Singleton
<1>2. IsFiniteSet({a} \cup {b}) /\ Cardinality({a} \cup {b}) = Cardinality({a}) + 1
  BY <1>1, FS_AddElement
<1>3. {a} \cup {b} = {a, b}
  OBVIOUS
<1> QED
  BY <1>1, <1>2, <1>3

LEMMA TwoBranches ==
  ASSUME NEW p \in Seq(Nat)
  PROVE  Cardinality({p \o <<1>>, p \o <<2>>}) = 2
<1> DEFINE one == p \o <<1>>
           two == p \o <<2>>
<1>1. ASSUME NEW x \in Nat
      PROVE  (p \o <<x>>)[Len(p) + 1] = x
  <2>1. <<x>> \in Seq(Nat) /\ Len(<<x>>) = 1 /\ <<x>>[1] = x /\ Len(p) \in Nat
    BY LenProperties
  <2>2. \A i \in 1..Len(p) + Len(<<x>>) :
          (p \o <<x>>)[i] = IF i <= Len(p) THEN p[i] ELSE <<x>>[i - Len(p)]
    BY <2>1, ConcatProperties
  <2>3. Len(p) + 1 \in 1..Len(p) + Len(<<x>>) /\ ~(Len(p) + 1 <= Len(p))
        /\ (Len(p) + 1) - Len(p) = 1
    BY <2>1
  <2> QED
    BY <2>1, <2>2, <2>3
<1>2. one[Len(p) + 1] = 1 /\ two[Len(p) + 1] = 2
  BY <1>1
<1> HIDE DEF one, two
<1>3. one # two
  BY <1>2
<1>4. Cardinality({one, two}) = 2
  BY <1>3, PairHasTwo
<1> QED
  BY <1>4 DEF one, two

\* The last child of a join without subplans is the inner side.
LEMMA InnerSide ==
  ASSUME NEW plan, IsExecution(plan), NEW p \in DOMAIN plan,
         plan[p].type = "Nested Loop", PlainJoin(plan, p)
  PROVE  /\ ChildrenOf(plan, p) # {}
         /\ plan[LastChild(plan, p)].loops = plan[p \o <<1>>].rows
         /\ plan[p \o <<1>>].rows \in Nat
<1>1. /\ ChildrenOf(plan, p) = {p \o <<1>>, p \o <<2>>}
      /\ plan[p \o <<2>>].loops = plan[p \o <<1>>].rows
  BY Zenon DEF IsExecution
<1>2. p \in Seq(Nat)
  BY PathsAre, Zenon
<1>3. LastChild(plan, p) = p \o <<2>>
  BY <1>1, <1>2, TwoBranches, Zenon DEF LastChild
<1>4. p \o <<1>> \in DOMAIN plan
  BY <1>1, Zenon DEF ChildrenOf
<1>5. plan[p \o <<1>>].rows \in Nat
  BY <1>4, PathsAre, Zenon DEF NodeOK
<1>6. {p \o <<1>>, p \o <<2>>} # {}
  BY Zenon
<1> QED
  BY <1>1, <1>3, <1>5, <1>6, Zenon

(* Every rule names its check, and a node of the plan. *)
LEMMA FindingsAre ==
  ASSUME NEW plan, NEW f \in AnalyzePlan(plan)
  PROVE  /\ f.subject \in DOMAIN plan
         /\ f.check = "plan.misestimate" => Misestimated(plan[f.subject])
         /\ f.check = "plan.nested_loop" => LoopsOften(plan, f.subject)
         /\ f.check = "plan.heap_fetches" /\ f.severity = Warning =>
              10 * plan[f.subject].fetches >= Larger(TotalRows(plan[f.subject]), 1)
         /\ f.check = "plan.filter_discard" => Discards(plan[f.subject])
<1>1. \A c, s, p, r : /\ Finding(c, s, p, r).check = c /\ Finding(c, s, p, r).severity = s
                      /\ Finding(c, s, p, r).subject = p
  BY DEF Finding
<1>2. CASE f \in MisestimateFindings(plan)
  <2>1. PICK p \in {q \in DOMAIN plan : Misestimated(plan[q])} :
          f = Finding("plan.misestimate", IF OutBy(plan[p], 100) THEN Critical ELSE Warning, p,
                      MisestimateRemedy(plan[p]))
    BY <1>2, Zenon DEF MisestimateFindings
  <2> QED
    BY <1>1, <2>1
<1>3. CASE f \in NestedLoopFindings(plan)
  <2>1. PICK p \in {q \in DOMAIN plan : LoopsOften(plan, q)} :
          f = Finding("plan.nested_loop",
                      IF plan[LastChild(plan, p)].loops >= 10 * LoopThreshold
                      THEN Critical ELSE Warning, p, "fix_outer")
    BY <1>3, Zenon DEF NestedLoopFindings
  <2> QED
    BY <1>1, <2>1
<1>4. CASE f \in SortFindings(plan)
  <2>1. PICK p \in {q \in DOMAIN plan : plan[q].disk} :
          f = Finding("plan.external_sort", Warning, p, "work_mem")
    BY <1>4, Zenon DEF SortFindings
  <2> QED
    BY <1>1, <2>1
<1>5. CASE f \in HashSpillFindings(plan)
  <2>1. PICK p \in {q \in DOMAIN plan : plan[q].batches > 1} :
          f = Finding("plan.hash_spill",
                      IF plan[p].batches > plan[p].original THEN Warning ELSE Notice, p,
                      "check_build_side")
    BY <1>5, Zenon DEF HashSpillFindings
  <2> QED
    BY <1>1, <2>1
<1>6. CASE f \in HeapFetchFindings(plan)
  <2>1. PICK p :
          /\ p \in DOMAIN plan
          /\ f = Finding("plan.heap_fetches",
                         IF 10 * plan[p].fetches >= Larger(TotalRows(plan[p]), 1)
                         THEN Warning ELSE Notice, p, "vacuum")
    BY <1>6, Zenon DEF HeapFetchFindings
  <2>2. f.check = "plan.heap_fetches" /\ f.subject = p
    BY <2>1 DEF Finding
  <2>3. f.severity = IF 10 * plan[p].fetches >= Larger(TotalRows(plan[p]), 1)
                     THEN Warning ELSE Notice
    BY <2>1 DEF Finding
  <2>4. f.severity = Warning => 10 * plan[p].fetches >= Larger(TotalRows(plan[p]), 1)
    BY <2>3 DEF Warning, Notice
  <2> QED
    BY <2>1, <2>2, <2>4, Zenon
<1>7. CASE f \in FilterFindings(plan)
  <2>1. PICK p \in {q \in DOMAIN plan : Discards(plan[q])} :
          f = Finding("plan.filter_discard", Notice, p, "index")
    BY <1>7, Zenon DEF FilterFindings
  <2> QED
    BY <1>1, <2>1
<1> QED
  BY <1>2, <1>3, <1>4, <1>5, <1>6, <1>7 DEF AnalyzePlan

LEMMA FindingsInclude ==
  ASSUME NEW plan, NEW p \in DOMAIN plan
  PROVE  /\ Misestimated(plan[p]) =>
              \E f \in AnalyzePlan(plan) : f.check = "plan.misestimate" /\ f.subject = p
         /\ LoopsOften(plan, p) =>
              \E f \in AnalyzePlan(plan) : f.check = "plan.nested_loop" /\ f.subject = p
<1>1. ASSUME Misestimated(plan[p])
      PROVE  \E f \in AnalyzePlan(plan) : f.check = "plan.misestimate" /\ f.subject = p
  <2> DEFINE f == Finding("plan.misestimate",
                          IF OutBy(plan[p], 100) THEN Critical ELSE Warning, p,
                          MisestimateRemedy(plan[p]))
  <2>1. f \in AnalyzePlan(plan)
    BY <1>1, Zenon DEF AnalyzePlan, MisestimateFindings
  <2> QED
    BY <2>1 DEF Finding
<1>2. ASSUME LoopsOften(plan, p)
      PROVE  \E f \in AnalyzePlan(plan) : f.check = "plan.nested_loop" /\ f.subject = p
  <2> DEFINE f == Finding("plan.nested_loop",
                          IF plan[LastChild(plan, p)].loops >= 10 * LoopThreshold
                          THEN Critical ELSE Warning, p, "fix_outer")
  <2>1. f \in AnalyzePlan(plan)
    BY <1>2, Zenon DEF AnalyzePlan, NestedLoopFindings
  <2> QED
    BY <2>1 DEF Finding
<1> QED
  BY <1>1, <1>2, Zenon
-----------------------------------------------------------------------------
(* The plan command *)

\* What is left of a script is an end of it; what was found is about nodes of the plan.
TypeInv == CommandInv /\ TypeOK

\* The findings are those of the whole plan, and of a plan that was read.
FoundInv ==
  /\ call \in Calls
  /\ findings = {} \/ (/\ Parse(call.document) = "parsed"
                       /\ findings = AnalyzePlan(call.document.nodes))

\* Not read yet; turned away; or read, and the rest is printing.
PlanInv ==
  /\ CommandInv
  /\ call.sub = "plan" =>
       \/ exit = Running /\ why = "none" /\ todo = Script(call)
       \/ exit = 1 /\ why = "bad_plan" /\ Parse(call.document) # "parsed"
       \/ /\ Parse(call.document) = "parsed"
          /\ findings = AnalyzePlan(call.document.nodes)
          /\ why # "bad_plan"
          /\ exit = Running => Within(todo, {"headline", "findings", "json", "finish"})

LEMMA EndOfScript ==
  ASSUME NEW s \in Seq(Steps)
  PROVE  /\ s = SubSeq(s, 0 + 1, Len(s)) /\ 0 \in 0..Len(s)
         /\ \A k \in 0..Len(s) : Len(SubSeq(s, k + 1, Len(s))) >= 1 =>
              /\ k + 1 \in 0..Len(s)
              /\ Tail(SubSeq(s, k + 1, Len(s))) = SubSeq(s, (k + 1) + 1, Len(s))
<1>1. Len(s) \in Nat
  BY LenProperties
<1>2. s = SubSeq(s, 0 + 1, Len(s))
  <2>1. 0 + 1 = 1
    OBVIOUS
  <2> QED
    BY <2>1, SubSeqFull
<1>3. ASSUME NEW k \in 0..Len(s), Len(SubSeq(s, k + 1, Len(s))) >= 1
      PROVE  /\ k + 1 \in 0..Len(s)
             /\ Tail(SubSeq(s, k + 1, Len(s))) = SubSeq(s, (k + 1) + 1, Len(s))
  <2>1. k # Len(s)
    <3> SUFFICES ASSUME k = Len(s) PROVE FALSE
      OBVIOUS
    <3>1. SubSeq(s, k + 1, Len(s)) = << >>
      BY <1>1, SubSeqEmpty
    <3> QED
      BY <1>3, <3>1
  <2>2. k + 1 \in 1..Len(s) /\ Len(s) \in k + 1..Len(s)
    BY <1>1, <2>1
  <2>3. Tail(SubSeq(s, k + 1, Len(s))) = SubSeq(s, (k + 1) + 1, Len(s))
    BY <2>2, HeadTailOfSubSeq
  <2> QED
    BY <2>2, <2>3
<1> QED
  BY <1>1, <1>2, <1>3

LEMMA TypeNext == TypeInv /\ [Next]_vars => TypeInv'
<1> SUFFICES ASSUME TypeInv, [Next]_vars PROVE TypeInv'
  OBVIOUS
<1>1. CommandInv' /\ CommandInv /\ call \in Calls
  BY CommandNext DEF TypeInv, CommandInv
<1>2. Script(call) \in Seq(Steps)
  BY <1>1, ScriptFits DEF Fits, EndsOnce
<1> DEFINE nodes == call.document.nodes
<1>3. /\ exit = Running => why = "none" /\ todo \in Seq(Steps) /\ Len(todo) >= 1
      /\ Running # 1 /\ Running # 0
  BY <1>1 DEF CommandInv, EndsOnce, Running
<1>4. ASSUME exit = Running, todo' = Tail(todo), call' = call
      PROVE  \E k \in 0..Len(Script(call')) :
               todo' = SubSeq(Script(call'), k + 1, Len(Script(call')))
  <2>1. PICK k \in 0..Len(Script(call)) :
          todo = SubSeq(Script(call), k + 1, Len(Script(call)))
    BY DEF TypeInv, TypeOK
  <2>2. /\ k + 1 \in 0..Len(Script(call))
        /\ Tail(todo) = SubSeq(Script(call), (k + 1) + 1, Len(Script(call)))
    BY <1>2, <1>3, <1>4, <2>1, EndOfScript
  <2> QED
    BY <1>4, <2>2
<1>5. ASSUME NEW reason \in {"server", "unsupported", "no_pgstattuple", "bad_plan", "markup"},
             Fail(reason)
      PROVE  TypeInv'
  BY <1>1, <1>5 DEF Fail, TypeInv, TypeOK, CommandInv
<1>6. ASSUME exit = Running, todo' = Tail(todo), UNCHANGED <<call, server, why>>,
             \A f \in findings' : f.subject \in DOMAIN nodes /\ f.severity \in levels',
             \A i \in DOMAIN out' : out'[i] \in Output \cup {"no_findings", "json"}
      PROVE  TypeInv'
  <2>1. /\ levels' \subseteq Severities /\ exit' \in {Running, 0, 1} /\ server \in Servers
        /\ why = "none"
    BY <1>1, <1>3, <1>6 DEF CommandInv
  <2>2. (\E k \in 0..Len(Script(call)) :
           todo = SubSeq(Script(call), k + 1, Len(Script(call))))'
    BY <1>4, <1>6
  <2> QED
    BY <1>1, <1>6, <2>1, <2>2 DEF TypeInv, TypeOK
<1>7. ASSUME NEW line \in Output \cup {"no_findings", "json"}, out' = Append(out, line)
      PROVE  \A i \in DOMAIN out' : out'[i] \in Output \cup {"no_findings", "json"}
  <2> DEFINE L == Output \cup {"no_findings", "json"}
  <2>1. out \in Seq(L)
    <3>1. out \in Seq(Output \cup {"no_findings"}) \/ out = << >> \/ out = <<"json">>
             \/ out \in {<<"json">>, << >>}
      <4>1. CASE ~call.json
        BY <1>1, <4>1 DEF CommandInv, TextInv
      <4>2. CASE call.json
        BY <1>1, <4>2 DEF CommandInv, JsonInv, JsonTellsFailureApart, Ended
      <4> QED
        BY <4>1, <4>2
    <3>2. << >> \in Seq(L) /\ <<"json">> \in Seq(L)
      OBVIOUS
    <3>3. Seq(Output \cup {"no_findings"}) \subseteq Seq(L)
      OBVIOUS
    <3> QED
      BY <3>1, <3>2, <3>3
  <2> HIDE DEF L
  <2>2. out' \in Seq(L)
    BY <1>7, <2>1, AppendProperties DEF L
  <2> QED
    BY <2>2, ElementOfSeq, LenProperties DEF L
<1>8. CASE Answered
  <2>1. PICK found \in SUBSET Levels(call, Head(todo)) : levels' = levels \cup found
    BY <1>8 DEF Answered
  <2>2. /\ exit = Running /\ todo' = Tail(todo)
        /\ UNCHANGED <<call, server, findings, out, why>>
    BY <1>8 DEF Answered, Statement, Comes
  <2> QED
    BY <1>6, <2>1, <2>2 DEF TypeInv, TypeOK
<1>9. CASE ServerFails
  BY <1>5, <1>9 DEF ServerFails
<1>10. CASE Refuse
  BY <1>5, <1>10 DEF Refuse
<1>11. CASE ReadPlan
  <2>1. CASE Parse(call.document) = "parsed"
    <3>1. /\ exit = Running /\ todo' = Tail(todo) /\ findings' = AnalyzePlan(nodes)
          /\ levels' = {f.severity : f \in findings'}
          /\ UNCHANGED <<call, server, out, why>>
      BY <1>11, <2>1 DEF ReadPlan, Comes
    <3>2. \A f \in findings' : f.subject \in DOMAIN nodes /\ f.severity \in levels'
      BY <3>1, FindingsAre
    <3> QED
      BY <1>6, <3>1, <3>2 DEF TypeInv, TypeOK
  <2>2. CASE Parse(call.document) # "parsed"
    BY <1>5, <1>11, <2>2 DEF ReadPlan
  <2> QED
    BY <2>1, <2>2
<1>12. CASE PrintText
  <2>1. /\ exit = Running /\ todo' = Tail(todo) /\ out' = Append(out, Prints(Head(todo)))
        /\ UNCHANGED <<call, server, levels, findings, why>>
    BY <1>12 DEF PrintText, Comes
  <2>2. Prints(Head(todo)) \in Output \cup {"no_findings", "json"}
    BY <1>12 DEF PrintText, Comes, Prints
  <2> QED
    BY <1>6, <1>7, <2>1, <2>2 DEF TypeInv, TypeOK
<1>13. CASE MarkupFails
  BY <1>5, <1>13 DEF MarkupFails
<1>14. CASE EmitJson
  <2>1. /\ exit = Running /\ todo' = Tail(todo)
        /\ out' = Append(out, "json") \/ out' = out
        /\ UNCHANGED <<call, server, levels, findings, why>>
    BY <1>14 DEF EmitJson, Comes
  <2> QED
    BY <1>6, <1>7, <2>1 DEF TypeInv, TypeOK
<1>15. CASE Finish
  BY <1>6, <1>15 DEF Finish, Comes, TypeInv, TypeOK
<1>16. CASE UNCHANGED vars
  BY <1>1, <1>16 DEF vars, TypeInv, TypeOK
<1> QED
  BY <1>8, <1>9, <1>10, <1>11, <1>12, <1>13, <1>14, <1>15, <1>16 DEF Next

\* A command runs its script in order and skips nothing; its findings are about nodes
\* of the plan, and have the levels that decide the exit status.
THEOREM TypeCorrect == Spec => []TypeOK
<1>1. Init => TypeInv
  <2> SUFFICES ASSUME Init PROVE TypeInv
    OBVIOUS
  <2>1. CommandInv /\ Script(call) \in Seq(Steps)
    BY CommandInit, ScriptFits DEF Init, Fits, EndsOnce
  <2>2. \E k \in 0..Len(Script(call)) : todo = SubSeq(Script(call), k + 1, Len(Script(call)))
    BY <2>1, EndOfScript DEF Init
  <2> QED
    BY <2>1, <2>2 DEF Init, TypeInv, TypeOK, CommandInv
<1>2. TypeInv => TypeOK
  BY DEF TypeInv
<1> QED
  BY <1>1, <1>2, TypeNext, PTL DEF Spec

LEMMA AfterFirst ==
  ASSUME NEW x \in Steps, NEW t, NEW A, Within(t, A)
  PROVE  Head(<<x>> \o t) = x /\ Within(Tail(<<x>> \o t), A)
<1> DEFINE s == <<x>> \o t
           one == <<x>>
<1>1. one \in Seq(Steps) /\ Len(one) = 1 /\ one[1] = x /\ t \in Seq(Steps)
  BY DEF Within
<1>2. /\ s \in Seq(Steps) /\ Len(s) = 1 + Len(t) /\ Len(t) \in Nat
      /\ s[1] = x /\ \A i \in 1..Len(t) : s[1 + i] = t[i]
  <2> HIDE DEF one
  <2>1. /\ one \o t \in Seq(Steps) /\ Len(one \o t) = Len(one) + Len(t) /\ Len(t) \in Nat
        /\ \A i \in 1..Len(one) : (one \o t)[i] = one[i]
        /\ \A i \in 1..Len(t) : (one \o t)[Len(one) + i] = t[i]
    BY <1>1, Concat
  <2> QED
    BY <1>1, <2>1 DEF one
<1> HIDE DEF s, one
<1>3. /\ Head(s) = s[1] /\ Tail(s) \in Seq(Steps) /\ Len(Tail(s)) = Len(s) - 1
      /\ \A i \in 1..Len(s) - 1 : Tail(s)[i] = s[i + 1]
  BY <1>2, TailOf
<1>4. Head(s) = x /\ Within(Tail(s), A)
  BY <1>2, <1>3 DEF Within
<1> QED
  BY <1>4 DEF s

LEMMA PlanIsReadFirst ==
  ASSUME NEW c \in Calls, c.sub = "plan"
  PROVE  /\ Head(Script(c)) = "parse"
         /\ Within(Tail(Script(c)), {"headline", "findings", "json", "finish"})
<1> DEFINE Left == {"headline", "findings", "json", "finish"}
           parse == <<"parse">>
           text == IfText(c, <<"headline", "findings">>)
           end == <<"json", "finish">>
<1>1. "parse" \in Steps /\ parse \in Seq(Steps)
  BY DEF Steps
<1>2. Within(text, Left) /\ Within(end, Left)
  <2>1. Within(<<"headline", "findings">>, Left)
    BY DEF Within, Steps, Output
  <2>2. Within(<< >>, Left)
    BY DEF Within
  <2>3. Within(end, Left)
    BY DEF Within, Steps
  <2> QED
    BY <2>1, <2>2, <2>3 DEF IfText
<1>3. Script(c) = (parse \o text) \o end
  BY DEF Script, Plan
<1> HIDE DEF Left, text, end
<1>4. Within(text \o end, Left)
  BY <1>2, WithinConcat
<1>5. Script(c) = parse \o (text \o end)
  BY <1>1, <1>2, <1>3, ConcatAssociative DEF Within
<1>6. Head(Script(c)) = "parse" /\ Within(Tail(Script(c)), Left)
  BY <1>1, <1>4, <1>5, AfterFirst
<1> QED
  BY <1>6 DEF Left

LEMMA PlanNext == PlanInv /\ FoundInv /\ [Next]_vars => PlanInv' /\ FoundInv'
<1> SUFFICES ASSUME PlanInv, FoundInv, [Next]_vars PROVE PlanInv' /\ FoundInv'
  OBVIOUS
<1>1. CommandInv' /\ CommandInv /\ call \in Calls
  BY CommandNext DEF PlanInv, CommandInv
<1> DEFINE Left == {"headline", "findings", "json", "finish"}
<1>2. /\ exit = Running => why = "none" /\ todo \in Seq(Steps) /\ Len(todo) >= 1
      /\ Running # 1 /\ Running # 0
  BY <1>1 DEF CommandInv, EndsOnce, Running
<1>3. ASSUME NEW reason, Fail(reason), exit = Running, Head(todo) # "parse",
             reason # "bad_plan"
      PROVE  PlanInv' /\ FoundInv'
  <2>1. ~(call.sub = "plan" /\ todo = Script(call))
    BY <1>1, <1>3, PlanIsReadFirst
  <2>2. /\ exit' = 1 /\ why' = reason /\ UNCHANGED <<call, findings>>
        /\ exit # 1 /\ exit' # Running
    BY <1>2, <1>3 DEF Fail
  <2> QED
    BY <1>1, <1>3, <2>1, <2>2 DEF PlanInv, FoundInv
<1>4. ASSUME exit = Running, Head(todo) # "parse", todo' = Tail(todo),
             UNCHANGED <<call, findings, why>>
      PROVE  PlanInv' /\ FoundInv'
  <2>1. Within(todo, Left) => Within(Tail(todo), Left)
    BY <1>2, <1>4, WithinTail
  <2>2. ~(call.sub = "plan" /\ todo = Script(call))
    BY <1>1, <1>4, PlanIsReadFirst
  <2>3. exit # 1 /\ why = "none"
    BY <1>2, <1>4
  <2> QED
    BY <1>1, <1>4, <2>1, <2>2, <2>3 DEF PlanInv, FoundInv
<1>5. CASE Answered
  BY <1>4, <1>5 DEF Answered, Statement, Comes
<1>6. CASE ServerFails
  BY <1>3, <1>6 DEF ServerFails, Statement, Comes
<1>7. CASE Refuse
  <2>1. Fail("unsupported") \/ Fail("no_pgstattuple")
    BY <1>7 DEF Refuse
  <2>2. exit = Running /\ Head(todo) # "parse"
    BY <1>7 DEF Refuse, Statement, Comes
  <2> QED
    BY <1>3, <2>1, <2>2
<1>8. CASE ReadPlan
  <2>1. exit = Running /\ Head(todo) = "parse"
    BY <1>8 DEF ReadPlan, Comes
  <2>2. CASE Parse(call.document) = "parsed"
    <3>1. /\ findings' = AnalyzePlan(call.document.nodes)
          /\ todo' = Tail(todo) /\ UNCHANGED <<call, exit, why>>
      BY <1>8, <2>2 DEF ReadPlan
    <3>2. call.sub = "plan" => Within(Tail(todo), Left)
      <4> SUFFICES ASSUME call.sub = "plan" PROVE Within(Tail(todo), Left)
        OBVIOUS
      <4>1. ~Within(todo, Left)
        BY <1>2, <2>1, WithinTail
      <4>2. todo = Script(call)
        BY <1>2, <2>1, <4>1 DEF PlanInv
      <4> QED
        BY <1>1, <4>2, PlanIsReadFirst
    <3> QED
      BY <1>1, <1>2, <2>1, <2>2, <3>1, <3>2 DEF PlanInv, FoundInv
  <2>3. CASE Parse(call.document) # "parsed"
    <3>1. Fail("bad_plan")
      BY <1>8, <2>3 DEF ReadPlan
    <3> QED
      BY <1>1, <1>2, <2>3, <3>1 DEF Fail, PlanInv, FoundInv
  <2> QED
    BY <2>2, <2>3
<1>9. CASE PrintText
  BY <1>4, <1>9 DEF PrintText, Comes, Output
<1>10. CASE MarkupFails
  BY <1>3, <1>10 DEF MarkupFails, Comes
<1>11. CASE EmitJson
  BY <1>4, <1>11 DEF EmitJson, Comes
<1>12. CASE Finish
  BY <1>4, <1>12 DEF Finish, Comes
<1>13. CASE UNCHANGED vars
  BY <1>1, <1>13 DEF vars, PlanInv, FoundInv
<1> QED
  BY <1>5, <1>6, <1>7, <1>8, <1>9, <1>10, <1>11, <1>12, <1>13 DEF Next

LEMMA PlanInit == Init => PlanInv /\ FoundInv
<1> SUFFICES ASSUME Init PROVE PlanInv /\ FoundInv
  OBVIOUS
<1>1. CommandInv /\ call \in Calls
  BY CommandInit DEF CommandInv
<1>2. FoundInv
  BY <1>1 DEF Init, FoundInv
<1> QED
  BY <1>1, <1>2 DEF Init, PlanInv

\* The plan command has not read its document, has turned it away, or holds the findings
\* of the whole plan and has nothing left but to print them.
THEOREM PlanHolds == Spec => [](PlanInv /\ FoundInv)
BY PlanInit, PlanNext, PTL DEF Spec

LEMMA ParsedIs ==
  ASSUME NEW document
  PROVE  Parse(document) = "parsed" <=>
           document.core = "plan" /\ OutOfQueryPlan(Unlisted(document.wrappers)) = << >>
BY DEF Parse

LEMMA PlanThatWasRead ==
  ASSUME call \in Calls, Parse(call.document) = "parsed"
  PROVE  IsExecution(call.document.nodes)
BY ParsedIs, CallsAssumption DEF IsDocument

\* What is said of a plan is true of the execution, for every plan one can leave, every
\* factor and every threshold: what the code reads is rounded, by a third at most where
\* there was a row per loop, and the rules multiply by the loops where they have to.
THEOREM FindingsAreReal == Spec => []PlanFindingsAreReal
<1>1. FoundInv => PlanFindingsAreReal
  <2> SUFFICES ASSUME FoundInv, NEW f \in findings
               PROVE  LET n == call.document.nodes[f.subject]
                          expected == Larger(n.est, 1) * n.loops
                      IN /\ f.check = "plan.misestimate" /\ Measured(n) =>
                              \/ 3 * expected >= 2 * MisestimateFactor * n.rows
                              \/ 3 * n.rows >= 2 * MisestimateFactor * expected
                         /\ f.check = "plan.nested_loop" /\ PlainLoop(f.subject) =>
                              OuterSide(f.subject).rows >= LoopThreshold
                         /\ f.check = "plan.heap_fetches" /\ f.severity = Warning
                              /\ Measured(n) => 15 * n.fetches >= n.rows
                         /\ f.check = "plan.filter_discard" /\ Measured(n) =>
                              n.removed >= 6 * n.rows
    BY DEF PlanFindingsAreReal
  <2> DEFINE plan == call.document.nodes
             n == plan[f.subject]
  <2>1. IsExecution(plan) /\ f \in AnalyzePlan(plan)
    BY PlanThatWasRead DEF FoundInv
  <2>2. /\ f.subject \in DOMAIN plan
        /\ f.check = "plan.misestimate" => Misestimated(n)
        /\ f.check = "plan.nested_loop" => LoopsOften(plan, f.subject)
        /\ f.check = "plan.heap_fetches" /\ f.severity = Warning =>
             10 * n.fetches >= Larger(TotalRows(n), 1)
        /\ f.check = "plan.filter_discard" => Discards(n)
    BY <2>1, FindingsAre
  <2>3. NodeOK(n)
    BY <2>1, <2>2, PathsAre
  <2>4. ASSUME f.check = "plan.nested_loop", PlainLoop(f.subject)
        PROVE  OuterSide(f.subject).rows >= LoopThreshold
    <3>1. /\ plan[f.subject].type = "Nested Loop"
          /\ plan[LastChild(plan, f.subject)].loops >= LoopThreshold
      BY <2>2, <2>4, Zenon DEF LoopsOften
    <3>2. PlainJoin(plan, f.subject)
      BY <2>4 DEF PlainLoop
    <3>3. plan[LastChild(plan, f.subject)].loops = plan[f.subject \o <<1>>].rows
      BY <2>1, <2>2, <3>1, <3>2, InnerSide, Zenon
    <3> QED
      BY <3>1, <3>3, Zenon DEF OuterSide
  <2>5. ASSUME f.check = "plan.misestimate", Measured(n)
        PROVE  LET expected == Larger(n.est, 1) * n.loops
               IN \/ 3 * expected >= 2 * MisestimateFactor * n.rows
                  \/ 3 * n.rows >= 2 * MisestimateFactor * expected
    <3>1. OutBy(n, MisestimateFactor)
      BY <2>2, <2>5 DEF Misestimated
    <3> HIDE DEF n
    <3> QED
      BY <2>3, <2>5, <3>1, MisestimateIsReal
  <2>6. ASSUME f.check = "plan.heap_fetches", f.severity = Warning, Measured(n)
        PROVE  15 * n.fetches >= n.rows
    <3> HIDE DEF n
    <3> QED
      BY <2>2, <2>3, <2>6, FetchesAreReal
  <2>7. ASSUME f.check = "plan.filter_discard", Measured(n)
        PROVE  n.removed >= 6 * n.rows
    <3> HIDE DEF n
    <3> QED
      BY <2>2, <2>3, <2>7, DiscardsAreReal
  <2> QED
    BY <2>4, <2>5, <2>6, <2>7
<1> QED
  BY <1>1, PlanHolds, PTL

\* And what is true of the execution is said, of every node of a plan that was read.
THEOREM TroubleIsReported == Spec => []PlanTroubleIsReported
<1>1. PlanInv => PlanTroubleIsReported
  <2> SUFFICES ASSUME PlanInv, call.sub = "plan", Ended, why = "none",
                      NEW path \in DOMAIN call.document.nodes
               PROVE  LET n == call.document.nodes[path]
                          expected == Larger(n.est, 1) * n.loops
                      IN /\ /\ Measured(n)
                            /\ n.rows >= 2 * MisestimateFloor \/ n.est >= MisestimateFloor
                            /\ \/ 2 * expected >= 3 * MisestimateFactor * n.rows
                               \/ 2 * n.rows >= 3 * MisestimateFactor * expected
                            => Finds("plan.misestimate", path)
                         /\ /\ n.type = "Nested Loop" /\ PlainLoop(path)
                            /\ OuterSide(path).rows >= LoopThreshold
                            => Finds("plan.nested_loop", path)
    BY Zenon DEF PlanTroubleIsReported
  <2> DEFINE plan == call.document.nodes
             n == plan[path]
  <2>1. call \in Calls /\ Parse(call.document) = "parsed" /\ findings = AnalyzePlan(plan)
    BY DEF PlanInv, CommandInv, Ended
  <2>2. IsExecution(plan)
    BY <2>1, PlanThatWasRead
  <2>3. NodeOK(n)
    BY <2>2, PathsAre
  <2>4. ASSUME Measured(n),
               n.rows >= 2 * MisestimateFloor \/ n.est >= MisestimateFloor,
               \/ 2 * (Larger(n.est, 1) * n.loops) >= 3 * MisestimateFactor * n.rows
               \/ 2 * n.rows >= 3 * MisestimateFactor * (Larger(n.est, 1) * n.loops)
        PROVE  Finds("plan.misestimate", path)
    <3>1. Misestimated(n)
      <4> HIDE DEF n
      <4> QED
        BY <2>3, <2>4, MisestimateIsNoticed
    <3> QED
      BY <2>1, <3>1, FindingsInclude DEF Finds
  <2>5. LoopsOften(plan, path) => Finds("plan.nested_loop", path)
    BY <2>1, FindingsInclude DEF Finds
  <2>6. ASSUME n.type = "Nested Loop", PlainLoop(path), OuterSide(path).rows >= LoopThreshold
        PROVE  Finds("plan.nested_loop", path)
    <3>1. PlainJoin(plan, path) /\ plan[path \o <<1>>].rows >= LoopThreshold
      BY <2>6, Zenon DEF PlainLoop, OuterSide
    <3>2. LoopsOften(plan, path)
      BY <2>2, <2>6, <3>1, InnerSide, Zenon DEF LoopsOften
    <3> QED
      BY <2>5, <3>2, Zenon
  <2> QED
    BY <2>4, <2>6, Zenon
<1> QED
  BY <1>1, PlanHolds, PTL

-----------------------------------------------------------------------------
(* The shapes of a document *)

Wrapper == {"list", "query_plan"}

\* k lists are outside.
Lists(w, k) ==
  /\ k \in 0..Len(w)
  /\ \A i \in 1..k : w[i] = "list"
  /\ k < Len(w) => w[k + 1] # "list"

LEMMA ListsEnd ==
  ASSUME NEW w \in Seq(Wrapper)
  PROVE  \E k : Lists(w, k)
<1> DEFINE Ends == {k \in 0..Len(w) : k < Len(w) => w[k + 1] # "list"}
<1>1. Len(w) \in Nat
  BY LenProperties
<1>2. Ends \in SUBSET Nat /\ Ends # {}
  <2>1. Len(w) \in Ends
    BY <1>1
  <2>2. 0..Len(w) \subseteq Nat
    BY <1>1
  <2> QED
    BY <2>1, <2>2
<1>3. PICK k \in Ends : \A m \in Ends : ~(<<m, k>> \in OpToRel(<, Nat))
  <2> HIDE DEF Ends
  <2> QED
    BY <1>2, WFMin, NatLessThanWellFounded, Zenon
<1>4. \A m \in Ends : ~(m < k)
  BY <1>2, <1>3 DEF OpToRel
<1>5. ASSUME NEW i \in 1..k, w[i] # "list"
      PROVE  FALSE
  <2>1. k \in 0..Len(w)
    OBVIOUS
  <2>2. i - 1 \in 0..Len(w) /\ i - 1 < k /\ (i - 1) + 1 = i
    BY <1>1, <2>1
  <2>3. i - 1 \in Ends
    BY <1>5, <2>2
  <2> QED
    BY <1>4, <2>2, <2>3
<1> QED
  BY <1>5 DEF Lists

LEMMA UnlistedIs ==
  ASSUME NEW w \in Seq(Wrapper)
  PROVE  \E k : Lists(w, k) /\ Unlisted(w) = SubSeq(w, k + 1, Len(w))
<1> DEFINE P(k) == /\ \A i \in 1..k : w[i] = "list"
                   /\ k < Len(w) => w[k + 1] # "list"
           lists == CHOOSE k \in 0..Len(w) : P(k)
<1>1. \E k \in 0..Len(w) : P(k)
  BY ListsEnd DEF Lists
<1>2. lists \in 0..Len(w) /\ P(lists)
  <2> HIDE DEF P
  <2> QED
    BY <1>1, Zenon
<1>3. Unlisted(w) = SubSeq(w, lists + 1, Len(w))
  BY Zenon DEF Unlisted
<1>4. Lists(w, lists)
  BY <1>2, Zenon DEF Lists
<1> QED
  BY <1>3, <1>4, Zenon

\* The positions of QUERY PLAN.
QueryPlans(w) == {i \in DOMAIN w : w[i] = "query_plan"}

LEMMA OneAtMost ==
  ASSUME NEW w \in Seq(Wrapper)
  PROVE  Cardinality(QueryPlans(w)) <= 1
           <=> \A i \in QueryPlans(w), j \in QueryPlans(w) : i = j
<1> DEFINE Q == QueryPlans(w)
<1>1. IsFiniteSet(Q) /\ Cardinality(Q) \in Nat
  <2>1. Len(w) \in Nat /\ DOMAIN w = 1..Len(w)
    BY LenProperties
  <2>2. IsFiniteSet(DOMAIN w)
    BY <2>1, FS_Interval
  <2>3. Q \in SUBSET DOMAIN w
    BY DEF QueryPlans
  <2> QED
    BY <2>2, <2>3, FS_Subset, FS_CardinalityType
<1> HIDE DEF Q
<1>2. ASSUME NEW i \in Q, NEW j \in Q, i # j
      PROVE  Cardinality(Q) >= 2
  <2>1. {i, j} \in SUBSET Q /\ Cardinality({i, j}) = 2
    BY <1>2, PairHasTwo
  <2>2. Cardinality({i, j}) <= Cardinality(Q)
    BY <1>1, <2>1, FS_Subset
  <2> QED
    BY <1>1, <2>1, <2>2
<1>3. ASSUME \A i \in Q, j \in Q : i = j
      PROVE  Cardinality(Q) <= 1
  <2>1. CASE Q = {}
    <3>1. Cardinality(Q) = 0
      BY <2>1, FS_EmptySet
    <3> QED
      BY <3>1
  <2>2. CASE Q # {}
    <3>1. PICK i \in Q : Q = {i}
      <4>1. PICK i : i \in Q
        BY <2>2
      <4>2. Q = {i}
        BY <1>3, <4>1
      <4> QED
        BY <4>1, <4>2
    <3>2. Cardinality(Q) = 1
      BY <3>1, FS_Singleton
    <3> QED
      BY <3>2
  <2> QED
    BY <2>1, <2>2
<1>4. Cardinality(Q) <= 1 => \A i \in Q, j \in Q : i = j
  <2>1. ~(Cardinality(Q) >= 2 /\ Cardinality(Q) <= 1)
    BY <1>1
  <2> QED
    BY <1>2, <2>1
<1> QED
  BY <1>3, <1>4 DEF Q

LEMMA EndOf ==
  ASSUME NEW S, NEW w \in Seq(S), NEW k \in 0..Len(w)
  PROVE  LET e == SubSeq(w, k + 1, Len(w))
         IN /\ e \in Seq(S) /\ Len(e) = Len(w) - k /\ Len(w) \in Nat
            /\ \A i \in 1..Len(w) - k : e[i] = w[k + i]
            /\ e = << >> <=> k = Len(w)
<1> DEFINE e == SubSeq(w, k + 1, Len(w))
<1>1. Len(w) \in Nat
  BY LenProperties
<1>2. k + 1 \in Int /\ Len(w) \in Int /\ k \in Nat
  BY <1>1
<1>3. \A i \in k + 1..Len(w) : w[i] \in S
  <2> SUFFICES ASSUME NEW i \in k + 1..Len(w) PROVE w[i] \in S
    OBVIOUS
  <2>1. i \in 1..Len(w)
    BY <1>1
  <2> QED
    BY <2>1, ElementOfSeq
<1>4. /\ e \in Seq(S)
      /\ Len(e) = IF k + 1 <= Len(w) THEN Len(w) - (k + 1) + 1 ELSE 0
      /\ \A i \in 1..Len(w) - (k + 1) + 1 : e[i] = w[(k + 1) + i - 1]
  BY <1>2, <1>3, SubSeqProperties
<1> HIDE DEF e
<1>5. Len(e) = Len(w) - k
  BY <1>1, <1>2, <1>4
<1>6. \A i \in 1..Len(w) - k : e[i] = w[k + i]
  <2> SUFFICES ASSUME NEW i \in 1..Len(w) - k PROVE e[i] = w[k + i]
    OBVIOUS
  <2>1. i \in 1..Len(w) - (k + 1) + 1 /\ (k + 1) + i - 1 = k + i
    BY <1>1, <1>2
  <2> QED
    BY <1>4, <2>1
<1>7. e = << >> <=> k = Len(w)
  <2>1. e = << >> <=> Len(e) = 0
    BY <1>4, EmptySeq
  <2> QED
    BY <1>1, <1>5, <2>1
<1> QED
  BY <1>1, <1>4, <1>5, <1>6, <1>7 DEF e

\* Lists outside, a QUERY PLAN, lists inside: what is left then is a second QUERY PLAN.
LEMMA Unwraps ==
  ASSUME NEW w \in Seq(Wrapper)
  PROVE  OutOfQueryPlan(Unlisted(w)) = << >> <=> Cardinality(QueryPlans(w)) <= 1
<1> DEFINE u == Unlisted(w)
<1>1. PICK k : Lists(w, k) /\ u = SubSeq(w, k + 1, Len(w))
  BY UnlistedIs
<1>2. /\ k \in 0..Len(w) /\ Len(w) \in Nat
      /\ \A i \in 1..k : w[i] = "list"
      /\ k < Len(w) => w[k + 1] # "list"
  BY <1>1, LenProperties DEF Lists
<1>3. /\ u \in Seq(Wrapper) /\ Len(u) = Len(w) - k
      /\ \A i \in 1..Len(w) - k : u[i] = w[k + i]
      /\ u = << >> <=> k = Len(w)
  BY <1>1, <1>2, EndOf
<1>4. DOMAIN w = 1..Len(w) /\ \A i \in 1..Len(w) : w[i] \in Wrapper
  BY LenProperties, ElementOfSeq
<1> HIDE DEF u
<1>5. CASE k = Len(w)
  <2>1. u = << >> /\ OutOfQueryPlan(u) = << >>
    BY <1>3, <1>5 DEF OutOfQueryPlan
  <2>2. \A i \in QueryPlans(w), j \in QueryPlans(w) : i = j
    BY <1>2, <1>4, <1>5 DEF QueryPlans
  <2> QED
    BY <2>1, <2>2, OneAtMost DEF u
<1>6. CASE k < Len(w)
  <2> DEFINE t == Tail(u)
  <2>1. u # << >> /\ Head(u) = u[1] /\ u[1] = w[k + 1]
    BY <1>2, <1>3, <1>6
  <2>2. k + 1 \in QueryPlans(w)
    BY <1>2, <1>4, <1>6 DEF QueryPlans, Wrapper
  <2>3. w[k + 1] = "query_plan"
    BY <2>2 DEF QueryPlans
  <2>4. OutOfQueryPlan(u) = Unlisted(t)
    BY <2>1, <2>3 DEF OutOfQueryPlan
  <2>5. /\ t \in Seq(Wrapper) /\ Len(t) = Len(u) - 1
        /\ \A i \in 1..Len(t) : t[i] = u[i + 1]
    BY <1>3, <2>1, HeadTailProperties
  <2> HIDE DEF t
  <2>6. PICK m : Lists(t, m) /\ Unlisted(t) = SubSeq(t, m + 1, Len(t))
    BY <2>5, UnlistedIs
  <2>7. /\ m \in 0..Len(t) /\ Len(t) = Len(w) - k - 1
        /\ \A i \in 1..m : t[i] = "list"
        /\ m < Len(t) => t[m + 1] # "list"
    BY <1>2, <1>3, <2>5, <2>6 DEF Lists
  <2>8. Unlisted(t) = << >> <=> m = Len(t)
    BY <2>5, <2>6, <2>7, EndOf
  <2>9. \A i \in 1..Len(t) : t[i] = w[(k + 1) + i]
    <3> SUFFICES ASSUME NEW i \in 1..Len(t) PROVE t[i] = w[(k + 1) + i]
      OBVIOUS
    <3>1. i + 1 \in 1..Len(w) - k /\ k + (i + 1) = (k + 1) + i
      BY <1>2, <2>7
    <3> QED
      BY <1>3, <2>5, <3>1
  <2>10. CASE m = Len(t)
    <3>1. ASSUME NEW i \in QueryPlans(w) PROVE i = k + 1
      <4>1. i \in 1..Len(w) /\ w[i] = "query_plan"
        BY <1>4 DEF QueryPlans
      <4>2. ~(i <= k)
        BY <1>2, <4>1
      <4>3. ~(i > k + 1)
        <5> SUFFICES ASSUME i > k + 1 PROVE FALSE
          OBVIOUS
        <5>1. i - (k + 1) \in 1..Len(t) /\ (k + 1) + (i - (k + 1)) = i
          BY <1>2, <2>7, <4>1
        <5> QED
          BY <2>7, <2>9, <2>10, <4>1, <5>1
      <4> QED
        BY <1>2, <4>1, <4>2, <4>3
    <3>2. Cardinality(QueryPlans(w)) <= 1
      BY <3>1, OneAtMost
    <3> QED
      BY <2>4, <2>8, <2>10, <3>2 DEF u
  <2>11. CASE m # Len(t)
    <3>1. m + 1 \in 1..Len(t) /\ t[m + 1] # "list"
      BY <1>2, <2>7, <2>11
    <3>2. (k + 1) + (m + 1) \in 1..Len(w) /\ (k + 1) + (m + 1) # k + 1
      BY <1>2, <2>7, <3>1
    <3>3. (k + 1) + (m + 1) \in QueryPlans(w)
      BY <1>4, <2>9, <3>1, <3>2 DEF QueryPlans, Wrapper
    <3>4. ~(Cardinality(QueryPlans(w)) <= 1)
      BY <2>2, <3>2, <3>3, OneAtMost
    <3> QED
      BY <2>4, <2>8, <2>11, <3>4 DEF u
  <2> QED
    BY <2>10, <2>11
<1> QED
  BY <1>2, <1>5, <1>6

\* Every nesting of lists and at most one QUERY PLAN is read, for wrappers of any depth;
\* nothing else is.
THEOREM AnyShapeIsRead == Spec => []ShapeDoesNotMatter
<1>1. PlanInv => ShapeDoesNotMatter
  <2> SUFFICES ASSUME PlanInv, Ended, call.sub = "plan"
               PROVE  why # "bad_plan"
                        <=> /\ call.document.core = "plan"
                            /\ Cardinality(QueryPlans(call.document.wrappers)) <= 1
    BY DEF ShapeDoesNotMatter, QueryPlans
  <2>1. call.document.wrappers \in Seq(Wrapper)
    BY CallsAssumption DEF PlanInv, CommandInv, IsDocument, Wrapper
  <2>2. why # "bad_plan" <=> Parse(call.document) = "parsed"
    BY DEF PlanInv, Ended
  <2> QED
    BY <2>1, <2>2, ParsedIs, Unwraps
<1> QED
  BY <1>1, PlanHolds, PTL
=============================================================================
