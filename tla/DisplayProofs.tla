------------------------------ MODULE DisplayProofs ------------------------------
(***************************************************************************)
(* Proofs about what the page makes of the text of a verdict, for every    *)
(* text.                                                                   *)
(***************************************************************************)
EXTENDS Display, VerdictProofs, SequenceTheorems

--------------------------------------------------------------------------------
(* The loop over the lines.                                                *)

(* f lists the states of the loop over the first m lines.                  *)
Loop(f, lines, m) ==
  f = [n \in 0..m |-> IF n = 0 THEN Start ELSE Sort(f[n - 1], lines[n])]

(* There is such a list for any number of lines.                           *)
LEMMA LoopExists ==
  ASSUME NEW lines, NEW m \in Nat
  PROVE  \E f : Loop(f, lines, m)
<1> DEFINE S == {k \in Nat : ~\E f : Loop(f, lines, k)}
<1> SUFFICES ASSUME S # {} PROVE FALSE
  OBVIOUS
<1> DEFINE k == First(S)
<1>1. k \in S /\ \A l \in S : k <= l
  BY FirstIn
<1>2. \E f : Loop(f, lines, 0)
  <2>1. Loop([n \in 0..0 |-> Start], lines, 0)
    BY DEF Loop
  <2> QED BY <2>1
<1>3. k # 0
  BY <1>1, <1>2
<1>4. PICK f : Loop(f, lines, k - 1)
  <2>1. k - 1 \in Nat /\ ~(k <= k - 1)
    BY <1>1, <1>3
  <2> QED BY <1>1, <2>1
<1> DEFINE g == [n \in 0..k |-> IF n = k THEN Sort(f[k - 1], lines[k]) ELSE f[n]]
<1>5. Loop(g, lines, k)
  <2> HIDE DEF k
  <2>1. k \in Nat \ {0}
    BY <1>1, <1>3
  <2>2. \A n \in 0..(k - 1) : f[n] = IF n = 0 THEN Start ELSE Sort(f[n - 1], lines[n])
    BY <1>4 DEF Loop
  <2>3. \A n \in 0..k : g[n] = IF n = 0 THEN Start ELSE Sort(g[n - 1], lines[n])
    <3> SUFFICES ASSUME NEW n \in 0..k
                 PROVE  g[n] = IF n = 0 THEN Start ELSE Sort(g[n - 1], lines[n])
      OBVIOUS
    <3>1. CASE n = k
      BY <2>1, <3>1
    <3>2. CASE n # k
      <4>1. n \in 0..(k - 1) /\ (n # 0 => n - 1 \in 0..k /\ n - 1 # k)
        BY <2>1, <3>2
      <4> QED BY <2>2, <4>1, <3>2
    <3> QED BY <3>1, <3>2
  <2> HIDE DEF g
  <2>4. g = [n \in 0..k |-> g[n]]
    BY DEF g
  <2> QED BY <2>3, <2>4 DEF Loop
<1> QED BY <1>1, <1>5

(* The loop starts at Start and sorts one line after the other.            *)
LEMMA SortedLoop ==
  ASSUME NEW S, NEW lines \in Seq(S)
  PROVE  /\ Sorted(lines)[0] = Start
         /\ \A n \in 1..Len(lines) :
              Sorted(lines)[n] = Sort(Sorted(lines)[n - 1], lines[n])
<1>1. Len(lines) \in Nat
  OBVIOUS
<1>2. PICK f : Loop(f, lines, Len(lines))
  BY <1>1, LoopExists
<1>3. Sorted(lines) = CHOOSE g : Loop(g, lines, Len(lines))
  BY DEF Sorted, Loop
<1>4. Loop(Sorted(lines), lines, Len(lines))
  BY <1>2, <1>3
<1>5. \A n \in 0..Len(lines) :
        Sorted(lines)[n] = IF n = 0 THEN Start ELSE Sort(Sorted(lines)[n - 1], lines[n])
  BY <1>4 DEF Loop
<1> QED BY <1>1, <1>5

--------------------------------------------------------------------------------
(* What the elements of a sequence are.                                    *)
LEMMA ElementsConcat ==
  ASSUME NEW S, NEW s \in Seq(S), NEW t \in Seq(S)
  PROVE  s \o t \in Seq(S) /\ Elements(s \o t) = Elements(s) \cup Elements(t)
<1>1. /\ s \o t \in Seq(S) /\ Len(s \o t) = Len(s) + Len(t)
      /\ \A i \in 1..(Len(s) + Len(t)) :
           (s \o t)[i] = IF i <= Len(s) THEN s[i] ELSE t[i - Len(s)]
  BY ConcatProperties
<1>2. Len(s) \in Nat /\ Len(t) \in Nat /\ DOMAIN s = 1..Len(s) /\ DOMAIN t = 1..Len(t)
      /\ DOMAIN (s \o t) = 1..(Len(s) + Len(t))
  BY <1>1
<1> DEFINE u == s \o t
<1> HIDE DEF u
<1>3. /\ DOMAIN u = 1..(Len(s) + Len(t))
      /\ \A i \in 1..(Len(s) + Len(t)) : u[i] = IF i <= Len(s) THEN s[i] ELSE t[i - Len(s)]
  BY <1>1, <1>2 DEF u
<1>4. ASSUME NEW i \in DOMAIN s PROVE s[i] \in Elements(u)
  <2>1. i \in DOMAIN u /\ u[i] = s[i]
    BY <1>2, <1>3
  <2> QED BY <2>1 DEF Elements
<1>5. ASSUME NEW i \in DOMAIN t PROVE t[i] \in Elements(u)
  <2>1. Len(s) + i \in DOMAIN u /\ ~(Len(s) + i <= Len(s)) /\ Len(s) + i - Len(s) = i
    BY <1>2, <1>3
  <2>2. u[Len(s) + i] = t[i]
    BY <1>3, <2>1
  <2> QED BY <2>1, <2>2 DEF Elements
<1>6. ASSUME NEW i \in DOMAIN u PROVE u[i] \in Elements(s) \cup Elements(t)
  <2>1. CASE i <= Len(s)
    <3>1. i \in DOMAIN s /\ u[i] = s[i]
      BY <1>2, <1>3, <2>1
    <3> QED BY <3>1 DEF Elements
  <2>2. CASE ~(i <= Len(s))
    <3>1. i - Len(s) \in DOMAIN t /\ u[i] = t[i - Len(s)]
      BY <1>2, <1>3, <2>2
    <3> QED BY <3>1 DEF Elements
  <2> QED BY <2>1, <2>2
<1>7. Elements(u) = Elements(s) \cup Elements(t)
  BY <1>4, <1>5, <1>6 DEF Elements
<1> QED BY <1>1, <1>7 DEF u

(* One line.                                                               *)
LEMMA ElementsOne ==
  ASSUME NEW S, NEW x \in S
  PROVE  <<x>> \in Seq(S) /\ Len(<<x>>) = 1 /\ <<x>>[1] = x /\ Elements(<<x>>) = {x}
  BY DEF Elements

(* No line.                                                                *)
LEMMA ElementsNone ==
  ASSUME NEW S
  PROVE  <<>> \in Seq(S) /\ Len(<<>>) = 0 /\ Elements(<<>>) = {}
  BY EmptySeq DEF Elements

(* A line more.                                                            *)
LEMMA ElementsAppend ==
  ASSUME NEW S, NEW s \in Seq(S), NEW x \in S
  PROVE  /\ Append(s, x) \in Seq(S)
         /\ Elements(Append(s, x)) = Elements(s) \cup {x}
         /\ s = <<>> => Append(s, x) = <<x>>
<1> DEFINE more == Append(s, x)
           one == <<x>>
<1>1. more = s \o one /\ more \in Seq(S)
  BY AppendIsConcat, AppendProperties
<1>2. one \in Seq(S) /\ Elements(one) = {x}
  BY ElementsOne
<1> HIDE DEF more, one
<1>3. s = <<>> => more = one
  BY <1>1, <1>2, ConcatEmptySeq
<1>4. Elements(s \o one) = Elements(s) \cup Elements(one)
  BY <1>2, ElementsConcat
<1>5. Elements(more) = Elements(s) \cup {x}
  BY <1>1, <1>2, <1>4
<1> QED BY <1>1, <1>3, <1>5 DEF more, one

--------------------------------------------------------------------------------
(* What a number of lines do to the state of the loop: wherever they come  *)
(* and in whatever loop, they lead from one state to the other.            *)
Leads(from, lines, to) ==
  \A f, k : /\ k \in Nat /\ f[k] = from
            /\ \A i \in 1..Len(lines) : f[k + i] = Sort(f[k + i - 1], lines[i])
            => f[k + Len(lines)] = to

(* No line leaves the loop where it is.                                    *)
LEMMA LeadsNone ==
  ASSUME NEW st
  PROVE  Leads(st, <<>>, st)
<1>1. Len(<<>>) = 0
  OBVIOUS
<1> QED BY <1>1 DEF Leads

(* One line is one step of the loop.                                       *)
LEMMA LeadsOne ==
  ASSUME NEW st, NEW line
  PROVE  Leads(st, <<line>>, Sort(st, line))
<1> SUFFICES ASSUME NEW f, NEW k \in Nat, f[k] = st, f[k + 1] = Sort(f[k + 1 - 1], line)
             PROVE  f[k + 1] = Sort(st, line)
  <2>1. Len(<<line>>) = 1 /\ <<line>>[1] = line
    BY ElementsOne
  <2>2. 1 \in 1..1
    OBVIOUS
  <2> QED BY <2>1, <2>2 DEF Leads
<1>1. k + 1 - 1 = k
  OBVIOUS
<1> QED BY <1>1

(* Lines after lines lead on from where the first ones led.                *)
LEMMA LeadsThen ==
  ASSUME NEW a, NEW b, NEW c, NEW S, NEW s \in Seq(S), NEW t \in Seq(S),
         Leads(a, s, b), Leads(b, t, c)
  PROVE  Leads(a, s \o t, c)
<1> DEFINE u == s \o t
<1>1. /\ Len(u) = Len(s) + Len(t)
      /\ \A i \in 1..(Len(s) + Len(t)) :
           u[i] = IF i <= Len(s) THEN s[i] ELSE t[i - Len(s)]
  BY ConcatProperties
<1>2. Len(s) \in Nat /\ Len(t) \in Nat
  OBVIOUS
<1> HIDE DEF u
<1> SUFFICES ASSUME NEW f, NEW k \in Nat, f[k] = a,
                    \A i \in 1..Len(u) : f[k + i] = Sort(f[k + i - 1], u[i])
             PROVE  f[k + Len(u)] = c
  BY DEF Leads, u
<1>3. ASSUME NEW i \in 1..Len(s) PROVE f[k + i] = Sort(f[k + i - 1], s[i])
  <2>1. i \in 1..Len(u) /\ u[i] = s[i]
    BY <1>1, <1>2
  <2> QED BY <2>1
<1>4. f[k + Len(s)] = b
  BY <1>3 DEF Leads
<1> DEFINE m == k + Len(s)
<1>5. ASSUME NEW i \in 1..Len(t) PROVE f[m + i] = Sort(f[m + i - 1], t[i])
  <2>1. Len(s) + i \in 1..Len(u) /\ ~(Len(s) + i <= Len(s)) /\ Len(s) + i - Len(s) = i
    BY <1>1, <1>2
  <2>2. u[Len(s) + i] = t[i]
    BY <1>1, <2>1
  <2>3. k + (Len(s) + i) = m + i /\ k + (Len(s) + i) - 1 = m + i - 1
    BY <1>2
  <2> HIDE DEF m
  <2> QED BY <2>1, <2>2, <2>3
<1>6. m \in Nat /\ f[m] = b /\ m + Len(t) = k + Len(u)
  BY <1>1, <1>2, <1>4
<1> HIDE DEF m
<1>7. f[m + Len(t)] = c
  BY <1>5, <1>6 DEF Leads
<1> QED BY <1>6, <1>7

(* What all the lines lead to is what is formatted.                        *)
LEMMA LeadsToFormat ==
  ASSUME NEW S, NEW lines \in Seq(S), NEW st, Leads(Start, lines, st)
  PROVE  formatVerifierOutput(lines) = st.sections
<1> DEFINE f == Sorted(lines)
<1>1. f[0] = Start /\ \A n \in 1..Len(lines) : f[n] = Sort(f[n - 1], lines[n])
  BY SortedLoop
<1>2. Len(lines) \in Nat
  OBVIOUS
<1> HIDE DEF f
<1>3. \A i \in 1..Len(lines) : f[0 + i] = Sort(f[0 + i - 1], lines[i])
  <2> SUFFICES ASSUME NEW i \in 1..Len(lines)
               PROVE  f[0 + i] = Sort(f[0 + i - 1], lines[i])
    OBVIOUS
  <2>1. 0 + i = i /\ 0 + i - 1 = i - 1
    OBVIOUS
  <2> QED BY <1>1, <2>1
<1>4. f[0 + Len(lines)] = st
  BY <1>1, <1>3 DEF Leads
<1> QED BY <1>2, <1>4 DEF formatVerifierOutput, f

--------------------------------------------------------------------------------
(* The lines there are, and the states of the loop over them.              *)
StateLines(of, heading) ==
  {Printed("", of, {"Function @", "returned"}), Printed("  >>", of, {"Jump to"}),
   Printed("", of, {"Function @", "triggered UB"}), Printed(heading, of, {heading}),
   Printed("", of, {"alive", "align", "address"})}

ReasonLines == {Printed("ERROR:", "reason", why) : why \in Refuted}

ValueLines ==
  {Printed("", "values", {"poison"}),
   Printed("", "values", {"non-local", "block_id", "offset"})}

Marks == {Blank, Mark("----"), Mark("=>"), Mark("****"), Mark("Example:"), Mark("Source:"),
          Mark("Target:"), Incorrect}

Confirmed == Printed("Transformation", "none", {"seems to be correct"})

TextLines ==
  Marks
    \cup {Printed("@name", "cpp", {"@name", "= constant", "align"}),
          Printed("", "cpp", {"define", "i32", "noundef"}),
          Printed("", "rust", {"define", "i32", "noundef"}),
          Printed("", "warning", {"Source function is always UB"}),
          Printed("", "example", {"i32"})}
    \cup StateLines("cppState", "SOURCE MEMORY STATE")
    \cup StateLines("rustState", "TARGET MEMORY STATE")
    \cup ValueLines \cup ReasonLines
    \cup {Confirmed, Ill, Unknown, Unproved, Timeout, Printed("", "message", {})}

Sections == DOMAIN Titles \cup {"main"}
States   == [currentSection : Sections, inAlive2Section : BOOLEAN,
             inUBWarningSection : BOOLEAN, sections : [Sections -> Seq(TextLines)]]

(* The sections and the lines seen so far.                                 *)

Inked(section) == \E line \in Elements(section) : line # Blank

(* Every line seen is where it belongs, and nothing is anywhere else; some *)
(* sections are known to be empty, some not to be blank.                   *)
Fits(sections, seen, empty, inked) ==
  /\ sections \in [Sections -> Seq(TextLines)]
  /\ \A s \in DOMAIN Titles : \A line \in Elements(sections[s]) :
       line.of # "none" => s \in Belongs[line.of]
  /\ \A line \in seen : line.of # "none" =>
       \A s \in Belongs[line.of] : s \in Sections /\ line \in Elements(sections[s])
  /\ \A s \in empty : sections[s] = <<>>
  /\ \A s \in inked : Inked(sections[s])
  /\ \A s \in DOMAIN Titles \ {"target"} :
       \/ sections[s] = <<>> \/ Inked(sections[s])
       \/ s \in {"example", "source"} /\ sections[s] = <<Blank>>

(* The line is appended to one section.                                    *)
Grown(old, new, s, line) ==
  /\ new \in [Sections -> Seq(TextLines)]
  /\ \A t \in Sections : new[t] = IF t = s THEN Append(old[t], line) ELSE old[t]

(* What a section that has grown holds.                                    *)
LEMMA GrownElements ==
  ASSUME NEW old \in [Sections -> Seq(TextLines)], NEW new, NEW s \in Sections,
         NEW line \in TextLines, Grown(old, new, s, line)
  PROVE  /\ \A t \in Sections \ {s} : new[t] = old[t]
         /\ Elements(new[s]) = Elements(old[s]) \cup {line}
         /\ old[s] = <<>> => new[s] = <<line>>
         /\ \A t \in Sections : Elements(old[t]) \subseteq Elements(new[t])
<1>1. new[s] = Append(old[s], line) /\ old[s] \in Seq(TextLines)
  BY DEF Grown
<1>2. Elements(new[s]) = Elements(old[s]) \cup {line} /\ (old[s] = <<>> => new[s] = <<line>>)
  BY <1>1, ElementsAppend
<1>3. \A t \in Sections \ {s} : new[t] = old[t]
  BY DEF Grown
<1> QED BY <1>2, <1>3

(* A line that belongs there, and blank ones with it.                      *)
LEMMA FitsMore ==
  ASSUME NEW old, NEW new \in [Sections -> Seq(TextLines)], NEW seen,
         NEW empty \in SUBSET Sections, NEW inked \in SUBSET Sections,
         Fits(old, seen, empty, inked), NEW s \in Sections, NEW line \in TextLines,
         line # Blank, line.of = "none" \/ Belongs[line.of] = {s} \ {"main"},
         \A t \in Sections \ {s} : new[t] = old[t],
         Elements(old[s]) \cup {line} \subseteq Elements(new[s]),
         Elements(new[s]) \subseteq Elements(old[s]) \cup {line, Blank}
  PROVE  Fits(new, seen \cup {line}, empty \ {s}, inked \cup {s})
<1>1. old \in [Sections -> Seq(TextLines)] /\ new \in [Sections -> Seq(TextLines)]
  BY DEF Fits
<1>2. /\ \A t \in Sections \ {s} : new[t] = old[t]
      /\ line \in Elements(new[s])
      /\ Elements(new[s]) \subseteq Elements(old[s]) \cup {line, Blank}
      /\ \A t \in Sections : Elements(old[t]) \subseteq Elements(new[t])
      /\ Blank.of = "none"
  BY DEF Blank, Mark, Printed
<1>3. Inked(new[s]) /\ \A t \in Sections : Inked(old[t]) => Inked(new[t])
  BY <1>2 DEF Inked
<1>4. DOMAIN Titles \subseteq Sections /\ "main" \notin DOMAIN Titles
  BY DEF Sections, Titles
<1>5. \A t \in DOMAIN Titles : \A l \in Elements(new[t]) :
        l.of # "none" => t \in Belongs[l.of]
  <2> SUFFICES ASSUME NEW t \in DOMAIN Titles, NEW l \in Elements(new[t]), l.of # "none"
               PROVE  t \in Belongs[l.of]
    OBVIOUS
  <2>1. CASE l \in Elements(old[t])
    BY <1>4, <2>1 DEF Fits
  <2>2. CASE l \notin Elements(old[t])
    BY <1>2, <1>4, <2>2
  <2> QED BY <2>1, <2>2
<1>6. \A l \in seen \cup {line} : l.of # "none" =>
        \A t \in Belongs[l.of] : t \in Sections /\ l \in Elements(new[t])
  <2> SUFFICES ASSUME NEW l \in seen \cup {line}, l.of # "none", NEW t \in Belongs[l.of]
               PROVE  t \in Sections /\ l \in Elements(new[t])
    OBVIOUS
  <2>1. CASE l \in seen
    BY <1>2, <2>1 DEF Fits
  <2>2. CASE l = line
    BY <1>2, <2>2
  <2> QED BY <2>1, <2>2
<1>7. \A t \in empty \ {s} : new[t] = <<>>
  BY <1>2 DEF Fits
<1>8. \A t \in inked \cup {s} : Inked(new[t])
  BY <1>3 DEF Fits
<1>9. \A t \in DOMAIN Titles \ {"target"} :
        \/ new[t] = <<>> \/ Inked(new[t])
        \/ t \in {"example", "source"} /\ new[t] = <<Blank>>
  BY <1>2, <1>3, <1>4 DEF Fits
<1> QED BY <1>1, <1>5, <1>6, <1>7, <1>8, <1>9 DEF Fits

(* A line put where it belongs keeps the sections right.                   *)
LEMMA FitsPut ==
  ASSUME NEW old, NEW new, NEW seen, NEW empty \in SUBSET Sections,
         NEW inked \in SUBSET Sections, Fits(old, seen, empty, inked),
         NEW s \in Sections, NEW line \in TextLines, line # Blank,
         line.of = "none" \/ Belongs[line.of] = {s} \ {"main"}, Grown(old, new, s, line)
  PROVE  Fits(new, seen \cup {line}, empty \ {s}, inked \cup {s})
<1>1. old \in [Sections -> Seq(TextLines)] /\ new \in [Sections -> Seq(TextLines)]
  BY DEF Fits, Grown
<1>2. /\ \A t \in Sections \ {s} : new[t] = old[t]
      /\ Elements(new[s]) = Elements(old[s]) \cup {line}
      /\ old[s] = <<>> => new[s] = <<line>>
      /\ \A t \in Sections : Elements(old[t]) \subseteq Elements(new[t])
  BY <1>1, GrownElements
<1>3. /\ Elements(old[s]) \cup {line} \subseteq Elements(new[s])
      /\ Elements(new[s]) \subseteq Elements(old[s]) \cup {line, Blank}
  BY <1>2
<1>4. \A t \in Sections \ {s} : new[t] = old[t]
  BY <1>2
<1> QED BY <1>1, <1>3, <1>4, FitsMore

(* A blank line where it does not matter.                                  *)
LEMMA FitsBlank ==
  ASSUME NEW old, NEW new, NEW seen, NEW empty \in SUBSET Sections,
         NEW inked \in SUBSET Sections, Fits(old, seen, empty, inked),
         NEW s \in Sections, Grown(old, new, s, Blank),
         s \in {"main", "target"} \cup inked \cup ({"example", "source"} \cap empty)
  PROVE  Fits(new, seen \cup {Blank}, empty \ {s}, inked)
<1>1. old \in [Sections -> Seq(TextLines)] /\ new \in [Sections -> Seq(TextLines)]
  BY DEF Fits, Grown
<1>2. Blank \in TextLines /\ Blank.of = "none"
  BY DEF Blank, Mark, Printed, TextLines, Marks
<1>3. /\ \A t \in Sections \ {s} : new[t] = old[t]
      /\ Elements(new[s]) = Elements(old[s]) \cup {Blank}
      /\ old[s] = <<>> => new[s] = <<Blank>>
      /\ \A t \in Sections : Elements(old[t]) \subseteq Elements(new[t])
  BY <1>1, <1>2, GrownElements
<1>4. \A t \in Sections : Inked(old[t]) => Inked(new[t])
  BY <1>3 DEF Inked
<1>5. DOMAIN Titles \subseteq Sections
  BY DEF Sections
<1>6. \A t \in DOMAIN Titles : \A l \in Elements(new[t]) :
        l.of # "none" => t \in Belongs[l.of]
  <2> SUFFICES ASSUME NEW t \in DOMAIN Titles, NEW l \in Elements(new[t]), l.of # "none"
               PROVE  t \in Belongs[l.of]
    OBVIOUS
  <2>1. l \in Elements(old[t])
    BY <1>2, <1>3, <1>5
  <2> QED BY <2>1 DEF Fits
<1>7. \A l \in seen \cup {Blank} : l.of # "none" =>
        \A t \in Belongs[l.of] : t \in Sections /\ l \in Elements(new[t])
  BY <1>2, <1>3 DEF Fits
<1>8. /\ \A t \in empty \ {s} : new[t] = <<>>
      /\ \A t \in inked : Inked(new[t])
  BY <1>3, <1>4 DEF Fits
<1>9. \A t \in DOMAIN Titles \ {"target"} :
        \/ new[t] = <<>> \/ Inked(new[t])
        \/ t \in {"example", "source"} /\ new[t] = <<Blank>>
  <2> SUFFICES ASSUME NEW t \in DOMAIN Titles \ {"target"}
               PROVE  \/ new[t] = <<>> \/ Inked(new[t])
                      \/ t \in {"example", "source"} /\ new[t] = <<Blank>>
    OBVIOUS
  <2>1. CASE t # s
    BY <1>3, <1>4, <1>5, <2>1 DEF Fits
  <2>2. CASE t = s
    <3>1. s # "main" /\ s # "target"
      BY <2>2 DEF Titles
    <3>2. CASE s \in inked
      BY <1>4, <2>2, <3>2 DEF Fits
    <3>3. CASE s \in {"example", "source"} \cap empty
      BY <1>3, <2>2, <3>3 DEF Fits
    <3> QED BY <3>1, <3>2, <3>3
  <2> QED BY <2>1, <2>2
<1> QED BY <1>1, <1>6, <1>7, <1>8, <1>9 DEF Fits

(* Less is known.                                                          *)
LEMMA FitsLess ==
  ASSUME NEW sections, NEW seen, NEW empty, NEW inked, NEW e \in SUBSET empty,
         NEW i \in SUBSET inked, Fits(sections, seen, empty, inked)
  PROVE  Fits(sections, seen, e, i)
BY DEF Fits

(* A line that is nowhere, as it is no part of the text.                   *)
LEMMA FitsMark ==
  ASSUME NEW sections, NEW seen, NEW empty, NEW inked, NEW line, line.of = "none",
         Fits(sections, seen, empty, inked)
  PROVE  Fits(sections, seen \cup {line}, empty, inked)
BY DEF Fits

--------------------------------------------------------------------------------
(* Where the loop is: in which section, whether inside the warning, and    *)
(* what is known of the sections.                                          *)
Place(at, warned, empty, inked) ==
  [at |-> at, warned |-> warned, empty |-> empty, inked |-> inked]

At(st, p, seen) ==
  /\ st \in States
  /\ st.currentSection = p.at
  /\ st.inAlive2Section = (p.at \in {"alive2_source", "alive2_target"})
  /\ st.inUBWarningSection = p.warned
  /\ Fits(st.sections, seen, p.empty, p.inked)

(* The lines take the loop from one place to another.                      *)
Takes(p, lines, q) ==
  /\ lines \in Seq(TextLines)
  /\ \A st, seen : At(st, p, seen) =>
       \E to : Leads(st, lines, to) /\ At(to, q, seen \cup Elements(lines))

(* What it means to be at a place.                                         *)
LEMMA AtPlace ==
  ASSUME NEW st, NEW c, NEW w, NEW e, NEW i, NEW seen
  PROVE  At(st, Place(c, w, e, i), seen) <=>
           /\ st \in States
           /\ st.currentSection = c
           /\ st.inAlive2Section = (c \in {"alive2_source", "alive2_target"})
           /\ st.inUBWarningSection = w
           /\ Fits(st.sections, seen, e, i)
<1> DEFINE p == Place(c, w, e, i)
<1>1. p.at = c /\ p.warned = w /\ p.empty = e /\ p.inked = i
  BY DEF Place
<1> HIDE DEF p
<1>2. At(st, p, seen) <=>
           /\ st \in States
           /\ st.currentSection = c
           /\ st.inAlive2Section = (c \in {"alive2_source", "alive2_target"})
           /\ st.inUBWarningSection = w
           /\ Fits(st.sections, seen, e, i)
  BY <1>1 DEF At
<1> QED BY <1>2 DEF p

(* How to show it.                                                         *)
LEMMA AtNow ==
  ASSUME NEW st, NEW c, NEW w, NEW e, NEW i, NEW seen,
         st \in States, st.currentSection = c,
         st.inAlive2Section = (c \in {"alive2_source", "alive2_target"}),
         st.inUBWarningSection = w, Fits(st.sections, seen, e, i)
  PROVE  At(st, Place(c, w, e, i), seen)
BY AtPlace

(* No lines leave the loop at its place.                                   *)
LEMMA TakesNone == ASSUME NEW p PROVE Takes(p, <<>>, p)
<1>1. <<>> \in Seq(TextLines) /\ Elements(<<>>) = {}
  BY ElementsNone
<1> SUFFICES ASSUME NEW st, NEW seen, At(st, p, seen)
             PROVE  \E to : Leads(st, <<>>, to) /\ At(to, p, seen \cup Elements(<<>>))
  BY <1>1 DEF Takes
<1>2. seen \cup Elements(<<>>) = seen
  BY <1>1
<1> QED BY <1>2, LeadsNone

(* One line takes the loop as far as one step does.                        *)
LEMMA TakesOne ==
  ASSUME NEW p, NEW q, NEW line \in TextLines,
         \A st, seen : At(st, p, seen) => At(Sort(st, line), q, seen \cup {line})
  PROVE  Takes(p, <<line>>, q)
<1>1. <<line>> \in Seq(TextLines) /\ Elements(<<line>>) = {line}
  BY ElementsOne
<1> SUFFICES ASSUME NEW st, NEW seen, At(st, p, seen)
             PROVE  \E to : Leads(st, <<line>>, to) /\ At(to, q, seen \cup Elements(<<line>>))
  BY <1>1 DEF Takes
<1>2. Leads(st, <<line>>, Sort(st, line))
  BY LeadsOne
<1>3. At(Sort(st, line), q, seen \cup Elements(<<line>>))
  BY <1>1
<1> QED BY <1>2, <1>3

(* Lines take the loop on from where others took it.                       *)
LEMMA TakesThen ==
  ASSUME NEW p, NEW q, NEW r, NEW s, NEW t, Takes(p, s, q), Takes(q, t, r)
  PROVE  Takes(p, s \o t, r)
<1>1. s \in Seq(TextLines) /\ t \in Seq(TextLines)
  BY DEF Takes
<1>2. s \o t \in Seq(TextLines) /\ Elements(s \o t) = Elements(s) \cup Elements(t)
  BY <1>1, ElementsConcat
<1> SUFFICES ASSUME NEW st, NEW seen, At(st, p, seen)
             PROVE  \E to : Leads(st, s \o t, to) /\ At(to, r, seen \cup Elements(s \o t))
  BY <1>2 DEF Takes
<1>3. PICK mid : Leads(st, s, mid) /\ At(mid, q, seen \cup Elements(s))
  BY DEF Takes
<1>4. PICK to : Leads(mid, t, to) /\ At(to, r, (seen \cup Elements(s)) \cup Elements(t))
  BY <1>3 DEF Takes
<1>5. Leads(st, s \o t, to)
  BY <1>1, <1>3, <1>4, LeadsThen
<1>6. (seen \cup Elements(s)) \cup Elements(t) = seen \cup Elements(s \o t)
  BY <1>2
<1> QED BY <1>4, <1>5, <1>6

(* Less is known of the second place.                                      *)
LEMMA TakesLess ==
  ASSUME NEW p, NEW s, NEW c, NEW w, NEW e, NEW i, NEW f \in SUBSET e, NEW j \in SUBSET i,
         Takes(p, s, Place(c, w, e, i))
  PROVE  Takes(p, s, Place(c, w, f, j))
<1>1. ASSUME NEW st, NEW seen, At(st, Place(c, w, e, i), seen)
      PROVE  At(st, Place(c, w, f, j), seen)
  BY <1>1, FitsLess, AtPlace
<1> QED BY <1>1 DEF Takes

--------------------------------------------------------------------------------
(* What a line does, by how it starts.                                     *)

(* Put adds the line to one section and leaves the rest of the state       *)
(* alone.                                                                  *)
LEMMA PutState ==
  ASSUME NEW st \in States, NEW s \in Sections, NEW line \in TextLines
  PROVE  LET new == Put(st, s, line)
         IN  /\ new \in States
             /\ new.currentSection = st.currentSection
             /\ new.inAlive2Section = st.inAlive2Section
             /\ new.inUBWarningSection = st.inUBWarningSection
             /\ Grown(st.sections, new.sections, s, line)
<1> DEFINE grown == [st.sections EXCEPT ![s] = Append(@, line)]
<1>1. st.sections \in [Sections -> Seq(TextLines)]
  BY DEF States
<1>2. Append(st.sections[s], line) \in Seq(TextLines)
  BY <1>1, ElementsAppend
<1>3. grown \in [Sections -> Seq(TextLines)]
  BY <1>1, <1>2
<1>4. \A t \in Sections : grown[t] = IF t = s THEN Append(st.sections[t], line)
                                              ELSE st.sections[t]
  BY <1>1
<1>5. Put(st, s, line) = [st EXCEPT !.sections = grown]
  BY DEF Put
<1> HIDE DEF grown
<1>6. /\ Put(st, s, line) \in States
      /\ Put(st, s, line).sections = grown
  BY <1>3, <1>5 DEF States
<1>7. /\ Put(st, s, line).currentSection = st.currentSection
      /\ Put(st, s, line).inAlive2Section = st.inAlive2Section
      /\ Put(st, s, line).inUBWarningSection = st.inUBWarningSection
  BY <1>5 DEF States
<1> QED BY <1>3, <1>4, <1>6, <1>7 DEF Grown

(* To changes the current section alone.                                   *)
LEMMA ToState ==
  ASSUME NEW st \in States, NEW s \in Sections
  PROVE  LET new == To(st, s)
         IN  /\ new \in States
             /\ new.currentSection = s
             /\ new.inAlive2Section = st.inAlive2Section
             /\ new.inUBWarningSection = st.inUBWarningSection
             /\ new.sections = st.sections
BY DEF To, States

Special == {"ERROR:", "Source:", "Target:", "SOURCE MEMORY STATE", "TARGET MEMORY STATE"}

(* A line that is no heading goes to the current section.                  *)
LEMMA SortPlain ==
  ASSUME NEW st \in States, NEW line, ~st.inUBWarningSection,
         line.starts \notin Separators, st.inAlive2Section \/ line.starts \notin Special
  PROVE  Sort(st, line) = Put(st, st.currentSection, line)
BY DEF Sort, PutExample, Special

(* A line of a part takes the loop on in the section of that part.         *)
LEMMA TakesPut ==
  ASSUME NEW c \in Sections, NEW e \in SUBSET Sections, NEW i \in SUBSET Sections,
         NEW line \in TextLines, line # Blank, line.starts \notin Separators,
         c \in {"alive2_source", "alive2_target"} \/ line.starts \notin Special,
         line.of = "none" \/ Belongs[line.of] = {c} \ {"main"}
  PROVE  Takes(Place(c, FALSE, e, i), <<line>>, Place(c, FALSE, e \ {c}, i \cup {c}))
<1> SUFFICES ASSUME NEW st, NEW seen, At(st, Place(c, FALSE, e, i), seen)
             PROVE  At(Sort(st, line), Place(c, FALSE, e \ {c}, i \cup {c}), seen \cup {line})
  BY TakesOne
<1>1. /\ st \in States /\ st.currentSection = c /\ st.inUBWarningSection = FALSE
      /\ st.inAlive2Section = (c \in {"alive2_source", "alive2_target"})
      /\ Fits(st.sections, seen, e, i)
  BY AtPlace
<1>2. Sort(st, line) = Put(st, c, line)
  BY <1>1, SortPlain
<1> DEFINE new == Put(st, c, line)
<1>3. /\ new \in States /\ new.currentSection = c
      /\ new.inAlive2Section = st.inAlive2Section /\ new.inUBWarningSection = FALSE
      /\ Grown(st.sections, new.sections, c, line)
  BY <1>1, PutState
<1> HIDE DEF new
<1>a. new.inAlive2Section = (c \in {"alive2_source", "alive2_target"})
  BY <1>1, <1>3
<1>4. Fits(new.sections, seen \cup {line}, e \ {c}, i \cup {c})
  BY <1>1, <1>3, FitsPut
<1>5. At(new, Place(c, FALSE, e \ {c}, i \cup {c}), seen \cup {line})
  BY <1>a, <1>3, <1>4, AtNow
<1> QED BY <1>2, <1>5 DEF new

(* What there is to know of a blank line.                                  *)
LEMMA BlankLine ==
  Blank \in TextLines /\ Blank.of = "none" /\ Blank.starts = "" /\ "" \notin Separators
BY DEF TextLines, Marks, Blank, Mark, Printed, Separators

(* A blank line does no harm where something else is shown or "(None)" is. *)
LEMMA TakesBlank ==
  ASSUME NEW c \in Sections, NEW e \in SUBSET Sections, NEW i \in SUBSET Sections,
         c \in {"main", "target"} \cup i \cup ({"example", "source"} \cap e)
  PROVE  Takes(Place(c, FALSE, e, i), <<Blank>>, Place(c, FALSE, e \ {c}, i))
<1> SUFFICES ASSUME NEW st, NEW seen, At(st, Place(c, FALSE, e, i), seen)
             PROVE  At(Sort(st, Blank), Place(c, FALSE, e \ {c}, i), seen \cup {Blank})
  BY TakesOne, BlankLine
<1>1. /\ st \in States /\ st.currentSection = c /\ st.inUBWarningSection = FALSE
      /\ st.inAlive2Section = (c \in {"alive2_source", "alive2_target"})
      /\ Fits(st.sections, seen, e, i)
  BY AtPlace
<1>2. Sort(st, Blank) = Put(st, c, Blank)
  <2>1. "" \notin Special
    BY DEF Special
  <2> QED BY <1>1, <2>1, SortPlain, BlankLine
<1> DEFINE new == Put(st, c, Blank)
<1>3. /\ new \in States /\ new.currentSection = c
      /\ new.inAlive2Section = st.inAlive2Section /\ new.inUBWarningSection = FALSE
      /\ Grown(st.sections, new.sections, c, Blank)
  BY <1>1, PutState, BlankLine
<1> HIDE DEF new
<1>a. new.inAlive2Section = (c \in {"alive2_source", "alive2_target"})
  BY <1>1, <1>3
<1>4. Fits(new.sections, seen \cup {Blank}, e \ {c}, i)
  BY <1>1, <1>3, FitsBlank
<1>5. At(new, Place(c, FALSE, e \ {c}, i), seen \cup {Blank})
  BY <1>a, <1>3, <1>4, AtNow
<1> QED BY <1>2, <1>5 DEF new

--------------------------------------------------------------------------------
(* Several lines, one after the other.                                     *)

(* Sequences given by their lines, of two lines ...                        *)
LEMMA TakesTwo ==
  ASSUME NEW p, NEW q, NEW r, NEW a, NEW b, Takes(p, <<a>>, q), Takes(q, <<b>>, r)
  PROVE  Takes(p, <<a, b>>, r)
<1> DEFINE u == <<a>> \o <<b>>
<1>1. Takes(p, u, r)
  BY TakesThen
<1>2. <<a>> \in Seq({a, b}) /\ <<b>> \in Seq({a, b}) /\ Len(<<a>>) = 1 /\ Len(<<b>>) = 1
  OBVIOUS
<1>3. u \in Seq({a, b}) /\ Len(u) = 2 /\ u[1] = a /\ u[2] = b
  BY <1>2, ConcatProperties
<1>4. <<a, b>> \in Seq({a, b}) /\ Len(<<a, b>>) = 2
  OBVIOUS
<1> HIDE DEF u
<1>5. \A i \in 1..2 : u[i] = <<a, b>>[i]
  BY <1>3
<1>6. u = <<a, b>>
  BY <1>3, <1>4, <1>5, SeqEqual
<1> QED BY <1>1, <1>6

(* ... of three ...                                                        *)
LEMMA TakesThree ==
  ASSUME NEW p, NEW q, NEW r, NEW a, NEW b, NEW c,
         Takes(p, <<a>>, q), Takes(q, <<b, c>>, r)
  PROVE  Takes(p, <<a, b, c>>, r)
<1> DEFINE u == <<a>> \o <<b, c>>
<1>1. Takes(p, u, r)
  BY TakesThen
<1>2. /\ <<a>> \in Seq({a, b, c}) /\ <<b, c>> \in Seq({a, b, c})
      /\ Len(<<a>>) = 1 /\ Len(<<b, c>>) = 2
  OBVIOUS
<1>3. u \in Seq({a, b, c}) /\ Len(u) = 3 /\ u[1] = a /\ u[2] = b /\ u[3] = c
  BY <1>2, ConcatProperties
<1>4. <<a, b, c>> \in Seq({a, b, c}) /\ Len(<<a, b, c>>) = 3
  OBVIOUS
<1> HIDE DEF u
<1>5. \A i \in 1..3 : u[i] = <<a, b, c>>[i]
  BY <1>3
<1>6. u = <<a, b, c>>
  BY <1>3, <1>4, <1>5, SeqEqual
<1> QED BY <1>1, <1>6

(* ... of four ...                                                         *)
LEMMA TakesFour ==
  ASSUME NEW p, NEW q, NEW r, NEW a, NEW b, NEW c, NEW d,
         Takes(p, <<a, b>>, q), Takes(q, <<c, d>>, r)
  PROVE  Takes(p, <<a, b, c, d>>, r)
<1> DEFINE u == <<a, b>> \o <<c, d>>
           S == {a, b, c, d}
<1>1. Takes(p, u, r)
  BY TakesThen
<1>2. /\ <<a, b>> \in Seq(S) /\ <<c, d>> \in Seq(S)
      /\ Len(<<a, b>>) = 2 /\ Len(<<c, d>>) = 2
  OBVIOUS
<1>3. u \in Seq(S) /\ Len(u) = 4 /\ u[1] = a /\ u[2] = b /\ u[3] = c /\ u[4] = d
  BY <1>2, ConcatProperties
<1>4. <<a, b, c, d>> \in Seq(S) /\ Len(<<a, b, c, d>>) = 4
  OBVIOUS
<1> HIDE DEF u
<1>5. \A i \in 1..4 : u[i] = <<a, b, c, d>>[i]
  BY <1>3
<1>6. u = <<a, b, c, d>>
  BY <1>3, <1>4, <1>5, SeqEqual
<1> QED BY <1>1, <1>6

(* ... and of six.                                                         *)
LEMMA TakesSix ==
  ASSUME NEW p, NEW q, NEW r, NEW a, NEW b, NEW c, NEW d, NEW e, NEW f,
         Takes(p, <<a, b, c>>, q), Takes(q, <<d, e, f>>, r)
  PROVE  Takes(p, <<a, b, c, d, e, f>>, r)
<1> DEFINE u == <<a, b, c>> \o <<d, e, f>>
           S == {a, b, c, d, e, f}
<1>1. Takes(p, u, r)
  BY TakesThen
<1>2. /\ <<a, b, c>> \in Seq(S) /\ <<d, e, f>> \in Seq(S)
      /\ Len(<<a, b, c>>) = 3 /\ Len(<<d, e, f>>) = 3
  OBVIOUS
<1>3. /\ u \in Seq(S) /\ Len(u) = 6
      /\ u[1] = a /\ u[2] = b /\ u[3] = c /\ u[4] = d /\ u[5] = e /\ u[6] = f
  BY <1>2, ConcatProperties
<1>4. <<a, b, c, d, e, f>> \in Seq(S) /\ Len(<<a, b, c, d, e, f>>) = 6
  OBVIOUS
<1> HIDE DEF u
<1>5. \A i \in 1..6 : u[i] = <<a, b, c, d, e, f>>[i]
  BY <1>3
<1>6. u = <<a, b, c, d, e, f>>
  BY <1>3, <1>4, <1>5, SeqEqual
<1> QED BY <1>1, <1>6

--------------------------------------------------------------------------------
(* The marks between the parts.                                            *)

(* A line that changes where the loop is, and no section.                  *)
Moves(line, c, a, w, d, b, v) ==
  \A st \in States :
    /\ st.currentSection = c
    /\ st.inAlive2Section = a
    /\ st.inUBWarningSection = w
    => LET new == Sort(st, line)
       IN  /\ new \in States
           /\ new.currentSection = d
           /\ new.inAlive2Section = b
           /\ new.inUBWarningSection = v
           /\ new.sections = st.sections

(* A heading takes the loop from section to section and is kept in none.   *)
LEMMA TakesMark ==
  ASSUME NEW c, NEW w, NEW d, NEW v, NEW e, NEW i, NEW line \in TextLines,
         NEW a \in BOOLEAN, NEW b \in BOOLEAN, line.of = "none", Moves(line, c, a, w, d, b, v),
         a <=> c \in {"alive2_source", "alive2_target"},
         b <=> d \in {"alive2_source", "alive2_target"}
  PROVE  Takes(Place(c, w, e, i), <<line>>, Place(d, v, e, i))
<1> SUFFICES ASSUME NEW st, NEW seen, At(st, Place(c, w, e, i), seen)
             PROVE  At(Sort(st, line), Place(d, v, e, i), seen \cup {line})
  BY TakesOne
<1>1. /\ st \in States /\ st.currentSection = c /\ st.inUBWarningSection = w
      /\ st.inAlive2Section = (c \in {"alive2_source", "alive2_target"})
      /\ Fits(st.sections, seen, e, i)
  BY AtPlace
<1> DEFINE new == Sort(st, line)
<1>2. /\ new \in States /\ new.currentSection = d
      /\ new.inAlive2Section = (d \in {"alive2_source", "alive2_target"})
      /\ new.inUBWarningSection = v /\ new.sections = st.sections
  BY <1>1 DEF Moves
<1> HIDE DEF new
<1>3. Fits(new.sections, seen \cup {line}, e, i)
  BY <1>1, <1>2, FitsMark
<1>4. At(new, Place(d, v, e, i), seen \cup {line})
  BY <1>2, <1>3, AtNow
<1> QED BY <1>4 DEF new

(* What there is to know of the headings.                                  *)
LEMMA MarkLines ==
  /\ \A starts \in {"----", "=>", "****", "Example:", "Source:", "Target:", "Transformation"} :
       /\ Mark(starts) \in TextLines /\ Mark(starts).of = "none"
       /\ Mark(starts).starts = starts
  /\ Incorrect = Mark("Transformation")
BY DEF TextLines, Marks, Mark, Printed, Incorrect

(* All sections, by name.                                                  *)
LEMMA SectionsAre ==
  Sections = {"main", "alive2_source", "alive2_target", "ub_warning", "error", "example",
              "source", "target"}
BY DEF Sections, Titles

(* Each flag is set by itself.                                             *)
LEMMA FlagStates ==
  ASSUME NEW st \in States, NEW flag \in BOOLEAN
  PROVE  /\ LET new == [st EXCEPT !.inAlive2Section = flag]
            IN  /\ new \in States
                /\ new.currentSection = st.currentSection
                /\ new.inAlive2Section = flag
                /\ new.inUBWarningSection = st.inUBWarningSection
                /\ new.sections = st.sections
         /\ LET new == [st EXCEPT !.inUBWarningSection = flag]
            IN  /\ new \in States
                /\ new.currentSection = st.currentSection
                /\ new.inAlive2Section = st.inAlive2Section
                /\ new.inUBWarningSection = flag
                /\ new.sections = st.sections
<1>1. LET new == [st EXCEPT !.inAlive2Section = flag]
      IN  /\ new \in States
          /\ new.currentSection = st.currentSection
          /\ new.inAlive2Section = flag
          /\ new.inUBWarningSection = st.inUBWarningSection
          /\ new.sections = st.sections
  BY DEF States
<1>2. LET new == [st EXCEPT !.inUBWarningSection = flag]
      IN  /\ new \in States
          /\ new.currentSection = st.currentSection
          /\ new.inAlive2Section = st.inAlive2Section
          /\ new.inUBWarningSection = flag
          /\ new.sections = st.sections
  BY DEF States
<1> QED BY <1>1, <1>2

(* The line of dashes begins the C++ program.                              *)
LEMMA TakesSource ==
  ASSUME NEW e, NEW i
  PROVE  Takes(Place("main", FALSE, e, i), <<Mark("----")>>,
               Place("alive2_source", FALSE, e, i))
<1>1. \A st \in States :
        Sort(st, Mark("----")) = To([st EXCEPT !.inAlive2Section = TRUE], "alive2_source")
  BY MarkLines DEF Sort, Separators, Separate
<1>2. Moves(Mark("----"), "main", FALSE, FALSE, "alive2_source", TRUE, FALSE)
  <2> SUFFICES ASSUME NEW st \in States, st.inUBWarningSection = FALSE
               PROVE  LET new == Sort(st, Mark("----"))
                      IN  /\ new \in States /\ new.currentSection = "alive2_source"
                          /\ new.inAlive2Section = TRUE /\ new.inUBWarningSection = FALSE
                          /\ new.sections = st.sections
    BY DEF Moves
  <2> DEFINE new == [st EXCEPT !.inAlive2Section = TRUE]
  <2>1. /\ new \in States /\ new.inAlive2Section = TRUE
        /\ new.inUBWarningSection = FALSE /\ new.sections = st.sections
    BY FlagStates
  <2>2. Sort(st, Mark("----")) = To(new, "alive2_source")
    BY <1>1
  <2> HIDE DEF new
  <2> QED BY <2>1, <2>2, ToState, SectionsAre
<1> QED BY <1>2, TakesMark, MarkLines

(* The arrow begins the Rust program.                                      *)
LEMMA TakesTarget ==
  ASSUME NEW e, NEW i
  PROVE  Takes(Place("alive2_source", FALSE, e, i), <<Mark("=>")>>,
               Place("alive2_target", FALSE, e, i))
<1>1. \A st \in States : Sort(st, Mark("=>")) = To(st, "alive2_target")
  BY MarkLines DEF Sort, Separators, Separate
<1>2. Moves(Mark("=>"), "alive2_source", TRUE, FALSE, "alive2_target", TRUE, FALSE)
  <2> SUFFICES ASSUME NEW st \in States, st.inAlive2Section = TRUE,
                      st.inUBWarningSection = FALSE
               PROVE  LET new == Sort(st, Mark("=>"))
                      IN  /\ new \in States /\ new.currentSection = "alive2_target"
                          /\ new.inAlive2Section = TRUE /\ new.inUBWarningSection = FALSE
                          /\ new.sections = st.sections
    BY DEF Moves
  <2>1. Sort(st, Mark("=>")) = To(st, "alive2_target") /\ "alive2_target" \in Sections
    BY <1>1, SectionsAre
  <2> QED BY <2>1, ToState
<1> QED BY <1>2, TakesMark, MarkLines

(* A line with the verdict is no part of the text either.                  *)
LEMMA TakesVerdict ==
  ASSUME NEW e, NEW i, NEW line \in {Incorrect, Confirmed}
  PROVE  Takes(Place("alive2_target", FALSE, e, i), <<line>>, Place("main", FALSE, e, i))
<1>1. line \in TextLines /\ line.of = "none" /\ line.starts = "Transformation"
  <2>1. CASE line = Incorrect
    BY <2>1, MarkLines
  <2>2. CASE line = Confirmed
    BY <2>2 DEF TextLines, Confirmed, Printed
  <2> QED BY <2>1, <2>2
<1>2. \A st \in States : Sort(st, line) = To([st EXCEPT !.inAlive2Section = FALSE], "main")
  BY <1>1 DEF Sort, Separators, Separate
<1>3. Moves(line, "alive2_target", TRUE, FALSE, "main", FALSE, FALSE)
  <2> SUFFICES ASSUME NEW st \in States, st.inUBWarningSection = FALSE
               PROVE  LET new == Sort(st, line)
                      IN  /\ new \in States /\ new.currentSection = "main"
                          /\ new.inAlive2Section = FALSE /\ new.inUBWarningSection = FALSE
                          /\ new.sections = st.sections
    BY DEF Moves
  <2> DEFINE new == [st EXCEPT !.inAlive2Section = FALSE]
  <2>1. /\ new \in States /\ new.inAlive2Section = FALSE
        /\ new.inUBWarningSection = FALSE /\ new.sections = st.sections
    BY FlagStates
  <2>2. Sort(st, line) = To(new, "main")
    BY <1>2
  <2> HIDE DEF new
  <2> QED BY <2>1, <2>2, ToState, SectionsAre
<1> QED BY <1>3, <1>1, TakesMark

(* The stars begin and end the warning.                                    *)
LEMMA TakesStars ==
  ASSUME NEW e, NEW i
  PROVE  /\ Takes(Place("alive2_target", FALSE, e, i), <<Mark("****")>>,
                  Place("alive2_target", TRUE, e, i))
         /\ Takes(Place("alive2_target", TRUE, e, i), <<Mark("****")>>,
                  Place("alive2_target", FALSE, e, i))
<1>1. \A st \in States :
        Sort(st, Mark("****")) = [st EXCEPT !.inUBWarningSection = ~st.inUBWarningSection]
  BY MarkLines DEF Sort, Separators, Separate
<1>2. Moves(Mark("****"), "alive2_target", TRUE, FALSE, "alive2_target", TRUE, TRUE)
  <2> SUFFICES ASSUME NEW st \in States, st.currentSection = "alive2_target",
                      st.inAlive2Section = TRUE, st.inUBWarningSection = FALSE
               PROVE  LET new == Sort(st, Mark("****"))
                      IN  /\ new \in States /\ new.currentSection = "alive2_target"
                          /\ new.inAlive2Section = TRUE /\ new.inUBWarningSection = TRUE
                          /\ new.sections = st.sections
    BY DEF Moves
  <2> DEFINE new == [st EXCEPT !.inUBWarningSection = TRUE]
  <2>1. /\ new \in States /\ new.currentSection = st.currentSection
        /\ new.inAlive2Section = st.inAlive2Section
        /\ new.inUBWarningSection = TRUE /\ new.sections = st.sections
    BY FlagStates
  <2>2. Sort(st, Mark("****")) = new
    BY <1>1
  <2> HIDE DEF new
  <2> QED BY <2>1, <2>2
<1>3. Moves(Mark("****"), "alive2_target", TRUE, TRUE, "alive2_target", TRUE, FALSE)
  <2> SUFFICES ASSUME NEW st \in States, st.currentSection = "alive2_target",
                      st.inAlive2Section = TRUE, st.inUBWarningSection = TRUE
               PROVE  LET new == Sort(st, Mark("****"))
                      IN  /\ new \in States /\ new.currentSection = "alive2_target"
                          /\ new.inAlive2Section = TRUE /\ new.inUBWarningSection = FALSE
                          /\ new.sections = st.sections
    BY DEF Moves
  <2> DEFINE new == [st EXCEPT !.inUBWarningSection = FALSE]
  <2>1. /\ new \in States /\ new.currentSection = st.currentSection
        /\ new.inAlive2Section = st.inAlive2Section
        /\ new.inUBWarningSection = FALSE /\ new.sections = st.sections
    BY FlagStates
  <2>2. Sort(st, Mark("****")) = new
    BY <1>1
  <2> HIDE DEF new
  <2> QED BY <2>1, <2>2
<1>4. Takes(Place("alive2_target", FALSE, e, i), <<Mark("****")>>,
            Place("alive2_target", TRUE, e, i))
  BY <1>2, TakesMark, MarkLines
<1>5. Takes(Place("alive2_target", TRUE, e, i), <<Mark("****")>>,
            Place("alive2_target", FALSE, e, i))
  BY <1>3, TakesMark, MarkLines
<1> QED BY <1>4, <1>5

(* "Example:" begins the inputs.                                           *)
LEMMA TakesExample ==
  ASSUME NEW e, NEW i
  PROVE  Takes(Place("error", FALSE, e, i), <<Mark("Example:")>>, Place("example", FALSE, e, i))
<1>1. \A st \in States : Sort(st, Mark("Example:")) = To(st, "example")
  BY MarkLines DEF Sort, Separators, Separate
<1>2. Moves(Mark("Example:"), "error", FALSE, FALSE, "example", FALSE, FALSE)
  <2> SUFFICES ASSUME NEW st \in States, st.inUBWarningSection = FALSE,
                      st.inAlive2Section = FALSE
               PROVE  LET new == Sort(st, Mark("Example:"))
                      IN  /\ new \in States /\ new.currentSection = "example"
                          /\ new.inAlive2Section = FALSE /\ new.inUBWarningSection = FALSE
                          /\ new.sections = st.sections
    BY DEF Moves
  <2>1. Sort(st, Mark("Example:")) = To(st, "example") /\ "example" \in Sections
    BY <1>1, SectionsAre
  <2> QED BY <2>1, ToState
<1> QED BY <1>2, TakesMark, MarkLines

(* The states of the programs.                                             *)
LEMMA TakesState ==
  ASSUME NEW e, NEW i, NEW c \in {"example", "source"}, NEW d \in {"source", "target"},
         NEW starts, starts = (IF d = "source" THEN "Source:" ELSE "Target:")
  PROVE  Takes(Place(c, FALSE, e, i), <<Mark(starts)>>, Place(d, FALSE, e, i))
<1>1. \A st \in States : ~st.inAlive2Section /\ ~st.inUBWarningSection =>
        Sort(st, Mark(starts)) = To(st, d)
  <2>1. starts \in {"Source:", "Target:"} /\ starts \notin Separators
    BY DEF Separators
  <2> QED BY <2>1, MarkLines DEF Sort, PutExample
<1>2. Moves(Mark(starts), c, FALSE, FALSE, d, FALSE, FALSE)
  <2> SUFFICES ASSUME NEW st \in States, st.inAlive2Section = FALSE,
                      st.inUBWarningSection = FALSE
               PROVE  LET new == Sort(st, Mark(starts))
                      IN  /\ new \in States /\ new.currentSection = d
                          /\ new.inAlive2Section = FALSE /\ new.inUBWarningSection = FALSE
                          /\ new.sections = st.sections
    BY DEF Moves
  <2>1. Sort(st, Mark(starts)) = To(st, d) /\ d \in Sections
    BY <1>1, SectionsAre
  <2> QED BY <2>1, ToState
<1>3. Mark(starts) \in TextLines /\ Mark(starts).of = "none"
  <2>1. starts \in {"Source:", "Target:"}
    OBVIOUS
  <2> QED BY <2>1, MarkLines
<1>4. c \notin {"alive2_source", "alive2_target"} /\ d \notin {"alive2_source", "alive2_target"}
  OBVIOUS
<1> QED BY <1>2, <1>3, <1>4, TakesMark

--------------------------------------------------------------------------------
(* The lines that go elsewhere than to the current section.                *)

(* Where each part belongs.                                                *)
LEMMA BelongsIs ==
  /\ Belongs["cpp"] = {"alive2_source"} /\ Belongs["rust"] = {"alive2_target"}
  /\ Belongs["warning"] = {"ub_warning"} /\ Belongs["reason"] = {"error"}
  /\ Belongs["example"] = {"example"} /\ Belongs["cppState"] = {"source"}
  /\ Belongs["rustState"] = {"target"} /\ Belongs["values"] = {"target"}
  /\ Belongs["unproved"] = {"alive2_target"} /\ Belongs["message"] = {}
BY DEF Belongs

Puts(line, c, a, w, d, b, s) ==
  \A st \in States :
    /\ st.currentSection = c
    /\ st.inAlive2Section = a
    /\ st.inUBWarningSection = w
    => LET new == Sort(st, line)
       IN  /\ new \in States
           /\ new.currentSection = d
           /\ new.inAlive2Section = b
           /\ new.inUBWarningSection = w
           /\ Grown(st.sections, new.sections, s, line)

(* A line that is put into a section takes the loop to wherever it goes    *)
(* on.                                                                     *)
LEMMA TakesInto ==
  ASSUME NEW c, NEW w, NEW d, NEW e \in SUBSET Sections, NEW i \in SUBSET Sections,
         NEW s \in Sections, NEW line \in TextLines, line # Blank,
         line.of = "none" \/ Belongs[line.of] = {s} \ {"main"},
         NEW a \in BOOLEAN, NEW b \in BOOLEAN, Puts(line, c, a, w, d, b, s),
         a <=> c \in {"alive2_source", "alive2_target"},
         b <=> d \in {"alive2_source", "alive2_target"}
  PROVE  Takes(Place(c, w, e, i), <<line>>, Place(d, w, e \ {s}, i \cup {s}))
<1> SUFFICES ASSUME NEW st, NEW seen, At(st, Place(c, w, e, i), seen)
             PROVE  At(Sort(st, line), Place(d, w, e \ {s}, i \cup {s}), seen \cup {line})
  BY TakesOne
<1>1. /\ st \in States /\ st.currentSection = c /\ st.inUBWarningSection = w
      /\ st.inAlive2Section = (c \in {"alive2_source", "alive2_target"})
      /\ Fits(st.sections, seen, e, i)
  BY AtPlace
<1> DEFINE new == Sort(st, line)
<1>2. /\ new \in States /\ new.currentSection = d
      /\ new.inAlive2Section = (d \in {"alive2_source", "alive2_target"})
      /\ new.inUBWarningSection = w /\ Grown(st.sections, new.sections, s, line)
  BY <1>1 DEF Puts
<1> HIDE DEF new
<1>3. Fits(new.sections, seen \cup {line}, e \ {s}, i \cup {s})
  BY <1>1, <1>2, FitsPut
<1>4. At(new, Place(d, w, e \ {s}, i \cup {s}), seen \cup {line})
  BY <1>2, <1>3, AtNow
<1> QED BY <1>4 DEF new

WarningLine == Printed("", "warning", {"Source function is always UB"})

(* The warning goes under its own heading, not under the Rust program.     *)
LEMMA TakesWarningLine ==
  ASSUME NEW e \in SUBSET Sections, NEW i \in SUBSET Sections
  PROVE  Takes(Place("alive2_target", TRUE, e, i), <<WarningLine>>,
               Place("alive2_target", TRUE, e \ {"ub_warning"}, i \cup {"ub_warning"}))
<1>1. /\ WarningLine \in TextLines /\ WarningLine.of = "warning" /\ WarningLine.starts = ""
      /\ Blank.of = "none"
  BY DEF WarningLine, Printed, TextLines, Blank, Mark
<1>2. Belongs[WarningLine.of] = {"ub_warning"} \ {"main"} /\ WarningLine # Blank
  BY <1>1, BelongsIs
<1>3. \A st \in States : st.inUBWarningSection =>
        Sort(st, WarningLine) = Put(st, "ub_warning", WarningLine)
  BY <1>1, BlankLine DEF Sort
<1>4. Puts(WarningLine, "alive2_target", TRUE, TRUE, "alive2_target", TRUE, "ub_warning")
  <2> SUFFICES ASSUME NEW st \in States, st.currentSection = "alive2_target",
                      st.inAlive2Section = TRUE, st.inUBWarningSection = TRUE
               PROVE  LET new == Sort(st, WarningLine)
                      IN  /\ new \in States /\ new.currentSection = "alive2_target"
                          /\ new.inAlive2Section = TRUE /\ new.inUBWarningSection = TRUE
                          /\ Grown(st.sections, new.sections, "ub_warning", WarningLine)
    BY DEF Puts
  <2>1. Sort(st, WarningLine) = Put(st, "ub_warning", WarningLine)
        /\ "ub_warning" \in Sections
    BY <1>3, SectionsAre
  <2> DEFINE new == Put(st, "ub_warning", WarningLine)
  <2>2. /\ new \in States /\ new.currentSection = st.currentSection
        /\ new.inAlive2Section = st.inAlive2Section
        /\ new.inUBWarningSection = st.inUBWarningSection
        /\ Grown(st.sections, new.sections, "ub_warning", WarningLine)
    BY <1>1, <2>1, PutState
  <2> HIDE DEF new
  <2>3. Sort(st, WarningLine) = new
    BY <2>1 DEF new
  <2> QED BY <2>2, <2>3
<1>5. "ub_warning" \in Sections
  BY SectionsAre
<1> QED BY <1>1, <1>2, <1>4, <1>5, TakesInto

(* A timeout is an error although it comes with the Rust program.          *)
LEMMA TakesTimeout ==
  ASSUME NEW e \in SUBSET Sections, NEW i \in SUBSET Sections
  PROVE  Takes(Place("alive2_target", FALSE, e, i), <<Timeout>>,
               Place("alive2_target", FALSE, e \ {"error"}, i \cup {"error"}))
<1>1. /\ Timeout \in TextLines /\ Timeout.of = "reason" /\ Timeout.starts = "ERROR: Timeout"
      /\ Blank.of = "none"
  BY DEF Timeout, Printed, TextLines, Blank, Mark
<1>2. Belongs[Timeout.of] = {"error"} \ {"main"} /\ Timeout # Blank
  BY <1>1, BelongsIs
<1>3. \A st \in States : Sort(st, Timeout) = Put(st, "error", Timeout)
  BY <1>1 DEF Sort, Separators, Separate
<1>4. Puts(Timeout, "alive2_target", TRUE, FALSE, "alive2_target", TRUE, "error")
  <2> SUFFICES ASSUME NEW st \in States, st.currentSection = "alive2_target",
                      st.inAlive2Section = TRUE, st.inUBWarningSection = FALSE
               PROVE  LET new == Sort(st, Timeout)
                      IN  /\ new \in States /\ new.currentSection = "alive2_target"
                          /\ new.inAlive2Section = TRUE /\ new.inUBWarningSection = FALSE
                          /\ Grown(st.sections, new.sections, "error", Timeout)
    BY DEF Puts
  <2>1. Sort(st, Timeout) = Put(st, "error", Timeout) /\ "error" \in Sections
    BY <1>3, SectionsAre
  <2> DEFINE new == Put(st, "error", Timeout)
  <2>2. /\ new \in States /\ new.currentSection = st.currentSection
        /\ new.inAlive2Section = st.inAlive2Section
        /\ new.inUBWarningSection = st.inUBWarningSection
        /\ Grown(st.sections, new.sections, "error", Timeout)
    BY <1>1, <2>1, PutState
  <2> HIDE DEF new
  <2>3. Sort(st, Timeout) = new
    BY <2>1 DEF new
  <2> QED BY <2>2, <2>3
<1>5. "error" \in Sections
  BY SectionsAre
<1> QED BY <1>1, <1>2, <1>4, <1>5, TakesInto

(* What there is to know of the lines that give a reason.                  *)
LEMMA ErrorLines ==
  \A line \in ReasonLines \cup {Ill, Unknown} :
    line \in TextLines /\ line.of = "reason" /\ line.starts = "ERROR:"
<1>1. \A line \in ReasonLines \cup {Ill, Unknown} : line \in TextLines
  BY DEF TextLines
<1>2. \A line \in ReasonLines : line.of = "reason" /\ line.starts = "ERROR:"
  <2> SUFFICES ASSUME NEW line \in ReasonLines
               PROVE  line.of = "reason" /\ line.starts = "ERROR:"
    OBVIOUS
  <2>1. PICK why \in Refuted : line = Printed("ERROR:", "reason", why)
    BY DEF ReasonLines
  <2> QED BY <2>1 DEF Printed
<1>3. \A line \in {Ill, Unknown} : line.of = "reason" /\ line.starts = "ERROR:"
  <2>1. Ill.of = "reason" /\ Ill.starts = "ERROR:"
    BY DEF Ill, Printed
  <2>2. Unknown.of = "reason" /\ Unknown.starts = "ERROR:"
    BY DEF Unknown, Printed
  <2> QED BY <2>1, <2>2
<1> QED BY <1>1, <1>2, <1>3

(* A reason is an error, and what comes next is too.                       *)
LEMMA TakesError ==
  ASSUME NEW e \in SUBSET Sections, NEW i \in SUBSET Sections,
         NEW line \in ReasonLines \cup {Ill, Unknown}
  PROVE  Takes(Place("main", FALSE, e, i), <<line>>,
               Place("error", FALSE, e \ {"error"}, i \cup {"error"}))
<1>1. line \in TextLines /\ line.of = "reason" /\ line.starts = "ERROR:" /\ Blank.of = "none"
  BY ErrorLines, BlankLine
<1>2. Belongs[line.of] = {"error"} \ {"main"} /\ line # Blank
  BY <1>1, BelongsIs
<1>3. \A st \in States : ~st.inUBWarningSection /\ ~st.inAlive2Section =>
        Sort(st, line) = Put(To(st, "error"), "error", line)
  <2>1. line.starts \notin Separators
    BY <1>1 DEF Separators
  <2>2. \A st \in States : PutExample(st, line) = Put(To(st, "error"), "error", line)
    BY <1>1 DEF PutExample
  <2> QED BY <2>1, <2>2 DEF Sort
<1>4. Puts(line, "main", FALSE, FALSE, "error", FALSE, "error")
  <2> SUFFICES ASSUME NEW st \in States, st.currentSection = "main",
                      st.inAlive2Section = FALSE, st.inUBWarningSection = FALSE
               PROVE  LET new == Sort(st, line)
                      IN  /\ new \in States /\ new.currentSection = "error"
                          /\ new.inAlive2Section = FALSE /\ new.inUBWarningSection = FALSE
                          /\ Grown(st.sections, new.sections, "error", line)
    BY DEF Puts
  <2>1. Sort(st, line) = Put(To(st, "error"), "error", line) /\ "error" \in Sections
    BY <1>3, SectionsAre
  <2> DEFINE mid == To(st, "error")
  <2>2. /\ mid \in States /\ mid.currentSection = "error"
        /\ mid.inAlive2Section = FALSE /\ mid.inUBWarningSection = FALSE
        /\ mid.sections = st.sections
    BY <2>1, ToState
  <2> HIDE DEF mid
  <2>3. LET new == Put(mid, "error", line)
        IN  /\ new \in States /\ new.currentSection = "error"
            /\ new.inAlive2Section = FALSE /\ new.inUBWarningSection = FALSE
            /\ Grown(st.sections, new.sections, "error", line)
    BY <1>1, <2>1, <2>2, PutState
  <2> QED BY <2>1, <2>3 DEF mid
<1>5. "error" \in Sections
  BY SectionsAre
<1> QED BY <1>1, <1>2, <1>4, <1>5, TakesInto

(* Outside the programs the flag is not set.                               *)
LEMMA Outside ==
  ASSUME NEW c, c \notin {"alive2_source", "alive2_target"}, NEW x
  PROVE  x = (c \in {"alive2_source", "alive2_target"}) <=> x = FALSE
<1>1. ASSUME NEW a \in BOOLEAN, a <=> c \in {"alive2_source", "alive2_target"}
      PROVE  x = (c \in {"alive2_source", "alive2_target"}) <=> x = a
  BY <1>1
<1> QED BY <1>1

(* The heading of a memory, with a blank line before it.                   *)
LEMMA TakesMemory ==
  ASSUME NEW e \in SUBSET Sections, NEW i \in SUBSET Sections, NEW c, NEW line,
         \/ /\ c = "source"
            /\ line = Printed("SOURCE MEMORY STATE", "cppState", {"SOURCE MEMORY STATE"})
         \/ /\ c = "target"
            /\ line = Printed("TARGET MEMORY STATE", "rustState", {"TARGET MEMORY STATE"})
  PROVE  Takes(Place(c, FALSE, e, i), <<line>>, Place(c, FALSE, e \ {c}, i \cup {c}))
<1>1. /\ line \in TextLines /\ line # Blank /\ c \in Sections
      /\ c = "source" => line.starts = "SOURCE MEMORY STATE"
      /\ c # "source" => line.starts = "TARGET MEMORY STATE"
      /\ Belongs[line.of] = {c} \ {"main"}
      /\ c \in {"source", "target"}
  <2>1. c \in {"source", "target"} /\ c \in Sections
    BY SectionsAre
  <2>2. /\ c = "source" => line.starts = "SOURCE MEMORY STATE" /\ line.of = "cppState"
        /\ c # "source" => line.starts = "TARGET MEMORY STATE" /\ line.of = "rustState"
    <3>1. CASE c = "source"
      <4>1. line = Printed("SOURCE MEMORY STATE", "cppState", {"SOURCE MEMORY STATE"})
        BY <3>1
      <4> QED BY <4>1, <3>1 DEF Printed
    <3>2. CASE c # "source"
      <4>1. line = Printed("TARGET MEMORY STATE", "rustState", {"TARGET MEMORY STATE"})
        BY <3>2
      <4> QED BY <4>1, <3>2 DEF Printed
    <3> QED BY <3>1, <3>2
  <2>3. line \in TextLines
    BY DEF TextLines, StateLines
  <2>4. line # Blank
    BY <2>2, BlankLine
  <2>5. Belongs[line.of] = {c} \ {"main"}
    BY <2>1, <2>2, BelongsIs
  <2> QED BY <2>1, <2>2, <2>3, <2>4, <2>5
<1> SUFFICES ASSUME NEW st, NEW seen, At(st, Place(c, FALSE, e, i), seen)
             PROVE  At(Sort(st, line), Place(c, FALSE, e \ {c}, i \cup {c}), seen \cup {line})
  BY <1>1, TakesOne
<1>2. /\ st \in States /\ st.currentSection = c /\ st.inUBWarningSection = FALSE
      /\ st.inAlive2Section = FALSE
      /\ Fits(st.sections, seen, e, i)
  <2>1. c \notin {"alive2_source", "alive2_target"}
    BY <1>1
  <2>2. /\ st \in States /\ st.currentSection = c /\ st.inUBWarningSection = FALSE
        /\ st.inAlive2Section = (c \in {"alive2_source", "alive2_target"})
        /\ Fits(st.sections, seen, e, i)
    BY AtPlace
  <2> QED BY <2>1, <2>2, Outside
<1> DEFINE mid == Put(st, c, Blank)
           new == Put(mid, c, line)
<1>3. Sort(st, line) = new
  <2>1. line.starts \notin Separators
    BY <1>1 DEF Separators
  <2>2. CASE c = "source"
    BY <1>1, <1>2, <2>1, <2>2 DEF Sort, PutExample
  <2>3. CASE c = "target"
    BY <1>1, <1>2, <2>1, <2>3 DEF Sort, PutExample
  <2> QED BY <1>1, <2>2, <2>3
<1>4. /\ mid \in States /\ mid.currentSection = c
      /\ mid.inAlive2Section = FALSE /\ mid.inUBWarningSection = FALSE
      /\ Grown(st.sections, mid.sections, c, Blank)
  <2>1. st \in States /\ c \in Sections /\ Blank \in TextLines
    BY <1>1, <1>2, BlankLine
  <2>2. /\ mid \in States /\ mid.currentSection = st.currentSection
        /\ mid.inAlive2Section = st.inAlive2Section
        /\ mid.inUBWarningSection = st.inUBWarningSection
        /\ Grown(st.sections, mid.sections, c, Blank)
    BY <2>1, PutState
  <2> HIDE DEF mid
  <2> QED BY <1>2, <2>2
<1> HIDE DEF mid
<1>5. /\ new \in States /\ new.currentSection = c
      /\ new.inAlive2Section = FALSE /\ new.inUBWarningSection = FALSE
      /\ Grown(mid.sections, new.sections, c, line)
  <2>1. mid \in States /\ c \in Sections /\ line \in TextLines
    BY <1>1, <1>4
  <2>2. /\ new \in States /\ new.currentSection = mid.currentSection
        /\ new.inAlive2Section = mid.inAlive2Section
        /\ new.inUBWarningSection = mid.inUBWarningSection
        /\ Grown(mid.sections, new.sections, c, line)
    BY <2>1, PutState
  <2> HIDE DEF new
  <2> QED BY <1>4, <2>2
<1> HIDE DEF new
<1>6. /\ st.sections \in [Sections -> Seq(TextLines)]
      /\ mid.sections \in [Sections -> Seq(TextLines)]
      /\ new.sections \in [Sections -> Seq(TextLines)]
  BY <1>2, <1>4, <1>5 DEF Fits, Grown
<1>7. ASSUME NEW old, NEW grown, NEW l \in TextLines, Grown(old, grown, c, l),
             old \in [Sections -> Seq(TextLines)]
      PROVE  /\ \A t \in Sections \ {c} : grown[t] = old[t]
             /\ Elements(grown[c]) = Elements(old[c]) \cup {l}
  <2>1. c \in Sections
    BY <1>1
  <2>2. /\ \A t \in Sections \ {c} : grown[t] = old[t]
        /\ Elements(grown[c]) = Elements(old[c]) \cup {l}
        /\ old[c] = <<>> => grown[c] = <<l>>
        /\ \A t \in Sections : Elements(old[t]) \subseteq Elements(grown[t])
    BY <1>7, <2>1, GrownElements
  <2> QED BY <2>2
<1>8. /\ \A t \in Sections \ {c} : mid.sections[t] = st.sections[t]
      /\ Elements(mid.sections[c]) = Elements(st.sections[c]) \cup {Blank}
  <2>1. /\ Grown(st.sections, mid.sections, c, Blank) /\ Blank \in TextLines
        /\ st.sections \in [Sections -> Seq(TextLines)]
    BY <1>4, <1>6, BlankLine
  <2> QED BY <2>1, <1>7, Zenon
<1>9. /\ \A t \in Sections \ {c} : new.sections[t] = mid.sections[t]
      /\ Elements(new.sections[c]) = Elements(mid.sections[c]) \cup {line}
  <2>1. /\ Grown(mid.sections, new.sections, c, line) /\ line \in TextLines
        /\ mid.sections \in [Sections -> Seq(TextLines)]
    BY <1>1, <1>5, <1>6
  <2> QED BY <2>1, <1>7, Zenon
<1>10. Fits(new.sections, seen \cup {line}, e \ {c}, i \cup {c})
  <2>1. /\ \A t \in Sections \ {c} : new.sections[t] = st.sections[t]
        /\ Elements(st.sections[c]) \cup {line} \subseteq Elements(new.sections[c])
        /\ Elements(new.sections[c]) \subseteq Elements(st.sections[c]) \cup {line, Blank}
    BY <1>8, <1>9
  <2> QED BY <1>1, <1>2, <1>6, <2>1, FitsMore
<1>11. new.inAlive2Section = (c \in {"alive2_source", "alive2_target"})
  <2>1. c \notin {"alive2_source", "alive2_target"}
    BY <1>1
  <2> QED BY <2>1, <1>5, Outside
<1>12. At(new, Place(c, FALSE, e \ {c}, i \cup {c}), seen \cup {line})
  BY <1>5, <1>10, <1>11, AtNow
<1> QED BY <1>3, <1>12

--------------------------------------------------------------------------------
(* A line with as much as is needed of what is known after it.             *)

(* A line of a part, where less is asked of the sections afterwards.       *)
LEMMA TakesPlain ==
  ASSUME NEW c \in Sections, NEW e \in SUBSET Sections, NEW i \in SUBSET Sections,
         NEW line \in TextLines, line.of # "none", line.starts \notin Separators,
         c \in {"alive2_source", "alive2_target"} \/ line.starts \notin Special,
         Belongs[line.of] = {c} \ {"main"},
         NEW f \in SUBSET (e \ {c}), NEW j \in SUBSET (i \cup {c})
  PROVE  Takes(Place(c, FALSE, e, i), <<line>>, Place(c, FALSE, f, j))
<1>1. line # Blank
  BY BlankLine
<1>2. Takes(Place(c, FALSE, e, i), <<line>>, Place(c, FALSE, e \ {c}, i \cup {c}))
  BY <1>1, TakesPut
<1> QED BY <1>2, TakesLess

(* A blank line, where less is asked of the sections afterwards.           *)
LEMMA TakesSpace ==
  ASSUME NEW c \in Sections, NEW e \in SUBSET Sections, NEW i \in SUBSET Sections,
         c \in {"main", "target"} \cup i \cup ({"example", "source"} \cap e),
         NEW f \in SUBSET (e \ {c}), NEW j \in SUBSET i
  PROVE  Takes(Place(c, FALSE, e, i), <<Blank>>, Place(c, FALSE, f, j))
<1>1. Takes(Place(c, FALSE, e, i), <<Blank>>, Place(c, FALSE, e \ {c}, i))
  BY TakesBlank
<1> QED BY <1>1, TakesLess

(* The lines of the two programs, and the warning.                         *)
Counterexample == {"error", "example", "source", "target"}
Unwarned == Counterexample \cup {"ub_warning"}

(* Which sections the names for several sections stand for.                *)
LEMMA SomeSections ==
  /\ Counterexample \in SUBSET Sections /\ Unwarned \in SUBSET (Sections \ {"main"})
  /\ "alive2_source" \notin Unwarned /\ "alive2_target" \notin Unwarned
  /\ Counterexample \subseteq Unwarned \ {"ub_warning"}
  /\ "alive2_target" \notin Counterexample /\ "main" \notin Unwarned
  /\ Sections \in SUBSET Sections /\ "main" \notin Counterexample
BY SectionsAre DEF Counterexample, Unwarned

GlobalLine == Printed("@name", "cpp", {"@name", "= constant", "align"})
CppLine == Printed("", "cpp", {"define", "i32", "noundef"})
RustLine == Printed("", "rust", {"define", "i32", "noundef"})

(* What there is to know of the lines of the two programs.                 *)
LEMMA ProgramLines ==
  /\ {GlobalLine, CppLine, RustLine} \subseteq TextLines
  /\ GlobalLine.of = "cpp" /\ CppLine.of = "cpp" /\ RustLine.of = "rust"
  /\ GlobalLine.starts \notin Separators
  /\ CppLine.starts \notin Separators /\ RustLine.starts \notin Separators
<1>1. {GlobalLine, CppLine, RustLine} \subseteq TextLines
  BY DEF TextLines, GlobalLine, CppLine, RustLine
<1>2. GlobalLine.of = "cpp" /\ GlobalLine.starts = "@name"
  BY DEF GlobalLine, Printed
<1>3. CppLine.of = "cpp" /\ CppLine.starts = ""
  BY DEF CppLine, Printed
<1>4. RustLine.of = "rust" /\ RustLine.starts = ""
  BY DEF RustLine, Printed
<1>5. "@name" \notin Separators /\ "" \notin Separators
  BY DEF Separators
<1> QED BY <1>1, <1>2, <1>3, <1>4, <1>5

(* Both programs come under their headings.                                *)
LEMMA TakesTransform ==
  Takes(Place("main", FALSE, Sections, {}), Transform,
        Place("alive2_target", FALSE, Unwarned, {"alive2_target"}))
<1> DEFINE p == Place("alive2_source", FALSE, Unwarned, {})
<1>1. /\ "main" \in Sections /\ "alive2_source" \in Sections /\ "alive2_target" \in Sections
      /\ {"alive2_target"} \in SUBSET Sections
  BY SectionsAre
<1>2. Takes(Place("main", FALSE, Sections, {}), <<Blank>>, Place("main", FALSE, Unwarned, {}))
  BY <1>1, SomeSections, TakesSpace
<1>3. Takes(Place("main", FALSE, Unwarned, {}), <<Mark("----")>>, p)
  BY TakesSource
<1>4. Belongs["cpp"] = {"alive2_source"} \ {"main"}
      /\ Belongs["rust"] = {"alive2_target"} \ {"main"}
  BY BelongsIs
<1>5. Takes(p, <<GlobalLine>>, p) /\ Takes(p, <<CppLine>>, p)
  <2>1. /\ Unwarned \in SUBSET (Unwarned \ {"alive2_source"}) /\ Unwarned \in SUBSET Sections
        /\ {} \in SUBSET Sections /\ {} \in SUBSET ({} \cup {"alive2_source"})
    BY SomeSections
  <2> QED BY <1>1, <1>4, <2>1, ProgramLines, TakesPlain
<1>6. Takes(p, <<Mark("=>")>>, Place("alive2_target", FALSE, Unwarned, {}))
  BY TakesTarget
<1>7. Takes(Place("alive2_target", FALSE, Unwarned, {}), <<RustLine>>,
            Place("alive2_target", FALSE, Unwarned, {"alive2_target"}))
  <2>1. /\ Unwarned \in SUBSET (Unwarned \ {"alive2_target"}) /\ Unwarned \in SUBSET Sections
        /\ {} \in SUBSET Sections /\ {"alive2_target"} \in SUBSET ({} \cup {"alive2_target"})
    BY SomeSections
  <2> QED BY <1>1, <1>4, <2>1, ProgramLines, TakesPlain
<1> DEFINE b == Place("main", FALSE, Sections, {})
           m == Place("main", FALSE, Unwarned, {})
           r == Place("alive2_target", FALSE, Unwarned, {})
           q == Place("alive2_target", FALSE, Unwarned, {"alive2_target"})
<1> HIDE DEF p, b, m, r, q
<1>8. Takes(b, <<Blank, Mark("----"), GlobalLine>>, p)
  <2>1. Takes(m, <<Mark("----"), GlobalLine>>, p)
    BY <1>3, <1>5, TakesTwo DEF m
  <2> QED BY <1>2, <2>1, TakesThree DEF b, m
<1>9. Takes(p, <<CppLine, Mark("=>"), RustLine>>, q)
  <2>1. Takes(p, <<Mark("=>"), RustLine>>, q)
    BY <1>6, <1>7, TakesTwo DEF r, q
  <2> QED BY <1>5, <2>1, TakesThree
<1>10. Takes(b, <<Blank, Mark("----"), GlobalLine, CppLine, Mark("=>"), RustLine>>, q)
  BY <1>8, <1>9, TakesSix
<1>11. Transform = <<Blank, Mark("----"), GlobalLine, CppLine, Mark("=>"), RustLine>>
  BY DEF Transform, GlobalLine, CppLine, RustLine
<1> QED BY <1>10, <1>11 DEF b, q

(* The warning, with the blank lines around it.                            *)
LEMMA TakesWarning ==
  Takes(Place("alive2_target", FALSE, Unwarned, {"alive2_target"}), Warning,
        Place("alive2_target", FALSE, Counterexample, {"alive2_target"}))
<1> DEFINE J == {"alive2_target"}
           p == Place("alive2_target", FALSE, Unwarned, J)
           q == Place("alive2_target", FALSE, Counterexample, J)
           u == Place("alive2_target", TRUE, Unwarned, J)
           v == Place("alive2_target", TRUE, Counterexample, J)
<1>1. /\ "alive2_target" \in Sections /\ J \in SUBSET Sections /\ J \in SUBSET J
      /\ "alive2_target" \in {"main", "target"} \cup J
      /\ J \in SUBSET (J \cup {"ub_warning"})
  BY SectionsAre
<1> HIDE DEF J
<1>2. Takes(p, <<Blank>>, p)
  <2>1. Unwarned \in SUBSET (Unwarned \ {"alive2_target"}) /\ Unwarned \in SUBSET Sections
    BY SomeSections
  <2> QED BY <1>1, <2>1, TakesSpace
<1>3. Takes(q, <<Blank>>, q)
  <2>1. Counterexample \in SUBSET (Counterexample \ {"alive2_target"})
        /\ Counterexample \in SUBSET Sections
    BY SomeSections
  <2> QED BY <1>1, <2>1, TakesSpace
<1>4. Takes(p, <<Mark("****")>>, u) /\ Takes(v, <<Mark("****")>>, q)
  BY TakesStars
<1>5. Takes(u, <<WarningLine>>, v)
  <2>1. Takes(u, <<WarningLine>>,
              Place("alive2_target", TRUE, Unwarned \ {"ub_warning"}, J \cup {"ub_warning"}))
    BY <1>1, SomeSections, TakesWarningLine
  <2>2. Counterexample \in SUBSET (Unwarned \ {"ub_warning"})
    BY SomeSections
  <2> QED BY <1>1, <2>1, <2>2, TakesLess
<1> HIDE DEF p, q, u, v
<1>6. Takes(p, <<Blank, Mark("****"), WarningLine>>, v)
  BY <1>2, <1>4, <1>5, TakesTwo, TakesThree
<1>7. Takes(v, <<Mark("****"), Blank, Blank>>, q)
  BY <1>3, <1>4, TakesTwo, TakesThree
<1>8. Takes(p, <<Blank, Mark("****"), WarningLine, Mark("****"), Blank, Blank>>, q)
  BY <1>6, <1>7, TakesSix
<1> QED BY <1>8 DEF Warning, WarningLine, p, q, J

(* After the two programs.                                                 *)
Compared == Place("alive2_target", FALSE, Counterexample, {"alive2_target"})

(* The programs, with the warning or without.                              *)
LEMMA TakesPrograms ==
  ASSUME NEW warned \in BOOLEAN
  PROVE  Takes(Place("main", FALSE, Sections, {}), Transform \o Choose(warned, Warning),
               Compared)
<1> DEFINE p == Place("alive2_target", FALSE, Unwarned, {"alive2_target"})
<1>1. Takes(p, Choose(warned, Warning), Compared)
  <2>1. CASE warned
    <3>1. Choose(warned, Warning) = Warning
      BY <2>1 DEF Choose
    <3> QED BY <3>1, TakesWarning DEF Compared
  <2>2. CASE ~warned
    <3>1. Choose(warned, Warning) = <<>>
      BY <2>2 DEF Choose
    <3>2. Counterexample \in SUBSET Unwarned
      BY DEF Unwarned
    <3>3. Takes(p, <<>>, p)
      BY TakesNone
    <3>4. Takes(p, <<>>, Compared)
      BY <3>2, <3>3, TakesLess DEF Compared
    <3> QED BY <3>1, <3>4
  <2> QED BY <2>1, <2>2
<1>2. Takes(Place("main", FALSE, Sections, {}), Transform, p)
  BY TakesTransform
<1> HIDE DEF p
<1> QED BY <1>1, <1>2, TakesThen

--------------------------------------------------------------------------------
(* The lines of a counterexample.                                          *)

(* The section of the state of a program.                                  *)
StateOf(c) == IF c = "source" THEN "cppState" ELSE "rustState"
MemoryOf(c) == IF c = "source" THEN "SOURCE MEMORY STATE" ELSE "TARGET MEMORY STATE"

(* The lines of the state of a program belong where its heading leads.     *)
LEMMA StateOfFits ==
  ASSUME NEW c \in {"source", "target"}
  PROVE  /\ c \in Sections /\ Belongs[StateOf(c)] = {c} \ {"main"} /\ StateOf(c) # "none"
         /\ StateLines(StateOf(c), MemoryOf(c)) \subseteq TextLines
<1>1. CASE c = "source"
  <2>1. StateOf(c) = "cppState" /\ MemoryOf(c) = "SOURCE MEMORY STATE"
    BY <1>1 DEF StateOf, MemoryOf
  <2> QED BY <1>1, <2>1, SectionsAre, BelongsIs DEF TextLines
<1>2. CASE c = "target"
  <2>1. StateOf(c) = "rustState" /\ MemoryOf(c) = "TARGET MEMORY STATE"
    BY <1>2 DEF StateOf, MemoryOf
  <2> QED BY <1>2, <2>1, SectionsAre, BelongsIs DEF TextLines
<1> QED BY <1>1, <1>2

(* A line of a state that is no heading.                                   *)
LEMMA TakesStateLine ==
  ASSUME NEW c \in {"source", "target"}, NEW e \in SUBSET Sections, NEW i \in SUBSET Sections,
         NEW starts \in {"", "  >>"}, NEW has,
         Printed(starts, StateOf(c), has) \in StateLines(StateOf(c), MemoryOf(c)),
         NEW f \in SUBSET (e \ {c}), NEW j \in SUBSET (i \cup {c})
  PROVE  Takes(Place(c, FALSE, e, i), <<Printed(starts, StateOf(c), has)>>,
               Place(c, FALSE, f, j))
<1> DEFINE line == Printed(starts, StateOf(c), has)
<1>1. line.starts = starts /\ line.of = StateOf(c)
  BY DEF Printed
<1>2. line \in TextLines
  BY StateOfFits
<1> HIDE DEF line
<1>3. line.starts \notin Separators /\ line.starts \notin Special
  BY <1>1 DEF Separators, Special
<1>4. c \in Sections /\ line.of # "none" /\ Belongs[line.of] = {c} \ {"main"}
  BY <1>1, StateOfFits
<1>5. Takes(Place(c, FALSE, e, i), <<line>>, Place(c, FALSE, f, j))
  BY <1>2, <1>3, <1>4, TakesPlain
<1> QED BY <1>5 DEF line

Steps(of) ==
  <<Printed("", of, {"Function @", "returned"}), Printed("  >>", of, {"Jump to"}),
    Printed("", of, {"Function @", "triggered UB"})>>

(* The steps of a program.                                                 *)
LEMMA TakesSteps ==
  ASSUME NEW c \in {"source", "target"}
  PROVE  Takes(Place(c, FALSE, {c, "target"}, {}), Steps(StateOf(c)),
               Place(c, FALSE, {"target"} \ {c}, {c}))
<1> DEFINE p == Place(c, FALSE, {c, "target"}, {})
           q == Place(c, FALSE, {"target"} \ {c}, {c})
           returned == Printed("", StateOf(c), {"Function @", "returned"})
           jump == Printed("  >>", StateOf(c), {"Jump to"})
           triggered == Printed("", StateOf(c), {"Function @", "triggered UB"})
<1>1. {returned, jump, triggered} \subseteq StateLines(StateOf(c), MemoryOf(c))
  BY DEF StateLines
<1>2. /\ {c, "target"} \in SUBSET Sections /\ {} \in SUBSET Sections
      /\ {"target"} \ {c} \in SUBSET Sections /\ {c} \in SUBSET Sections
      /\ {"target"} \ {c} \in SUBSET ({c, "target"} \ {c})
      /\ {"target"} \ {c} \in SUBSET (({"target"} \ {c}) \ {c})
      /\ {c} \in SUBSET ({} \cup {c}) /\ {c} \in SUBSET ({c} \cup {c})
  BY SectionsAre
<1>3. Takes(p, <<returned>>, q)
  BY <1>1, <1>2, TakesStateLine
<1>4. Takes(q, <<jump>>, q)
  BY <1>1, <1>2, TakesStateLine
<1>5. Takes(q, <<triggered>>, q)
  BY <1>1, <1>2, TakesStateLine
<1>6. Steps(StateOf(c)) = <<returned, jump, triggered>>
  BY DEF Steps
<1> HIDE DEF p, q, returned, jump, triggered
<1>7. Takes(q, <<jump, triggered>>, q)
  BY <1>4, <1>5, TakesTwo
<1>8. Takes(p, <<returned, jump, triggered>>, q)
  BY <1>3, <1>7, TakesThree
<1> QED BY <1>6, <1>8 DEF p, q

Memory(of, heading) ==
  <<Blank, Printed(heading, of, {heading}), Printed("", of, {"alive", "align", "address"})>>

(* The memory of a program.                                                *)
LEMMA TakesMemoryLines ==
  ASSUME NEW c \in {"source", "target"}, NEW e \in SUBSET Sections, NEW i \in SUBSET Sections,
         {"target"} \ {c} \subseteq e, c \in e \cup i \cup {"target"}
  PROVE  Takes(Place(c, FALSE, e, i), Memory(StateOf(c), MemoryOf(c)),
               Place(c, FALSE, {"target"} \ {c}, {c}))
<1> DEFINE p == Place(c, FALSE, e, i)
           m == Place(c, FALSE, e \ {c}, i)
           n == Place(c, FALSE, (e \ {c}) \ {c}, i \cup {c})
           q == Place(c, FALSE, {"target"} \ {c}, {c})
           heading == Printed(MemoryOf(c), StateOf(c), {MemoryOf(c)})
           bytes == Printed("", StateOf(c), {"alive", "align", "address"})
<1>1. c \in Sections /\ e \ {c} \in SUBSET Sections /\ i \cup {c} \in SUBSET Sections
      /\ (e \ {c}) \ {c} \in SUBSET Sections
      /\ {"target"} \ {c} \in SUBSET (((e \ {c}) \ {c}) \ {c})
      /\ {c} \in SUBSET ((i \cup {c}) \cup {c})
  BY SectionsAre
<1>2. Takes(p, <<Blank>>, m)
  <2>1. c \in {"main", "target"} \cup i \cup ({"example", "source"} \cap e)
    OBVIOUS
  <2> QED BY <1>1, <2>1, TakesBlank
<1>3. Takes(m, <<heading>>, n)
  <2>1. \/ /\ c = "source"
           /\ heading = Printed("SOURCE MEMORY STATE", "cppState", {"SOURCE MEMORY STATE"})
        \/ /\ c = "target"
           /\ heading = Printed("TARGET MEMORY STATE", "rustState", {"TARGET MEMORY STATE"})
    BY DEF StateOf, MemoryOf
  <2> HIDE DEF heading
  <2> QED BY <1>1, <2>1, TakesMemory
<1>4. Takes(n, <<bytes>>, q)
  <2>1. bytes \in StateLines(StateOf(c), MemoryOf(c))
    BY DEF StateLines
  <2> QED BY <1>1, <2>1, TakesStateLine
<1>5. Memory(StateOf(c), MemoryOf(c)) = <<Blank, heading, bytes>>
  BY DEF Memory
<1> HIDE DEF p, m, n, q, heading, bytes
<1>6. Takes(m, <<heading, bytes>>, q)
  BY <1>3, <1>4, TakesTwo
<1>7. Takes(p, <<Blank, heading, bytes>>, q)
  BY <1>2, <1>6, TakesThree
<1> QED BY <1>5, <1>7 DEF p, q

(* The state of a program, however much there is to print.                 *)
LEMMA TakesProgramState ==
  ASSUME NEW c \in {"source", "target"}, NEW steps \in BOOLEAN, NEW memory \in BOOLEAN
  PROVE  \E e, i \in SUBSET Sections :
           /\ {"target"} \ {c} \subseteq e
           /\ c \in e \cup i \cup {"target"}
           /\ Takes(Place(c, FALSE, {c, "target"}, {}),
                    ProgramState(StateOf(c), MemoryOf(c), steps, memory),
                    Place(c, FALSE, e, i))
<1> DEFINE p == Place(c, FALSE, {c, "target"}, {})
           q == Place(c, FALSE, {"target"} \ {c}, {c})
<1>1. PICK e \in SUBSET Sections, i \in SUBSET Sections :
        /\ {"target"} \ {c} \subseteq e
        /\ c \in e \cup i \cup {"target"}
        /\ Takes(p, Choose(steps, Steps(StateOf(c))), Place(c, FALSE, e, i))
  <2>1. CASE steps
    <3>1. Takes(p, Choose(steps, Steps(StateOf(c))), q)
      BY <2>1, TakesSteps DEF Choose
    <3> QED BY <3>1, SectionsAre
  <2>2. CASE ~steps
    <3>1. Takes(p, Choose(steps, Steps(StateOf(c))), p)
      BY <2>2, TakesNone DEF Choose
    <3> QED BY <3>1, SectionsAre
  <2> QED BY <2>1, <2>2
<1>2. \E f, j \in SUBSET Sections :
        /\ {"target"} \ {c} \subseteq f
        /\ c \in f \cup j \cup {"target"}
        /\ Takes(Place(c, FALSE, e, i), Choose(memory, Memory(StateOf(c), MemoryOf(c))),
                 Place(c, FALSE, f, j))
  <2>1. CASE memory
    <3>1. Takes(Place(c, FALSE, e, i), Choose(memory, Memory(StateOf(c), MemoryOf(c))), q)
      BY <1>1, <2>1, TakesMemoryLines DEF Choose
    <3> QED BY <3>1, SectionsAre
  <2>2. CASE ~memory
    <3>1. Takes(Place(c, FALSE, e, i), Choose(memory, Memory(StateOf(c), MemoryOf(c))),
                Place(c, FALSE, e, i))
      BY <2>2, TakesNone DEF Choose
    <3> QED BY <1>1, <3>1
  <2> QED BY <2>1, <2>2
<1>3. ProgramState(StateOf(c), MemoryOf(c), steps, memory)
        = Choose(steps, Steps(StateOf(c)))
            \o Choose(memory, Memory(StateOf(c), MemoryOf(c)))
  BY DEF ProgramState, Steps, Memory
<1> HIDE DEF p
<1>4. PICK f \in SUBSET Sections, j \in SUBSET Sections :
        /\ {"target"} \ {c} \subseteq f
        /\ c \in f \cup j \cup {"target"}
        /\ Takes(Place(c, FALSE, e, i), Choose(memory, Memory(StateOf(c), MemoryOf(c))),
                 Place(c, FALSE, f, j))
  BY <1>2
<1>5. Takes(p, ProgramState(StateOf(c), MemoryOf(c), steps, memory), Place(c, FALSE, f, j))
  BY <1>1, <1>3, <1>4, TakesThen
<1> QED BY <1>4, <1>5 DEF p

(* Why there is no refinement.                                             *)
Reasoned == Place("error", FALSE, {"example", "source", "target"}, {"error"})

(* The reason of a counterexample, and the blank line after it.            *)
LEMMA TakesReason ==
  /\ \A line \in ReasonLines \cup {Ill, Unknown} :
       Takes(Place("main", FALSE, Counterexample, {}), <<line>>, Reasoned)
  /\ Takes(Reasoned, <<Blank>>, Reasoned)
<1>1. ASSUME NEW line \in ReasonLines \cup {Ill, Unknown}
      PROVE  Takes(Place("main", FALSE, Counterexample, {}), <<line>>, Reasoned)
  <2> DEFINE E3 == {"example", "source", "target"}
  <2>1. /\ Counterexample \in SUBSET Sections /\ {} \in SUBSET Sections
        /\ E3 \in SUBSET (Counterexample \ {"error"})
        /\ {"error"} \in SUBSET ({} \cup {"error"})
    BY SomeSections DEF Counterexample
  <2>2. Takes(Place("main", FALSE, Counterexample, {}), <<line>>,
              Place("error", FALSE, Counterexample \ {"error"}, {} \cup {"error"}))
    BY <2>1, TakesError
  <2> HIDE DEF E3
  <2>3. Takes(Place("main", FALSE, Counterexample, {}), <<line>>,
              Place("error", FALSE, E3, {"error"}))
    BY <2>1, <2>2, TakesLess
  <2> QED BY <2>3 DEF Reasoned, E3
<1>2. Takes(Reasoned, <<Blank>>, Reasoned)
  <2> DEFINE E == {"example", "source", "target"}
  <2>1. /\ "error" \in Sections /\ E \in SUBSET Sections /\ {"error"} \in SUBSET Sections
        /\ {"error"} \in SUBSET {"error"} /\ E \in SUBSET (E \ {"error"})
        /\ "error" \in {"main", "target"} \cup {"error"} \cup ({"example", "source"} \cap E)
    BY SectionsAre
  <2> QED BY <2>1, TakesSpace DEF Reasoned
<1> QED BY <1>1, <1>2

ExampleLine == Printed("", "example", {"i32"})

(* The inputs, if there are any.                                           *)
LEMMA TakesInputs ==
  ASSUME NEW inputs \in BOOLEAN, NEW b, NEW s,
         Takes(b, s, Place("example", FALSE, {"example", "source", "target"}, {}))
  PROVE  Takes(b, s \o Choose(inputs, <<ExampleLine>>) \o <<Blank, Mark("Source:")>>,
               Place("source", FALSE, {"source", "target"}, {}))
<1> DEFINE E3 == {"example", "source", "target"}
           p == Place("example", FALSE, E3, {})
           m == Place("example", FALSE, {"source", "target"}, {})
           q == Place("source", FALSE, {"source", "target"}, {})
<1>1. /\ "example" \in Sections /\ E3 \in SUBSET Sections /\ {} \in SUBSET Sections
      /\ E3 \ {"example"} \in SUBSET Sections /\ {"example"} \in SUBSET Sections
      /\ E3 \ {"example"} \in SUBSET (E3 \ {"example"})
      /\ {"source", "target"} \in SUBSET ((E3 \ {"example"}) \ {"example"})
      /\ {"source", "target"} \in SUBSET (E3 \ {"example"})
      /\ {"example"} \in SUBSET ({} \cup {"example"}) /\ {} \in SUBSET {"example"}
      /\ {} \in SUBSET {}
  BY SectionsAre
<1>2. Takes(m, <<Mark("Source:")>>, q)
  BY TakesState
<1>3. CASE inputs
  <2> DEFINE n == Place("example", FALSE, E3 \ {"example"}, {"example"})
  <2>1. ExampleLine \in TextLines /\ ExampleLine.of = "example" /\ ExampleLine.starts = ""
    BY DEF ExampleLine, Printed, TextLines
  <2>2. Takes(p, <<ExampleLine>>, n)
    <3>1. ExampleLine.starts \notin Separators /\ ExampleLine.starts \notin Special
      BY <2>1 DEF Separators, Special
    <3>2. /\ Belongs[ExampleLine.of] = {"example"} \ {"main"} /\ ExampleLine.of # "none"
          /\ ExampleLine \in TextLines
      BY <2>1, BelongsIs
    <3>3. \A e, i \in SUBSET Sections : \A f \in SUBSET (e \ {"example"}) :
            \A j \in SUBSET (i \cup {"example"}) :
              Takes(Place("example", FALSE, e, i), <<ExampleLine>>, Place("example", FALSE, f, j))
      BY <1>1, <3>1, <3>2, TakesPlain
    <3> HIDE DEF E3
    <3> QED BY <1>1, <3>3
  <2>3. Takes(n, <<Blank>>, m)
    <3>1. "example" \in {"main", "target"} \cup {"example"}
                          \cup ({"example", "source"} \cap (E3 \ {"example"}))
      OBVIOUS
    <3> QED BY <1>1, <3>1, TakesSpace
  <2> HIDE DEF p, m, n, q
  <2>4. Takes(n, <<Blank, Mark("Source:")>>, q)
    BY <1>2, <2>3, TakesTwo
  <2>5. Choose(inputs, <<ExampleLine>>) = <<ExampleLine>>
    BY <1>3 DEF Choose
  <2>6. Takes(b, s \o Choose(inputs, <<ExampleLine>>), n)
    BY <2>2, <2>5, TakesThen DEF p
  <2>7. Takes(b, s \o Choose(inputs, <<ExampleLine>>) \o <<Blank, Mark("Source:")>>, q)
    BY <2>4, <2>6, TakesThen
  <2> QED BY <2>7 DEF q
<1>4. CASE ~inputs
  <2>1. Takes(p, <<Blank>>, m)
    <3>1. "example" \in {"main", "target"} \cup {} \cup ({"example", "source"} \cap E3)
      OBVIOUS
    <3> QED BY <1>1, <3>1, TakesSpace
  <2>2. Takes(p, <<>>, p)
    BY TakesNone
  <2> HIDE DEF p, m, q
  <2>3. Takes(p, <<Blank, Mark("Source:")>>, q)
    BY <1>2, <2>1, TakesTwo
  <2>4. Choose(inputs, <<ExampleLine>>) = <<>>
    BY <1>4 DEF Choose
  <2>5. Takes(b, s \o Choose(inputs, <<ExampleLine>>), p)
    BY <2>2, <2>4, TakesThen DEF p
  <2>6. Takes(b, s \o Choose(inputs, <<ExampleLine>>) \o <<Blank, Mark("Source:")>>, q)
    BY <2>3, <2>5, TakesThen
  <2> QED BY <2>6 DEF q
<1> QED BY <1>3, <1>4

(* The state of the C++ program, and the beginning of the other.           *)
LEMMA TakesCppState ==
  ASSUME NEW steps \in BOOLEAN, NEW memory \in BOOLEAN, NEW b, NEW s,
         Takes(b, s, Place("source", FALSE, {"source", "target"}, {}))
  PROVE  Takes(b, s \o ProgramState("cppState", "SOURCE MEMORY STATE", steps, memory)
                 \o <<Blank, Mark("Target:")>>,
               Place("target", FALSE, {"target"}, {}))
<1> DEFINE p == Place("source", FALSE, {"source", "target"}, {})
           m == Place("source", FALSE, {"target"}, {})
           q == Place("target", FALSE, {"target"}, {})
           state == ProgramState("cppState", "SOURCE MEMORY STATE", steps, memory)
<1>1. PICK e \in SUBSET Sections, i \in SUBSET Sections :
        /\ {"target"} \ {"source"} \subseteq e
        /\ "source" \in e \cup i \cup {"target"}
        /\ Takes(p, state, Place("source", FALSE, e, i))
  <2>1. StateOf("source") = "cppState" /\ MemoryOf("source") = "SOURCE MEMORY STATE"
    BY DEF StateOf, MemoryOf
  <2>2. \E e, i \in SUBSET Sections :
           /\ {"target"} \ {"source"} \subseteq e
           /\ "source" \in e \cup i \cup {"target"}
           /\ Takes(p, ProgramState(StateOf("source"), MemoryOf("source"), steps, memory),
                    Place("source", FALSE, e, i))
    BY TakesProgramState
  <2> QED BY <2>1, <2>2
<1> DEFINE n == Place("source", FALSE, e, i)
<1>2. Takes(n, <<Blank>>, m)
  <2>1. /\ "source" \in Sections /\ {"target"} \in SUBSET (e \ {"source"})
        /\ {} \in SUBSET i
        /\ "source" \in {"main", "target"} \cup i \cup ({"example", "source"} \cap e)
    BY <1>1, SectionsAre
  <2> QED BY <2>1, TakesSpace
<1>3. Takes(m, <<Mark("Target:")>>, q)
  BY TakesState
<1> HIDE DEF p, m, n, q, state
<1>4. Takes(n, <<Blank, Mark("Target:")>>, q)
  BY <1>2, <1>3, TakesTwo
<1>5. Takes(p, state, n)
  BY <1>1 DEF n
<1>6. Takes(b, s \o state, n)
  BY <1>5, TakesThen DEF p
<1>7. Takes(b, s \o state \o <<Blank, Mark("Target:")>>, q)
  BY <1>4, <1>6, TakesThen
<1> QED BY <1>7 DEF q, state

(* Nothing is asked of what is known after the target.                     *)
End == Place("target", FALSE, {}, {})

(* Blank lines at the end.                                                 *)
LEMMA TakesEnd == Takes(End, <<Blank>>, End)
<1>1. "target" \in Sections /\ {} \in SUBSET Sections /\ {} \in SUBSET ({} \ {"target"})
      /\ {} \in SUBSET {}
      /\ "target" \in {"main", "target"} \cup {} \cup ({"example", "source"} \cap {})
  BY SectionsAre
<1> QED BY <1>1, TakesSpace DEF End

(* The values stand under the state of the Rust program.                   *)
LEMMA TakesValues ==
  ASSUME NEW values \in Values
  PROVE  Takes(End, values, End)
<1>1. ASSUME NEW line \in ValueLines PROVE Takes(End, <<line>>, End)
  <2>1. line.of = "values" /\ line.starts = "" /\ line \in TextLines
    <3>1. CASE line = Printed("", "values", {"poison"})
      BY <3>1 DEF Printed, ValueLines, TextLines
    <3>2. CASE line = Printed("", "values", {"non-local", "block_id", "offset"})
      BY <3>2 DEF Printed, ValueLines, TextLines
    <3> QED BY <3>1, <3>2 DEF ValueLines
  <2>2. "" \notin Separators /\ "" \notin Special /\ "target" \in Sections
        /\ Belongs[line.of] = {"target"} \ {"main"} /\ {} \in SUBSET Sections
        /\ {} \in SUBSET ({} \ {"target"}) /\ {} \in SUBSET ({} \cup {"target"})
    BY <2>1, BelongsIs, SectionsAre DEF Separators, Special
  <2> QED BY <2>1, <2>2, TakesPlain DEF End
<1>2. CASE values = <<Blank>>
  BY <1>2, TakesEnd
<1>3. CASE values = <<Printed("", "values", {"poison"})>>
  BY <1>1, <1>3 DEF ValueLines
<1>4. CASE values = <<Blank, Printed("", "values", {"non-local", "block_id", "offset"})>>
  <2> DEFINE line == Printed("", "values", {"non-local", "block_id", "offset"})
  <2>1. Takes(End, <<line>>, End)
    BY <1>1 DEF ValueLines
  <2> HIDE DEF line
  <2>2. Takes(End, <<Blank, line>>, End)
    BY <2>1, TakesEnd, TakesTwo
  <2> QED BY <1>4, <2>2 DEF line
<1> QED BY <1>2, <1>3, <1>4 DEF Values

(* The state of the Rust program.                                          *)
LEMMA TakesRustState ==
  ASSUME NEW steps \in BOOLEAN, NEW memory \in BOOLEAN
  PROVE  Takes(Place("target", FALSE, {"target"}, {}),
               ProgramState("rustState", "TARGET MEMORY STATE", steps, memory), End)
<1> DEFINE state == ProgramState("rustState", "TARGET MEMORY STATE", steps, memory)
<1>1. \E e, i \in SUBSET Sections :
        Takes(Place("target", FALSE, {"target"}, {}), state, Place("target", FALSE, e, i))
  <2>1. StateOf("target") = "rustState" /\ MemoryOf("target") = "TARGET MEMORY STATE"
        /\ {"target", "target"} = {"target"}
    BY DEF StateOf, MemoryOf
  <2>2. \E e, i \in SUBSET Sections :
           /\ {"target"} \ {"target"} \subseteq e
           /\ "target" \in e \cup i \cup {"target"}
           /\ Takes(Place("target", FALSE, {"target", "target"}, {}),
                    ProgramState(StateOf("target"), MemoryOf("target"), steps, memory),
                    Place("target", FALSE, e, i))
    BY TakesProgramState
  <2> QED BY <2>1, <2>2
<1> HIDE DEF state
<1>2. Takes(Place("target", FALSE, {"target"}, {}), state, End)
  BY <1>1, TakesLess DEF End
<1> QED BY <1>2 DEF state

(* A whole counterexample.                                                 *)
LEMMA TakesCounterExample ==
  ASSUME NEW example \in CounterExamples
  PROVE  Takes(Place("main", FALSE, Counterexample, {}), example, End)
<1>1. PICK why \in Refuted, inputs \in BOOLEAN, steps \in BOOLEAN, memory \in BOOLEAN,
           values \in Values :
        example = CounterExample(why, inputs, steps, memory, values)
  BY DEF CounterExamples
<1> DEFINE b == Place("main", FALSE, Counterexample, {})
           p == Place("example", FALSE, {"example", "source", "target"}, {})
           q == Place("source", FALSE, {"source", "target"}, {})
           r == Place("target", FALSE, {"target"}, {})
           A == <<Printed("ERROR:", "reason", why), Blank, Mark("Example:")>>
           B == Choose(inputs, <<ExampleLine>>)
           C == <<Blank, Mark("Source:")>>
           D == ProgramState("cppState", "SOURCE MEMORY STATE", steps, memory)
           F == <<Blank, Mark("Target:")>>
           G == ProgramState("rustState", "TARGET MEMORY STATE", steps, memory)
           H == <<Blank, Blank>>
<1>2. Takes(b, A, p)
  <2> DEFINE line == Printed("ERROR:", "reason", why)
             E3 == {"example", "source", "target"}
             m == Place("example", FALSE, E3, {"error"})
  <2>1. Takes(b, <<line>>, Reasoned) /\ Takes(Reasoned, <<Blank>>, Reasoned)
    BY TakesReason DEF ReasonLines
  <2>2. Takes(Reasoned, <<Mark("Example:")>>, m)
    BY TakesExample DEF Reasoned
  <2>3. Takes(Reasoned, <<Mark("Example:")>>, p)
    <3>1. E3 \in SUBSET E3 /\ {} \in SUBSET {"error"}
      OBVIOUS
    <3> HIDE DEF E3
    <3>2. Takes(Reasoned, <<Mark("Example:")>>, Place("example", FALSE, E3, {}))
      BY <2>2, <3>1, TakesLess
    <3> QED BY <3>2 DEF p, E3
  <2> HIDE DEF b, line, p
  <2>4. Takes(Reasoned, <<Blank, Mark("Example:")>>, p)
    BY <2>1, <2>3, TakesTwo
  <2>5. Takes(b, <<line, Blank, Mark("Example:")>>, p)
    BY <2>1, <2>4, TakesThree
  <2> QED BY <2>5 DEF line
<1> HIDE DEF A, b
<1>3. Takes(b, A \o B \o C, q)
  BY <1>2, TakesInputs
<1> HIDE DEF B, C
<1>4. Takes(b, A \o B \o C \o D \o F, r)
  BY <1>3, TakesCppState
<1>5. Takes(r, G, End)
  BY TakesRustState
<1>6. Takes(End, values, End)
  BY TakesValues
<1>7. Takes(End, H, End)
  BY TakesEnd, TakesTwo
<1> HIDE DEF p, q, r, D, F, G, H
<1>8. Takes(b, A \o B \o C \o D \o F \o G, End)
  BY <1>4, <1>5, TakesThen
<1>9. Takes(b, A \o B \o C \o D \o F \o G \o values, End)
  BY <1>6, <1>8, TakesThen
<1>10. Takes(b, A \o B \o C \o D \o F \o G \o values \o H, End)
  BY <1>7, <1>9, TakesThen
<1>11. example = A \o B \o C \o D \o F \o G \o values \o H
  BY <1>1 DEF CounterExample, ExampleLine, A, B, C, D, F, G, H
<1> QED BY <1>10, <1>11 DEF b

--------------------------------------------------------------------------------
(* The texts of all outcomes.                                              *)

(* Only one line names the success.                                        *)
Others == {line \in TextLines : "seems to be correct" \notin line.has}

(* A line without the words of success is another line.                    *)
LEMMA OtherLine ==
  ASSUME NEW starts, NEW of, NEW has, Printed(starts, of, has) \in TextLines,
         "seems to be correct" \notin has
  PROVE  Printed(starts, of, has) \in Others
<1>1. Printed(starts, of, has).has = has
  BY DEF Printed
<1> QED BY <1>1 DEF Others

(* So is a heading ...                                                     *)
LEMMA MarkIsOther ==
  ASSUME NEW starts, Mark(starts) \in TextLines
  PROVE  Mark(starts) \in Others
<1>1. Mark(starts) = Printed(starts, "none", {}) /\ "seems to be correct" \notin {}
  BY DEF Mark
<1> QED BY <1>1, OtherLine

(* ... a line of the state of a program ...                                *)
LEMMA StatesAreOthers ==
  ASSUME NEW c \in {"source", "target"}
  PROVE  StateLines(StateOf(c), MemoryOf(c)) \subseteq Others
<1> DEFINE of == StateOf(c)
           heading == MemoryOf(c)
<1>1. heading # "seems to be correct"
  BY DEF MemoryOf
<1>2. StateLines(of, heading) \subseteq TextLines
  BY StateOfFits
<1> HIDE DEF of, heading
<1>3. Printed("", of, {"Function @", "returned"}) \in Others
  <2>1. "seems to be correct" \notin {"Function @", "returned"}
    OBVIOUS
  <2> QED BY <1>2, <2>1, OtherLine DEF StateLines
<1>4. Printed("  >>", of, {"Jump to"}) \in Others
  <2>1. "seems to be correct" \notin {"Jump to"}
    OBVIOUS
  <2> QED BY <1>2, <2>1, OtherLine DEF StateLines
<1>5. Printed("", of, {"Function @", "triggered UB"}) \in Others
  <2>1. "seems to be correct" \notin {"Function @", "triggered UB"}
    OBVIOUS
  <2> QED BY <1>2, <2>1, OtherLine DEF StateLines
<1>6. Printed(heading, of, {heading}) \in Others
  <2>1. "seems to be correct" \notin {heading}
    BY <1>1
  <2> QED BY <1>2, <2>1, OtherLine DEF StateLines
<1>7. Printed("", of, {"alive", "align", "address"}) \in Others
  <2>1. "seems to be correct" \notin {"alive", "align", "address"}
    OBVIOUS
  <2> QED BY <1>2, <2>1, OtherLine DEF StateLines
<1> QED BY <1>3, <1>4, <1>5, <1>6, <1>7 DEF StateLines, of, heading

(* ... and each of the other lines by themselves.                          *)
LEMMA LinesAreOthers ==
  /\ {GlobalLine, CppLine, RustLine, WarningLine, ExampleLine} \subseteq Others
  /\ ValueLines \subseteq Others /\ ReasonLines \subseteq Others
  /\ {Ill, Unknown, Unproved, Timeout} \subseteq Others
  /\ Printed("", "message", {}) \in Others
<1> DEFINE Silent(has) == "seems to be correct" \notin has
<1>1. /\ Silent({"@name", "= constant", "align"}) /\ Silent({"define", "i32", "noundef"})
      /\ Silent({"Source function is always UB"}) /\ Silent({"i32"}) /\ Silent({"poison"})
      /\ Silent({"non-local", "block_id", "offset"}) /\ Silent({"ERROR:", "type check"})
      /\ Silent({"ERROR:"}) /\ Silent({"ERROR:", "Timeout"}) /\ Silent({})
      /\ Silent({"ERROR:", "defined"}) /\ Silent({"ERROR:", "undefined"})
  OBVIOUS
<1>2. \A has : Silent(has) =>
        \A starts, of : Printed(starts, of, has) \in TextLines => Printed(starts, of, has) \in Others
  BY OtherLine
<1> HIDE DEF Silent
<1>3. GlobalLine \in Others
  BY <1>1, <1>2 DEF GlobalLine, TextLines
<1>4. CppLine \in Others
  BY <1>1, <1>2 DEF CppLine, TextLines
<1>5. RustLine \in Others
  BY <1>1, <1>2 DEF RustLine, TextLines
<1>6. WarningLine \in Others
  BY <1>1, <1>2 DEF WarningLine, TextLines
<1>7. ExampleLine \in Others
  BY <1>1, <1>2 DEF ExampleLine, TextLines
<1>8. ValueLines \subseteq Others
  <2>1. ValueLines \subseteq TextLines
    BY DEF TextLines
  <2> QED BY <1>1, <1>2, <2>1 DEF ValueLines
<1>9. ReasonLines \subseteq Others
  <2> SUFFICES ASSUME NEW why \in Refuted PROVE Printed("ERROR:", "reason", why) \in Others
    BY DEF ReasonLines
  <2>1. Printed("ERROR:", "reason", why) \in TextLines
    BY DEF ReasonLines, TextLines
  <2>2. Silent(why)
    BY <1>1 DEF Refuted
  <2> QED BY <1>2, <2>1, <2>2
<1>10. Ill \in Others
  BY <1>1, <1>2 DEF Ill, TextLines
<1>11. Unknown \in Others
  BY <1>1, <1>2 DEF Unknown, TextLines
<1>12. Unproved \in Others
  BY <1>1, <1>2 DEF Unproved, TextLines
<1>13. Timeout \in Others
  BY <1>1, <1>2 DEF Timeout, TextLines
<1>14. Printed("", "message", {}) \in Others
  BY <1>1, <1>2 DEF TextLines
<1> QED BY <1>3, <1>4, <1>5, <1>6, <1>7, <1>8, <1>9, <1>10, <1>11, <1>12, <1>13, <1>14

(* Few lines of a set are a sequence over it.                              *)
LEMMA FewLines ==
  ASSUME NEW S, NEW a \in S, NEW b \in S, NEW c \in S, NEW d \in S, NEW e \in S,
         NEW f \in S
  PROVE  /\ <<a>> \in Seq(S) /\ <<a, b>> \in Seq(S) /\ <<a, b, c>> \in Seq(S)
         /\ <<a, b, c, d>> \in Seq(S) /\ <<a, b, c, d, e, f>> \in Seq(S)
OBVIOUS

(* The headings there are.                                                 *)
LEMMA MarksHere ==
  {Blank, Mark("----"), Mark("=>"), Mark("****"), Mark("Example:"), Mark("Source:"),
   Mark("Target:"), Incorrect} \subseteq Others
<1>1. Mark("") \in TextLines /\ Blank = Mark("")
  BY BlankLine DEF Blank
<1>2. \A starts \in {"", "----", "=>", "****", "Example:", "Source:", "Target:",
                      "Transformation"} : Mark(starts) \in Others
  BY <1>1, MarkLines, MarkIsOther
<1>3. Incorrect = Mark("Transformation")
  BY MarkLines
<1> QED BY <1>1, <1>2, <1>3

(* The programs do not speak of success ...                                *)
LEMMA ProgramsAreOthers ==
  ASSUME NEW warned \in BOOLEAN
  PROVE  /\ Transform \in Seq(Others)
         /\ Transform \o Choose(warned, Warning) \in Seq(Others)
<1>1. Transform \in Seq(Others)
  <2>1. Transform = <<Blank, Mark("----"), GlobalLine, CppLine, Mark("=>"), RustLine>>
    BY DEF Transform, GlobalLine, CppLine, RustLine
  <2> QED BY <2>1, MarksHere, LinesAreOthers, FewLines
<1>2. Choose(warned, Warning) \in Seq(Others)
  <2>1. Warning = <<Blank, Mark("****"), WarningLine, Mark("****"), Blank, Blank>>
    BY DEF Warning, WarningLine
  <2>2. Warning \in Seq(Others)
    BY <2>1, MarksHere, LinesAreOthers, FewLines
  <2> QED BY <2>2 DEF Choose
<1> QED BY <1>1, <1>2, ConcatProperties

(* ... nor does the state of one ...                                       *)
LEMMA ProgramStateIsOthers ==
  ASSUME NEW c \in {"source", "target"}, NEW steps \in BOOLEAN, NEW memory \in BOOLEAN
  PROVE  ProgramState(StateOf(c), MemoryOf(c), steps, memory) \in Seq(Others)
<1> DEFINE of == StateOf(c)
           heading == MemoryOf(c)
<1>1. StateLines(of, heading) \subseteq Others
  BY StatesAreOthers
<1> HIDE DEF of, heading
<1>2. Steps(of) \in Seq(Others)
  <2>1. {Printed("", of, {"Function @", "returned"}), Printed("  >>", of, {"Jump to"}),
         Printed("", of, {"Function @", "triggered UB"})} \subseteq Others
    BY <1>1 DEF StateLines
  <2> QED BY <2>1, FewLines DEF Steps
<1>3. Memory(of, heading) \in Seq(Others)
  <2>1. {Printed(heading, of, {heading}), Printed("", of, {"alive", "align", "address"})}
          \subseteq Others
    BY <1>1 DEF StateLines
  <2> QED BY <2>1, MarksHere, FewLines DEF Memory
<1>4. Choose(steps, Steps(of)) \in Seq(Others) /\ Choose(memory, Memory(of, heading)) \in Seq(Others)
  BY <1>2, <1>3 DEF Choose
<1>5. ProgramState(of, heading, steps, memory)
        = Choose(steps, Steps(of)) \o Choose(memory, Memory(of, heading))
  BY DEF ProgramState, Steps, Memory
<1> QED BY <1>4, <1>5, ConcatProperties DEF of, heading

(* ... nor a counterexample.                                               *)
LEMMA ExampleIsOthers ==
  ASSUME NEW example \in CounterExamples
  PROVE  example \in Seq(Others)
<1>1. PICK why \in Refuted, inputs \in BOOLEAN, steps \in BOOLEAN, memory \in BOOLEAN,
           values \in Values :
        example = CounterExample(why, inputs, steps, memory, values)
  BY DEF CounterExamples
<1> DEFINE A == <<Printed("ERROR:", "reason", why), Blank, Mark("Example:")>>
           B == Choose(inputs, <<ExampleLine>>)
           C == <<Blank, Mark("Source:")>>
           D == ProgramState("cppState", "SOURCE MEMORY STATE", steps, memory)
           F == <<Blank, Mark("Target:")>>
           G == ProgramState("rustState", "TARGET MEMORY STATE", steps, memory)
           H == <<Blank, Blank>>
<1>2. A \in Seq(Others)
  <2>1. Printed("ERROR:", "reason", why) \in Others
    BY LinesAreOthers DEF ReasonLines
  <2> QED BY <2>1, MarksHere
<1>3. B \in Seq(Others)
  <2>1. ExampleLine \in Others
    BY LinesAreOthers
  <2>2. <<ExampleLine>> \in Seq(Others)
    BY <2>1, FewLines
  <2> QED BY <2>2 DEF Choose
<1>4. C \in Seq(Others) /\ F \in Seq(Others) /\ H \in Seq(Others)
  BY MarksHere
<1>5. D \in Seq(Others)
  <2>1. StateOf("source") = "cppState" /\ MemoryOf("source") = "SOURCE MEMORY STATE"
    BY DEF StateOf, MemoryOf
  <2>2. ProgramState(StateOf("source"), MemoryOf("source"), steps, memory) \in Seq(Others)
    BY ProgramStateIsOthers
  <2> QED BY <2>1, <2>2
<1>6. G \in Seq(Others)
  <2>1. StateOf("target") = "rustState" /\ MemoryOf("target") = "TARGET MEMORY STATE"
    BY DEF StateOf, MemoryOf
  <2>2. ProgramState(StateOf("target"), MemoryOf("target"), steps, memory) \in Seq(Others)
    BY ProgramStateIsOthers
  <2> QED BY <2>1, <2>2
<1>7. values \in Seq(Others)
  <2> DEFINE poison == Printed("", "values", {"poison"})
             differ == Printed("", "values", {"non-local", "block_id", "offset"})
  <2>1. {Blank, poison, differ} \subseteq Others
    BY MarksHere, LinesAreOthers DEF ValueLines
  <2>2. values \in {<<Blank>>, <<poison>>, <<Blank, differ>>}
    BY DEF Values
  <2> HIDE DEF poison, differ
  <2> QED BY <2>1, <2>2, FewLines
<1>8. example = A \o B \o C \o D \o F \o G \o values \o H
  BY <1>1 DEF CounterExample, ExampleLine
<1> HIDE DEF A, B, C, D, F, G, H
<1>9. A \o B \in Seq(Others)
  BY <1>2, <1>3, ConcatProperties
<1>10. A \o B \o C \in Seq(Others)
  BY <1>4, <1>9, ConcatProperties
<1>11. A \o B \o C \o D \in Seq(Others)
  BY <1>5, <1>10, ConcatProperties
<1>12. A \o B \o C \o D \o F \in Seq(Others)
  BY <1>4, <1>11, ConcatProperties
<1>13. A \o B \o C \o D \o F \o G \in Seq(Others)
  BY <1>6, <1>12, ConcatProperties
<1>14. A \o B \o C \o D \o F \o G \o values \in Seq(Others)
  BY <1>7, <1>13, ConcatProperties
<1>15. A \o B \o C \o D \o F \o G \o values \o H \in Seq(Others)
  BY <1>4, <1>14, ConcatProperties
<1> QED BY <1>8, <1>15

(* Other lines are not taken for a success.                                *)
LEMMA NoSuccess ==
  ASSUME NEW lines \in Seq(Others)
  PROVE  ~IsSuccess(lines)
<1>1. \A k \in DOMAIN lines : lines[k] \in Others
  OBVIOUS
<1> QED BY <1>1 DEF IsSuccess, Others

--------------------------------------------------------------------------------
(* Every text told.                                                        *)

Begin == Place("main", FALSE, Sections, {})

(* The text leaves every part where it belongs, and a text of a success    *)
(* leaves the sections of a counterexample empty.                          *)
Fitting(lines) ==
  /\ lines \in Seq(TextLines)
  /\ \E c \in Sections, e \in SUBSET Sections, i \in SUBSET Sections :
       /\ Takes(Begin, lines, Place(c, FALSE, e, i))
       /\ IsSuccess(lines) => Counterexample \subseteq e

(* Lines that take the loop to a place, without the words of success.      *)
LEMMA Fitted ==
  ASSUME NEW lines \in Seq(Others), NEW c \in Sections, NEW e \in SUBSET Sections,
         NEW i \in SUBSET Sections, Takes(Begin, lines, Place(c, FALSE, e, i))
  PROVE  Fitting(lines) /\ ~IsSuccess(lines)
<1>1. lines \in Seq(TextLines)
  BY DEF Takes
<1> QED BY <1>1, NoSuccess DEF Fitting

(* What is there before the verdict.                                       *)
LEMMA ProgramsTake ==
  ASSUME NEW warned \in BOOLEAN
  PROVE  /\ Takes(Begin, Transform \o Choose(warned, Warning), Compared)
         /\ Takes(Begin, Transform, Place("alive2_target", FALSE, Unwarned, {"alive2_target"}))
         /\ Transform \in Seq(Others) /\ Transform \o Choose(warned, Warning) \in Seq(Others)
BY TakesPrograms, TakesTransform, ProgramsAreOthers DEF Begin

(* The line of the verdict ends the programs.                              *)
LEMMA TakesIncorrect ==
  ASSUME NEW line \in {Incorrect, Confirmed}
  PROVE  /\ Takes(Compared, <<line>>, Place("main", FALSE, Counterexample, {}))
         /\ Takes(Place("main", FALSE, Counterexample, {}), <<Blank>>,
                  Place("main", FALSE, Counterexample, {}))
<1>1. Takes(Compared, <<line>>, Place("main", FALSE, Counterexample, {"alive2_target"}))
  BY TakesVerdict DEF Compared
<1>2. Counterexample \in SUBSET Counterexample /\ {} \in SUBSET {"alive2_target"}
  OBVIOUS
<1>3. Takes(Compared, <<line>>, Place("main", FALSE, Counterexample, {}))
  BY <1>1, <1>2, TakesLess
<1>4. /\ "main" \in Sections /\ Counterexample \in SUBSET Sections
      /\ {} \in SUBSET Sections /\ {} \in SUBSET {}
      /\ Counterexample \in SUBSET (Counterexample \ {"main"})
      /\ "main" \in {"main", "target"} \cup {} \cup ({"example", "source"} \cap Counterexample)
  BY SectionsAre, SomeSections
<1> QED BY <1>3, <1>4, TakesSpace

(* The text of a success.                                                  *)
LEMMA CorrectFits ==
  ASSUME NEW warned \in BOOLEAN
  PROVE  LET lines == Transform \o Choose(warned, Warning) \o Correct
         IN  Fitting(lines) /\ IsSuccess(lines)
<1> DEFINE p == Place("main", FALSE, Counterexample, {})
           P == Transform \o Choose(warned, Warning)
           lines == P \o Correct
<1>1. Correct = <<Confirmed, Blank, Blank>>
  BY DEF Correct, Confirmed
<1>2. Takes(Compared, <<Confirmed>>, p) /\ Takes(p, <<Blank>>, p)
  BY TakesIncorrect
<1>3. Takes(Begin, P, Compared)
  BY ProgramsTake
<1>4. Confirmed \in Elements(lines) /\ lines \in Seq(TextLines)
  <2>1. P \in Seq(TextLines)
    BY <1>3 DEF Takes
  <2>2. Confirmed \in TextLines /\ Blank \in TextLines
    BY BlankLine DEF TextLines
  <2> HIDE DEF P
  <2>3. Correct \in Seq(TextLines) /\ Correct[1] = Confirmed /\ 1 \in DOMAIN Correct
    BY <1>1, <2>2
  <2>4. Confirmed \in Elements(Correct)
    BY <2>3 DEF Elements
  <2> QED BY <2>1, <2>3, <2>4, ElementsConcat
<1>5. IsSuccess(lines)
  <2>1. "seems to be correct" \in Confirmed.has
    BY DEF Confirmed, Printed
  <2> HIDE DEF lines
  <2> QED BY <1>4, <2>1 DEF IsSuccess, Elements
<1>6. Takes(Begin, lines, p)
  <2> HIDE DEF p, P
  <2>1. Takes(p, <<Blank, Blank>>, p)
    BY <1>2, TakesTwo
  <2>2. Takes(Compared, Correct, p)
    BY <1>1, <1>2, <2>1, TakesThree
  <2> QED BY <1>3, <2>2, TakesThen
<1> HIDE DEF lines
<1>7. Fitting(lines)
  <2>1. "main" \in Sections /\ Counterexample \in SUBSET Sections /\ {} \in SUBSET Sections
        /\ Counterexample \subseteq Counterexample
    BY SectionsAre, SomeSections
  <2> QED BY <1>4, <1>6, <2>1 DEF Fitting
<1> QED BY <1>5, <1>7 DEF lines

(* The text of a refuted translation.                                      *)
LEMMA UnsoundFits ==
  ASSUME NEW warned \in BOOLEAN, NEW example \in CounterExamples
  PROVE  LET lines == Transform \o Choose(warned, Warning) \o <<Incorrect, Blank>> \o example
         IN  Fitting(lines) /\ ~IsSuccess(lines)
<1> DEFINE p == Place("main", FALSE, Counterexample, {})
           P == Transform \o Choose(warned, Warning)
           I == <<Incorrect, Blank>>
<1>1. Takes(Begin, P, Compared) /\ P \in Seq(Others)
  BY ProgramsTake
<1>2. Takes(Compared, <<Incorrect>>, p) /\ Takes(p, <<Blank>>, p)
  BY TakesIncorrect
<1>3. Takes(p, example, End) /\ example \in Seq(Others)
  BY TakesCounterExample, ExampleIsOthers
<1>4. I \in Seq(Others)
  BY MarksHere, FewLines
<1> HIDE DEF p, P
<1>5. Takes(Compared, I, p)
  BY <1>2, TakesTwo
<1> HIDE DEF I
<1>6. Takes(Begin, P \o I, p) /\ P \o I \in Seq(Others)
  BY <1>1, <1>4, <1>5, TakesThen, ConcatProperties
<1>7. Takes(Begin, P \o I \o example, End) /\ P \o I \o example \in Seq(Others)
  BY <1>3, <1>6, TakesThen, ConcatProperties
<1>8. "target" \in Sections /\ {} \in SUBSET Sections
  BY SectionsAre
<1>9. Fitting(P \o I \o example) /\ ~IsSuccess(P \o I \o example)
  BY <1>7, <1>8, Fitted DEF End
<1> QED BY <1>9 DEF P, I

(* The text of a translation that could not be type checked.               *)
LEMMA IllFits ==
  ASSUME NEW warned \in BOOLEAN
  PROVE  LET lines == Transform \o Choose(warned, Warning) \o <<Incorrect, Ill, Blank, Blank>>
         IN  Fitting(lines) /\ ~IsSuccess(lines)
<1> DEFINE p == Place("main", FALSE, Counterexample, {})
           P == Transform \o Choose(warned, Warning)
           I == <<Incorrect, Ill, Blank, Blank>>
<1>1. Takes(Begin, P, Compared) /\ P \in Seq(Others)
  BY ProgramsTake
<1>2. Takes(Compared, <<Incorrect>>, p)
  BY TakesIncorrect
<1>3. Takes(p, <<Ill>>, Reasoned) /\ Takes(Reasoned, <<Blank>>, Reasoned)
  BY TakesReason
<1>4. I \in Seq(Others)
  BY MarksHere, LinesAreOthers, FewLines
<1> HIDE DEF p, P
<1>5. Takes(Compared, I, Reasoned)
  <2>1. Takes(Compared, <<Incorrect, Ill>>, Reasoned)
    BY <1>2, <1>3, TakesTwo
  <2>2. Takes(Reasoned, <<Blank, Blank>>, Reasoned)
    BY <1>3, TakesTwo
  <2> QED BY <2>1, <2>2, TakesFour
<1> HIDE DEF I
<1>6. Takes(Begin, P \o I, Reasoned) /\ P \o I \in Seq(Others)
  BY <1>1, <1>4, <1>5, TakesThen, ConcatProperties
<1>7. "error" \in Sections /\ {"example", "source", "target"} \in SUBSET Sections
      /\ {"error"} \in SUBSET Sections
  BY SectionsAre
<1>8. Fitting(P \o I) /\ ~IsSuccess(P \o I)
  BY <1>6, <1>7, Fitted DEF Reasoned
<1> QED BY <1>8 DEF P, I

(* The text of one that could not be translated.                           *)
LEMMA UnknownFits == Fitting(<<Unknown, Blank>>) /\ ~IsSuccess(<<Unknown, Blank>>)
<1> DEFINE lines == <<Unknown, Blank>>
<1>1. Takes(Begin, <<Unknown>>, Reasoned)
  <2>1. Takes(Begin, <<Unknown>>,
              Place("error", FALSE, Sections \ {"error"}, {} \cup {"error"}))
    BY TakesError, SectionsAre DEF Begin
  <2> DEFINE E3 == {"example", "source", "target"}
  <2>2. E3 \in SUBSET (Sections \ {"error"}) /\ {"error"} \in SUBSET ({} \cup {"error"})
    BY SectionsAre
  <2> HIDE DEF E3
  <2>3. Takes(Begin, <<Unknown>>, Place("error", FALSE, E3, {"error"}))
    BY <2>1, <2>2, TakesLess
  <2> QED BY <2>3 DEF Reasoned, E3
<1>2. Takes(Begin, lines, Reasoned)
  BY <1>1, TakesReason, TakesTwo
<1>3. lines \in Seq(Others)
  <2>1. Unknown \in Others /\ Blank \in Others
    BY MarksHere, LinesAreOthers
  <2> QED BY <2>1, FewLines
<1>4. "error" \in Sections /\ {"example", "source", "target"} \in SUBSET Sections
      /\ {"error"} \in SUBSET Sections
  BY SectionsAre
<1> HIDE DEF lines
<1>5. Fitting(lines) /\ ~IsSuccess(lines)
  BY <1>2, <1>3, <1>4, Fitted DEF Reasoned
<1> QED BY <1>5 DEF lines

(* The text of a verifier that threw, before the programs or after.        *)
LEMMA ThrownFits ==
  /\ Fitting(<<Blank>>) /\ ~IsSuccess(<<Blank>>)
  /\ Fitting(Transform) /\ ~IsSuccess(Transform)
<1>1. Fitting(<<Blank>>) /\ ~IsSuccess(<<Blank>>)
  <2> DEFINE lines == <<Blank>>
  <2>1. Takes(Begin, lines, Place("main", FALSE, Unwarned, {}))
    BY SomeSections, SectionsAre, TakesSpace DEF Begin
  <2>2. Blank \in Others
    BY MarksHere
  <2>3. lines \in Seq(Others)
    BY <2>2, FewLines
  <2>4. "main" \in Sections /\ Unwarned \in SUBSET Sections /\ {} \in SUBSET Sections
    BY SectionsAre, SomeSections
  <2> HIDE DEF lines
  <2>5. Fitting(lines) /\ ~IsSuccess(lines)
    BY <2>1, <2>3, <2>4, Fitted
  <2> QED BY <2>5 DEF lines
<1>2. Fitting(Transform) /\ ~IsSuccess(Transform)
  <2>1. "alive2_target" \in Sections /\ Unwarned \in SUBSET Sections
        /\ {"alive2_target"} \in SUBSET Sections
    BY SectionsAre, SomeSections
  <2>2. TRUE \in BOOLEAN
    OBVIOUS
  <2> QED BY <2>1, <2>2, ProgramsTake, Fitted
<1> QED BY <1>1, <1>2

(* A message alone.                                                        *)
LEMMA MessageFits == Fitting(Message) /\ ~IsSuccess(Message)
<1> DEFINE line == Printed("", "message", {})
<1>1. line \in Others /\ line.of = "message" /\ line.starts = ""
  BY LinesAreOthers DEF Printed
<1>2. Message = <<line>>
  BY DEF Message
<1> HIDE DEF line
<1>3. /\ line \in TextLines /\ line.of # "none" /\ line.starts \notin Separators
      /\ line.starts \notin Special /\ Belongs[line.of] = {"main"} \ {"main"}
  BY <1>1, BelongsIs DEF Others, Separators, Special
<1>4. /\ "main" \in Sections /\ Unwarned \in SUBSET Sections /\ {} \in SUBSET Sections
      /\ Unwarned \in SUBSET (Sections \ {"main"}) /\ {} \in SUBSET ({} \cup {"main"})
      /\ Sections \in SUBSET Sections
  BY SectionsAre, SomeSections
<1>5. Takes(Begin, <<line>>, Place("main", FALSE, Unwarned, {}))
  BY <1>3, <1>4, TakesPlain DEF Begin
<1>6. <<line>> \in Seq(Others)
  BY <1>1, FewLines
<1> QED BY <1>2, <1>4, <1>5, <1>6, Fitted

(* A verification that stopped, with or without the time being up.         *)
LEMMA StoppedFits ==
  ASSUME NEW warned \in BOOLEAN, NEW why \in {<<Timeout>>, <<Unproved>>, <<Unproved, Timeout>>}
  PROVE  LET lines == Transform \o Choose(warned, Warning) \o why \o <<Blank, Blank>>
         IN  Fitting(lines) /\ ~IsSuccess(lines)
<1> DEFINE E3 == {"example", "source", "target"}
           J == {"alive2_target"}
           q == Place("alive2_target", FALSE, E3, J)
           P == Transform \o Choose(warned, Warning)
           H == <<Blank, Blank>>
<1>1. Takes(Begin, P, Compared) /\ P \in Seq(Others)
  BY ProgramsTake
<1>2. /\ "alive2_target" \in Sections /\ E3 \in SUBSET Sections /\ J \in SUBSET Sections
      /\ E3 \in SUBSET (E3 \ {"alive2_target"}) /\ J \in SUBSET J
      /\ E3 \in SUBSET (Counterexample \ {"error"}) /\ J \in SUBSET (J \cup {"error"})
      /\ Counterexample \in SUBSET Sections /\ E3 \in SUBSET Counterexample
      /\ Counterexample \in SUBSET (Counterexample \ {"alive2_target"})
      /\ J \in SUBSET (J \cup {"alive2_target"})
      /\ "alive2_target" \in {"main", "target"} \cup J \cup ({"example", "source"} \cap E3)
  BY SectionsAre DEF Counterexample
<1>3. Compared = Place("alive2_target", FALSE, Counterexample, J)
  BY DEF Compared
<1> HIDE DEF E3, J, P
<1>4. Takes(q, <<Blank>>, q)
  BY <1>2, TakesSpace
<1>5. Takes(Compared, <<Timeout>>, q)
  <2>1. Takes(Compared, <<Timeout>>,
              Place("alive2_target", FALSE, Counterexample \ {"error"}, J \cup {"error"}))
    BY <1>2, <1>3, TakesTimeout
  <2> DEFINE F == Counterexample \ {"error"}
             K == J \cup {"error"}
  <2>2. E3 \in SUBSET F /\ J \in SUBSET K
    BY <1>2
  <2>3. Takes(Compared, <<Timeout>>, Place("alive2_target", FALSE, F, K))
    BY <2>1
  <2> HIDE DEF F, K
  <2> QED BY <2>2, <2>3, TakesLess
<1>6. Takes(Compared, <<Unproved>>, Compared)
  <2>1. Unproved.of = "unproved" /\ Unproved.starts = "ERROR:" /\ Unproved \in TextLines
    BY DEF Unproved, Printed, TextLines
  <2>2. /\ Unproved.starts \notin Separators /\ Unproved.of # "none"
        /\ Belongs[Unproved.of] = {"alive2_target"} \ {"main"}
    BY <2>1, BelongsIs DEF Separators
  <2> QED BY <1>2, <1>3, <2>1, <2>2, TakesPlain
<1>7. Takes(Compared, <<Unproved>>, q)
  BY <1>2, <1>3, <1>6, TakesLess
<1> HIDE DEF q
<1>8. Takes(Compared, why, q)
  <2>1. Takes(Compared, <<Unproved, Timeout>>, q)
    BY <1>5, <1>6, TakesTwo
  <2> QED BY <1>5, <1>7, <2>1
<1>9. why \in Seq(Others)
  <2>1. Timeout \in Others /\ Unproved \in Others
    BY LinesAreOthers
  <2>2. <<Timeout>> \in Seq(Others) /\ <<Unproved>> \in Seq(Others)
        /\ <<Unproved, Timeout>> \in Seq(Others)
    BY <2>1, FewLines
  <2> QED BY <2>2
<1>10. Takes(q, H, q) /\ H \in Seq(Others)
  <2>1. Takes(q, H, q)
    BY <1>4, TakesTwo
  <2>2. Blank \in Others
    BY MarksHere
  <2> QED BY <2>1, <2>2, FewLines
<1> HIDE DEF H
<1>11. Takes(Begin, P \o why, q) /\ P \o why \in Seq(Others)
  BY <1>1, <1>8, <1>9, TakesThen, ConcatProperties
<1>12. Takes(Begin, P \o why \o H, q) /\ P \o why \o H \in Seq(Others)
  BY <1>10, <1>11, TakesThen, ConcatProperties
<1>13. Fitting(P \o why \o H) /\ ~IsSuccess(P \o why \o H)
  BY <1>2, <1>12, Fitted DEF q
<1> QED BY <1>13 DEF P, H

(* The text of every outcome fits, and names the success exactly for a     *)
(* pair that was verified.                                                 *)
LEMMA LinesFit ==
  ASSUME NEW outcome \in Outcomes, NEW lines \in Lines(outcome)
  PROVE  Fitting(lines) /\ (IsSuccess(lines) <=> Verified(outcome))
<1> DEFINE P == Transform \o Choose(outcome.alwaysUB, Warning)
<1>1. /\ outcome.alwaysUB \in BOOLEAN
      /\ outcome.status \in {"ERROR", "TYPE_CHECKER_FAILED", "SYNTACTIC_EQ", "CORRECT",
                             "UNSOUND", "FAILED_TO_PROVE", "throws"}
  BY DEF Outcomes, Statuses
<1> HIDE DEF P
<1>2. CASE outcome.status = "ERROR"
  <2>1. Lines(outcome) = {<<Unknown, Blank>>} /\ ~Verified(outcome)
    BY <1>2 DEF Lines, Verified
  <2> QED BY <2>1, UnknownFits
<1>3. CASE outcome.status = "throws"
  <2>1. Lines(outcome) = {<<Blank>>, Transform} /\ ~Verified(outcome)
    BY <1>3 DEF Lines, Verified
  <2> QED BY <2>1, ThrownFits
<1>4. CASE Verified(outcome)
  <2>1. Lines(outcome) = {P \o Correct}
    BY <1>4 DEF Lines, Verified, P
  <2> QED BY <1>1, <1>4, <2>1, CorrectFits DEF P
<1>5. CASE outcome.status = "TYPE_CHECKER_FAILED"
  <2>1. Lines(outcome) = {P \o <<Incorrect, Ill, Blank, Blank>>} /\ ~Verified(outcome)
    BY <1>5 DEF Lines, Verified, P
  <2> QED BY <1>1, <2>1, IllFits DEF P
<1>6. CASE outcome.status = "UNSOUND"
  <2>1. /\ Lines(outcome) = {P \o <<Incorrect, Blank>> \o example : example \in CounterExamples}
        /\ ~Verified(outcome)
    BY <1>6 DEF Lines, Verified, P
  <2>2. PICK example \in CounterExamples : lines = P \o <<Incorrect, Blank>> \o example
    BY <2>1
  <2> QED BY <1>1, <2>1, <2>2, UnsoundFits DEF P
<1>7. CASE outcome.status = "FAILED_TO_PROVE"
  <2>1. /\ Lines(outcome) = {P \o why \o <<Blank, Blank>> :
                               why \in {<<Timeout>>, <<Unproved>>, <<Unproved, Timeout>>}}
        /\ ~Verified(outcome)
    BY <1>7 DEF Lines, Verified, P
  <2>2. PICK why \in {<<Timeout>>, <<Unproved>>, <<Unproved, Timeout>>} :
          lines = P \o why \o <<Blank, Blank>>
    BY <2>1
  <2> QED BY <1>1, <2>1, <2>2, StoppedFits DEF P
<1> QED BY <1>1, <1>2, <1>3, <1>4, <1>5, <1>6, <1>7 DEF Verified

(* So does every text told.                                                *)
LEMMA ToldFitting ==
  ASSUME NEW lines \in Told
  PROVE  Fitting(lines)
<1>1. CASE told = "error" \/ ~parsed
  BY <1>1, MessageFits DEF Told
<1>2. CASE ~(told = "error" \/ ~parsed)
  <2>1. PICK outcome \in Outcomes : lines \in Lines(outcome)
    BY <1>2 DEF Told
  <2> QED BY <2>1, LinesFit
<1> QED BY <1>1, <1>2

--------------------------------------------------------------------------------
(* What is shown of a text that fits.                                      *)

(* The loop starts at the beginning.                                       *)
LEMMA StartFits == At(Start, Begin, {})
<1>1. Start \in States /\ Start.currentSection = "main" /\ Start.inUBWarningSection = FALSE
      /\ Start.inAlive2Section = FALSE
      /\ \A s \in Sections : Start.sections[s] = <<>>
  <2>1. Start.sections = [s \in Sections |-> <<>>]
    BY DEF Start, Sections
  <2>2. [s \in Sections |-> <<>>] \in [Sections -> Seq(TextLines)]
    BY ElementsNone
  <2> QED BY <2>1, <2>2, SectionsAre DEF Start, States
<1>2. Fits(Start.sections, {}, Sections, {})
  <2>1. Start.sections \in [Sections -> Seq(TextLines)]
    BY <1>1 DEF States
  <2>2. \A s \in DOMAIN Titles : Start.sections[s] = <<>>
    BY <1>1 DEF Sections
  <2>3. \A s \in DOMAIN Titles : Elements(Start.sections[s]) = {}
    BY <2>2, ElementsNone
  <2> QED BY <1>1, <2>1, <2>2, <2>3 DEF Fits
<1>3. Start.inAlive2Section = ("main" \in {"alive2_source", "alive2_target"})
  <2>1. "main" \notin {"alive2_source", "alive2_target"}
    OBVIOUS
  <2> QED BY <1>1, <2>1, Outside
<1> QED BY <1>1, <1>2, <1>3, AtNow DEF Begin

(* What is known of the sections at the end of a text.                     *)
LEMMA FormatFits ==
  ASSUME NEW lines, Fitting(lines)
  PROVE  \E e, i :
           /\ Fits(formatVerifierOutput(lines), Elements(lines), e, i)
           /\ IsSuccess(lines) => Counterexample \subseteq e
<1>1. PICK c \in Sections, e \in SUBSET Sections, i \in SUBSET Sections :
        /\ Takes(Begin, lines, Place(c, FALSE, e, i))
        /\ IsSuccess(lines) => Counterexample \subseteq e
  BY DEF Fitting
<1>2. PICK to : /\ Leads(Start, lines, to)
                /\ At(to, Place(c, FALSE, e, i), {} \cup Elements(lines))
  BY <1>1, StartFits DEF Takes
<1>3. formatVerifierOutput(lines) = to.sections
  BY <1>2, LeadsToFormat DEF Fitting
<1>4. Fits(to.sections, {} \cup Elements(lines), e, i)
  BY <1>2, AtPlace
<1>5. {} \cup Elements(lines) = Elements(lines)
  OBVIOUS
<1> QED BY <1>1, <1>3, <1>4, <1>5

(* What stands instead of a section with nothing in it.                    *)
NoneLine == Printed("", "none", {"(None)"})
SaidFor(s, sections) ==
  IF s \in {"example", "source", "target"} /\ sections[s] = <<Blank>>
  THEN <<NoneLine>> ELSE sections[s]

(* A section with nothing in it, and what is said instead.                 *)
LEMMA NothingSaid ==
  /\ Elements(<<Blank>>) = {Blank} /\ Elements(<<NoneLine>>) = {NoneLine}
  /\ NoneLine # Blank /\ NoneLine.of = "none" /\ Blank.of = "none"
<1>1. NoneLine.has = {"(None)"} /\ NoneLine.of = "none" /\ Blank.has = {}
  BY DEF NoneLine, Blank, Mark, Printed
<1>2. {"(None)"} # {}
  OBVIOUS
<1> QED BY <1>1, <1>2, ElementsOne, BlankLine

(* Which sections are shown, and what in them.                             *)
LEMMA OutputShows ==
  ASSUME NEW lines
  PROVE  LET shown == ValidationOutput(lines)
             sections == formatVerifierOutput(lines)
         IN  /\ DOMAIN shown = {t \in DOMAIN Titles :
                                  /\ sections[t] # <<>>
                                  /\ t \in Counterexample => ~IsSuccess(lines)}
             /\ \A s \in DOMAIN shown : shown[s] = SaidFor(s, sections)
BY DEF ValidationOutput, Counterexample, SaidFor, NoneLine

(* What a line may be of.                                                  *)
Parts == {"cpp", "rust", "warning", "reason", "example", "cppState", "rustState", "values",
          "unproved", "message", "none"}

(* Every line is of one of them.                                           *)
LEMMA OfLines == \A line \in TextLines : line.of \in Parts
<1>1. ASSUME NEW starts, NEW of \in Parts, NEW has
      PROVE  Printed(starts, of, has).of \in Parts
  BY DEF Printed
<1>2. /\ "cpp" \in Parts /\ "rust" \in Parts /\ "warning" \in Parts /\ "reason" \in Parts
      /\ "example" \in Parts /\ "cppState" \in Parts /\ "rustState" \in Parts
      /\ "values" \in Parts /\ "unproved" \in Parts /\ "message" \in Parts
      /\ "none" \in Parts
  BY DEF Parts
<1>3. \A of \in Parts : \A heading : \A line \in StateLines(of, heading) : line.of \in Parts
  BY <1>1 DEF StateLines
<1>4. \A line \in Marks : line.of \in Parts
  BY <1>1, <1>2 DEF Marks, Blank, Mark, Incorrect
<1>5. \A line \in ValueLines \cup ReasonLines : line.of \in Parts
  BY <1>1, <1>2 DEF ValueLines, ReasonLines
<1>6. \A line \in {Confirmed, Ill, Unknown, Unproved, Timeout, Printed("", "message", {})} :
        line.of \in Parts
  BY <1>1, <1>2 DEF Confirmed, Ill, Unknown, Unproved, Timeout
<1> QED BY <1>1, <1>2, <1>3, <1>4, <1>5, <1>6 DEF TextLines

(* So every part is under its heading, and no section but one is blank.    *)
LEMMA PartsFit ==
  ASSUME NEW lines, Fitting(lines)
  PROVE  LET shown == ValidationOutput(lines)
         IN  /\ \A line \in Elements(lines) : line.of # "none" =>
                  {s \in DOMAIN shown : line \in Elements(shown[s])} = Belongs[line.of]
             /\ \A s \in DOMAIN shown : Elements(shown[s]) = {Blank} => s = "target"
<1> DEFINE shown == ValidationOutput(lines)
           sections == formatVerifierOutput(lines)
<1>1. PICK e, i : /\ Fits(sections, Elements(lines), e, i)
                  /\ IsSuccess(lines) => Counterexample \subseteq e
  BY FormatFits
<1>2. /\ DOMAIN shown = {t \in DOMAIN Titles :
                            /\ sections[t] # <<>>
                            /\ t \in Counterexample => ~IsSuccess(lines)}
      /\ \A s \in DOMAIN shown : shown[s] = SaidFor(s, sections)
  BY OutputShows
<1>3. lines \in Seq(TextLines) /\ Elements(lines) \subseteq TextLines
  BY DEF Fitting, Elements
<1> HIDE DEF shown, sections
(* Only a blank section is replaced.                                       *)
<1>4. ASSUME NEW s \in DOMAIN shown
      PROVE  \/ shown[s] = sections[s]
             \/ sections[s] = <<Blank>> /\ shown[s] = <<NoneLine>>
                /\ s \in {"example", "source", "target"}
  BY <1>2 DEF SaidFor
<1>5. ASSUME NEW line \in Elements(lines), line.of # "none", NEW s \in DOMAIN shown,
             line \in Elements(shown[s])
      PROVE  s \in Belongs[line.of]
  <2>1. line \in Elements(sections[s])
    BY <1>4, <1>5, NothingSaid
  <2> QED BY <1>1, <1>2, <1>5, <2>1 DEF Fits
<1>6. ASSUME NEW line \in Elements(lines), line.of # "none", NEW s \in Belongs[line.of]
      PROVE  s \in DOMAIN shown /\ line \in Elements(shown[s])
  <2>1. s \in Sections /\ line \in Elements(sections[s])
    BY <1>1, <1>6 DEF Fits
  <2>2. sections[s] # <<>>
    BY <2>1, ElementsNone
  <2>3. s # "main"
    <3>1. line.of \in Parts
      BY <1>3, OfLines
    <3> QED BY <1>6, <3>1, BelongsIs DEF Parts
  <2>4. s \in DOMAIN Titles
    BY <2>1, <2>3 DEF Sections
  <2>5. s \in Counterexample => ~IsSuccess(lines)
    BY <1>1, <2>2 DEF Fits
  <2>6. s \in DOMAIN shown
    BY <1>2, <2>2, <2>4, <2>5
  <2> QED BY <1>4, <1>6, <2>1, <2>6, NothingSaid
<1>7. ASSUME NEW s \in DOMAIN shown, Elements(shown[s]) = {Blank}
      PROVE  s = "target"
  <2>1. shown[s] = sections[s]
    BY <1>4, <1>7, NothingSaid
  <2>2. ~Inked(sections[s])
    BY <1>7, <2>1 DEF Inked
  <2>3. s \in DOMAIN Titles /\ sections[s] # <<>>
    BY <1>2
  <2>4. sections[s] = <<Blank>> => s \notin {"example", "source"}
    <3> SUFFICES ASSUME sections[s] = <<Blank>>, s \in {"example", "source"} PROVE FALSE
      OBVIOUS
    <3>1. shown[s] = <<NoneLine>>
      BY <1>2 DEF SaidFor
    <3> QED BY <1>7, <3>1, NothingSaid
  <2> QED BY <1>1, <2>2, <2>3, <2>4 DEF Fits
<1>8. \A line \in Elements(lines) : line.of # "none" =>
        {s \in DOMAIN shown : line \in Elements(shown[s])} = Belongs[line.of]
  BY <1>5, <1>6
<1> QED BY <1>7, <1>8 DEF shown

--------------------------------------------------------------------------------
(* What is shown of a line.                                                *)

Faithful(line) ==
  LET shown == Line(line)
  IN  /\ line.has \ shown.kept
           \subseteq {"ERROR:", "Timeout", "returned", "= constant", "align"}
      /\ "align" \in line.has \ shown.kept => line.starts = "@name"
      /\ \A term \in technicalTerms \cap shown.kept :
           <<term, term>> \in shown.explained \/ term \in {"address", "non-local"}
      /\ \A term \in shown.explained :
           term[1] # term[2] => term[1] \in {"undefined", "non-local"}

(* Of any line split into words nothing is left out.                       *)
LEMMA WordsLineFaithful ==
  ASSUME NEW line, Line(line) = WordsLine(line.has)
  PROVE  Faithful(line)
<1> DEFINE has == line.has
           explained == {<<p, Word(p)>> : p \in {q \in has : Word(q) \in SplitAt}}
<1>1. Line(line).kept = has /\ Line(line).explained = explained
  BY DEF WordsLine, Shows
<1>2. ASSUME NEW term \in technicalTerms \cap has, term \notin {"address", "non-local"}
      PROVE  <<term, term>> \in explained
  <2>1. Word(term) = term /\ term \in SplitAt
    BY <1>2 DEF Word, SplitAt
  <2> QED BY <2>1
<1>3. ASSUME NEW term \in explained, term[1] # term[2]
      PROVE  term[1] \in {"undefined", "non-local"}
  <2>1. PICK p \in has : term = <<p, Word(p)>>
    OBVIOUS
  <2> QED BY <1>3, <2>1 DEF Word
<1> HIDE DEF has, explained
<1>4. has \ Line(line).kept = {}
  BY <1>1
<1> QED BY <1>1, <1>2, <1>3, <1>4 DEF Faithful, has

(* Words that are no technical terms need no explanation.                  *)
LEMMA OtherLineFaithful ==
  ASSUME NEW line, NEW kept, NEW explained, Line(line) = Shows(kept, explained),
         kept \cap technicalTerms = {},
         line.has \ kept \subseteq {"ERROR:", "Timeout", "returned", "= constant", "align"},
         "align" \in line.has \ kept => line.starts = "@name",
         \A term \in explained : term[1] # term[2] => term[1] \in {"undefined", "non-local"}
  PROVE  Faithful(line)
<1>1. Shows(kept, explained).kept = kept /\ Shows(kept, explained).explained = explained
  BY DEF Shows
<1> QED BY <1>1 DEF Faithful

(* Taken for what they are.                                                *)
LEMMA SameTerms ==
  ASSUME NEW S, NEW T, \A term \in T : \E p \in S : term = <<p, p>>
  PROVE  \A term \in T : term[1] = term[2]
<1> SUFFICES ASSUME NEW term \in T PROVE term[1] = term[2]
  OBVIOUS
<1>1. PICK p \in S : term = <<p, p>>
  OBVIOUS
<1> QED BY <1>1

(* The line of a function, or of a global taken for one.                   *)
LEMMA FunctionLineFaithful ==
  ASSUME NEW line, Line(line) = FunctionLine(line.has),
         line.has \ {"Function @", "@name", "triggered UB"}
           \subseteq {"returned", "= constant", "align"},
         "align" \in line.has => line.starts = "@name"
  PROVE  Faithful(line)
<1> DEFINE kept == line.has \cap {"Function @", "@name", "triggered UB"}
           explained == {<<p, p>> : p \in kept}
<1>1. Line(line) = Shows(kept, explained)
  BY DEF FunctionLine
<1>2. kept \cap technicalTerms = {}
  BY DEF technicalTerms
<1>3. \A term \in explained : term[1] = term[2]
  <2>1. \A term \in explained : \E p \in kept : term = <<p, p>>
    OBVIOUS
  <2> HIDE DEF kept, explained
  <2> QED BY <2>1, SameTerms
<1>4. line.has \ kept \subseteq {"returned", "= constant", "align"}
  OBVIOUS
<1> HIDE DEF kept, explained
<1> QED BY <1>1, <1>2, <1>3, <1>4, OtherLineFaithful

(* The line of a reason.                                                   *)
LEMMA ErrorLineFaithful ==
  ASSUME NEW line, "ERROR:" \in line.has,
         line.has \in {{"ERROR:"}, {"ERROR:", "defined"}, {"ERROR:", "undefined"},
                       {"ERROR:", "type check"}, {"ERROR:", "Timeout"}}
  PROVE  Faithful(line)
<1>1. Line(line) = ErrorLine(line.has)
  BY DEF Line
<1> DEFINE has == line.has
<1>2. CASE "type check" \in has
  <2> DEFINE kept == {"type check"}
             explained == {<<"type check", "type check">>}
  <2>1. Line(line) = Shows(kept, explained)
    BY <1>1, <1>2 DEF ErrorLine
  <2>2. line.has \ kept \subseteq {"ERROR:"}
    BY <1>2
  <2>3. kept \cap technicalTerms = {}
    <3>1. "type check" \notin technicalTerms
      BY DEF technicalTerms
    <3> QED BY <3>1
  <2>4. \A term \in explained : term[1] = term[2]
    BY SameTerms
  <2> HIDE DEF kept, explained, has
  <2> QED BY <2>1, <2>2, <2>3, <2>4, OtherLineFaithful
<1>3. CASE "type check" \notin has /\ has \cap {"defined", "undefined"} # {}
  <2> DEFINE kept == has \ {"ERROR:"}
             explained == {<<p, "defined">> : p \in kept}
  <2>1. Line(line) = Shows(kept, explained)
    BY <1>1, <1>3 DEF ErrorLine
  <2>2. kept \subseteq {"defined", "undefined"}
    BY <1>3
  <2>3. kept \cap technicalTerms = {}
    <3>1. "defined" \notin technicalTerms /\ "undefined" \notin technicalTerms
      BY DEF technicalTerms
    <3> HIDE DEF kept
    <3> QED BY <2>2, <3>1
  <2>4. \A term \in explained : term[1] # term[2] => term[1] = "undefined"
    <3> SUFFICES ASSUME NEW term \in explained, term[1] # term[2] PROVE term[1] = "undefined"
      OBVIOUS
    <3>1. PICK p \in kept : term = <<p, "defined">>
      OBVIOUS
    <3> QED BY <2>2, <3>1
  <2>5. has \ kept \subseteq {"ERROR:"}
    OBVIOUS
  <2> HIDE DEF kept, explained
  <2> QED BY <2>1, <2>3, <2>4, <2>5, OtherLineFaithful
<1>4. CASE "type check" \notin has /\ has \cap {"defined", "undefined"} = {}
           /\ "Timeout" \in has
  <2> DEFINE kept == {"timed out"}
             explained == {<<"timed out", "timed out">>}
  <2>1. Line(line) = Shows(kept, explained)
    BY <1>1, <1>4 DEF ErrorLine
  <2>2. line.has \ kept \subseteq {"ERROR:", "Timeout"}
    BY <1>4
  <2>3. kept \cap technicalTerms = {}
    BY DEF technicalTerms
  <2>4. \A term \in explained : term[1] = term[2]
    BY SameTerms
  <2> HIDE DEF kept, explained, has
  <2> QED BY <2>1, <2>2, <2>3, <2>4, OtherLineFaithful
<1>5. CASE "type check" \notin has /\ has \cap {"defined", "undefined"} = {}
           /\ "Timeout" \notin has
  <2>1. Line(line) = Shows(has \ {"ERROR:"}, {})
    BY <1>1, <1>5 DEF ErrorLine
  <2>2. has \ {"ERROR:"} = {}
    BY <1>5
  <2> QED BY <2>1, <2>2, OtherLineFaithful
<1> QED BY <1>2, <1>3, <1>4, <1>5

(* A line of words.                                                        *)
LEMMA PlainFaithful ==
  ASSUME NEW starts, NEW of, NEW has,
         starts \notin {"SOURCE MEMORY STATE", "TARGET MEMORY STATE", "  >>"},
         "ERROR:" \notin has, has \cap {"Function @", "@name"} = {}
  PROVE  Faithful(Printed(starts, of, has))
<1> DEFINE line == Printed(starts, of, has)
<1>1. line.has = has /\ line.starts = starts
  BY DEF Printed
<1> HIDE DEF line
<1>2. Line(line) = WordsLine(line.has)
  BY <1>1 DEF Line
<1>3. Faithful(line)
  BY <1>2, WordsLineFaithful
<1> QED BY <1>3 DEF line

(* The lines of the state of a program.                                    *)
LEMMA StatesFaithful ==
  ASSUME NEW c \in {"source", "target"}, NEW line \in StateLines(StateOf(c), MemoryOf(c))
  PROVE  Faithful(line)
<1> DEFINE of == StateOf(c)
           heading == MemoryOf(c)
<1>1. heading \in {"SOURCE MEMORY STATE", "TARGET MEMORY STATE"}
  BY DEF MemoryOf
<1> HIDE DEF of, heading
<1>2. CASE line = Printed("", of, {"Function @", "returned"})
  <2>1. line.has = {"Function @", "returned"} /\ line.starts = ""
    BY <1>2 DEF Printed
  <2>2. Line(line) = FunctionLine(line.has)
    BY <2>1 DEF Line
  <2> QED BY <2>1, <2>2, FunctionLineFaithful
<1>3. CASE line = Printed("", of, {"Function @", "triggered UB"})
  <2>1. line.has = {"Function @", "triggered UB"} /\ line.starts = ""
    BY <1>3 DEF Printed
  <2>2. Line(line) = FunctionLine(line.has)
    BY <2>1 DEF Line
  <2> QED BY <2>1, <2>2, FunctionLineFaithful
<1>4. CASE line = Printed("  >>", of, {"Jump to"})
  <2>1. line.has = {"Jump to"} /\ line.starts = "  >>"
    BY <1>4 DEF Printed
  <2>2. Line(line) = Shows({"Jump to"}, {<<"Jump to", "Jump to">>})
    BY <2>1 DEF Line
  <2>3. {"Jump to"} \cap technicalTerms = {}
    BY DEF technicalTerms
  <2>4. line.has \ {"Jump to"} = {}
    BY <2>1
  <2>5. \A term \in {<<"Jump to", "Jump to">>} : term[1] = term[2]
    BY SameTerms
  <2> QED BY <2>2, <2>3, <2>4, <2>5, OtherLineFaithful
<1>5. CASE line = Printed(heading, of, {heading})
  <2>1. line.has = {heading} /\ line.starts = heading
    BY <1>5 DEF Printed
  <2>2. Line(line) = Shows(line.has, {})
    BY <1>1, <2>1 DEF Line
  <2>3. {heading} \cap technicalTerms = {}
    BY <1>1 DEF technicalTerms
  <2>4. line.has \ {heading} = {}
    BY <2>1
  <2> QED BY <2>1, <2>2, <2>3, <2>4, OtherLineFaithful
<1>6. CASE line = Printed("", of, {"alive", "align", "address"})
  <2>1. "ERROR:" \notin {"alive", "align", "address"}
        /\ {"alive", "align", "address"} \cap {"Function @", "@name"} = {}
    OBVIOUS
  <2> QED BY <1>6, <2>1, PlainFaithful
<1> QED BY <1>2, <1>3, <1>4, <1>5, <1>6 DEF StateLines, of, heading

(* All lines.                                                              *)
LEMMA LinesFaithful == \A line \in TextLines : Faithful(line)
<1> DEFINE Plain(has) == "ERROR:" \notin has /\ has \cap {"Function @", "@name"} = {}
<1>1. /\ Plain({"define", "i32", "noundef"}) /\ Plain({"Source function is always UB"})
      /\ Plain({"i32"}) /\ Plain({"poison"}) /\ Plain({"non-local", "block_id", "offset"})
      /\ Plain({"seems to be correct"}) /\ Plain({})
  OBVIOUS
<1>2. \A has : Plain(has) =>
        \A starts, of : starts \notin {"SOURCE MEMORY STATE", "TARGET MEMORY STATE", "  >>"} =>
          Faithful(Printed(starts, of, has))
  BY PlainFaithful
<1> HIDE DEF Plain
<1>3. \A line \in Marks : Faithful(line)
  BY <1>1, <1>2 DEF Marks, Blank, Mark, Incorrect
<1>4. Faithful(Printed("@name", "cpp", {"@name", "= constant", "align"}))
  <2> DEFINE line == Printed("@name", "cpp", {"@name", "= constant", "align"})
  <2>1. line.has = {"@name", "= constant", "align"} /\ line.starts = "@name"
    BY DEF Printed
  <2> HIDE DEF line
  <2>2. Line(line) = FunctionLine(line.has)
    BY <2>1 DEF Line
  <2>3. Faithful(line)
    BY <2>1, <2>2, FunctionLineFaithful
  <2> QED BY <2>3 DEF line
<1>5. /\ Faithful(Printed("", "cpp", {"define", "i32", "noundef"}))
      /\ Faithful(Printed("", "rust", {"define", "i32", "noundef"}))
      /\ Faithful(Printed("", "warning", {"Source function is always UB"}))
      /\ Faithful(Printed("", "example", {"i32"}))
      /\ Faithful(Confirmed) /\ Faithful(Printed("", "message", {}))
  BY <1>1, <1>2 DEF Confirmed
<1>6. \A line \in ValueLines : Faithful(line)
  BY <1>1, <1>2 DEF ValueLines
<1>7. \A line \in StateLines("cppState", "SOURCE MEMORY STATE")
                    \cup StateLines("rustState", "TARGET MEMORY STATE") : Faithful(line)
  <2>1. StateOf("source") = "cppState" /\ MemoryOf("source") = "SOURCE MEMORY STATE"
        /\ StateOf("target") = "rustState" /\ MemoryOf("target") = "TARGET MEMORY STATE"
    BY DEF StateOf, MemoryOf
  <2>2. \A line \in StateLines(StateOf("source"), MemoryOf("source")) : Faithful(line)
    BY StatesFaithful
  <2>3. \A line \in StateLines(StateOf("target"), MemoryOf("target")) : Faithful(line)
    BY StatesFaithful
  <2> QED BY <2>1, <2>2, <2>3
<1>8. \A line \in ReasonLines : Faithful(line)
  <2> SUFFICES ASSUME NEW why \in Refuted PROVE Faithful(Printed("ERROR:", "reason", why))
    BY DEF ReasonLines
  <2>1. Printed("ERROR:", "reason", why).has = why
    BY DEF Printed
  <2>2. "ERROR:" \in why /\ why \in {{"ERROR:"}, {"ERROR:", "defined"}, {"ERROR:", "undefined"}}
    BY DEF Refuted
  <2> QED BY <2>1, <2>2, ErrorLineFaithful
<1>9. \A line \in {Ill, Unknown, Unproved, Timeout} : Faithful(line)
  <2>1. /\ Ill.has = {"ERROR:", "type check"} /\ Unknown.has = {"ERROR:"}
        /\ Unproved.has = {"ERROR:"} /\ Timeout.has = {"ERROR:", "Timeout"}
    BY DEF Ill, Unknown, Unproved, Timeout, Printed
  <2>2. Faithful(Ill)
    BY <2>1, ErrorLineFaithful
  <2>3. Faithful(Unknown)
    BY <2>1, ErrorLineFaithful
  <2>4. Faithful(Unproved)
    BY <2>1, ErrorLineFaithful
  <2>5. Faithful(Timeout)
    BY <2>1, ErrorLineFaithful
  <2> QED BY <2>2, <2>3, <2>4, <2>5
<1> QED BY <1>3, <1>4, <1>5, <1>6, <1>7, <1>8, <1>9 DEF TextLines

--------------------------------------------------------------------------------
(* Every part of every text told is shown under its own heading and no     *)
(* other, and no section shown is blank but that of the Rust program's     *)
(* state (LLVMIRModal.tsx:128, 498).                                       *)
THEOREM PartsUnderHeadingsHolds == Spec => []PartsUnderHeadings
<1>1. PartsUnderHeadings
  BY ToldFitting, PartsFit DEF PartsUnderHeadings
<1> QED BY <1>1, PTL

(* The page says that there is no failure to explain exactly if the user   *)
(* is told of a success (LLVMIRModal.tsx:76, RelayServer.cpp:144).         *)
THEOREM BannerFitsHolds == Spec => []BannerFits
<1>1. Inv => BannerFits
  <2> SUFFICES ASSUME Inv, request = "told", NEW lines \in Told
               PROVE  IsSuccess(lines) <=> told = "success"
    BY DEF BannerFits
  <2>1. told # "nothing"
    BY DEF Inv, RequestFits, Judgement
  <2>2. \/ ~parsed /\ told = "failure"
        \/ parsed /\ told = "error"
        \/ /\ parsed
           /\ \E outcome \in Outcomes :
                /\ FoundOut("forward", compared, outcome)
                /\ told = IF Verified(outcome) THEN "success" ELSE "failure"
    BY <2>1, ToldFits
  <2>3. CASE told = "error" \/ ~parsed
    <3>1. lines = Message
      BY <2>3 DEF Told
    <3>2. told # "success"
      BY <2>2, <2>3
    <3> QED BY <3>1, <3>2, MessageFits
  <2>4. CASE parsed /\ told # "error"
    <3>1. PICK outcome \in Outcomes :
            /\ FoundOut("forward", compared, outcome)
            /\ told = IF Verified(outcome) THEN "success" ELSE "failure"
      BY <2>2, <2>4
    <3>2. PICK found \in Outcomes :
            FoundOut("forward", compared, found) /\ lines \in Lines(found)
      BY <2>4 DEF Told
    <3>3. found = outcome
      BY <3>1, <3>2 DEF Inv, Consistent, FoundOut
    <3>4. IsSuccess(lines) <=> Verified(outcome)
      BY <3>2, <3>3, LinesFit
    <3> QED BY <3>1, <3>4
  <2> QED BY <2>3, <2>4
<1> QED BY <1>1, AlwaysInv, PTL

(* Of a line of any text told only known words are left out, and only two  *)
(* terms are explained as others (LLVMIRModal.tsx:255, 310, 378).          *)
THEOREM LineFaithfulHolds == Spec => []LineFaithful
<1>1. LineFaithful
  <2>1. \A lines \in Told : Elements(lines) \subseteq TextLines
    <3> SUFFICES ASSUME NEW lines \in Told PROVE Elements(lines) \subseteq TextLines
      OBVIOUS
    <3>1. lines \in Seq(TextLines)
      BY ToldFitting DEF Fitting
    <3> QED BY <3>1 DEF Elements
  <2> QED BY <2>1, LinesFaithful DEF LineFaithful, Faithful
<1> QED BY <1>1, PTL
================================================================================
