----------------------------- MODULE TextProofs -----------------------------
(***************************************************************************)
(* The text of a scrape, for any metrics the readers may emit and any      *)
(* number of them in a snapshot.                                           *)
(***************************************************************************)
EXTENDS PromText, SequenceTheorems, FiniteSetTheorems, TLAPS

-----------------------------------------------------------------------------
(* The tables.                                                             *)

\* A family belongs to one rule.
LEMMA FamiliesDiffer == \A r, s \in RULES : r.family = s.family => r = s
  BY SMTT(60) DEF RULES, Rule

\* Every family has its place in the order.
LEMMA FamiliesOrdered == \A r \in RULES : \E j \in 1..Len(FamilyOrder) : FamilyOrder[j] = r.family
<1>1. Len(FamilyOrder) = 17
  BY DEF FamilyOrder
<1> QED
  BY <1>1, SMTT(60) DEF FamilyOrder, RULES, Rule

\* The labels of a rule are different, and it has one for whatever tells the metrics
\* of a reader apart.
LEMMA LabelsTell ==
  \A r \in RULES :
    /\ r.pi_label # "-" => r.pi_label # r.ti_label /\ r.pi_label # r.ds_label
    /\ r.ti_label # "-" => r.ti_label # r.ds_label
    /\ r.pi_label = "-" => r.plugin \in {"cpu", "memory", "swap", "load", "uptime", "tcpconns"}
    /\ r.ti_label = "-" => r.plugin \in {"load", "uptime", "interface", "disk", "processes"}
  BY SMTT(60) DEF RULES, Rule

\* The data sources of a type.
LEMMA Sources ==
  ASSUME NEW n \in {1, 2, 3}
  PROVE  /\ Len(Gauges(n)) = n /\ \A d \in 1..n : Gauges(n)[d] = "GAUGE"
         /\ Len(Derives(n)) = n /\ \A d \in 1..n : Derives(n)[d] = "DERIVE"
  BY DEF Gauges, Derives

\* All the data sources of a type are of one kind.
LEMMA OneKind ==
  ASSUME NEW t
  PROVE  \/ types_lookup(t) = <<>>
         \/ \E n \in {1, 2, 3} : types_lookup(t) \in {Gauges(n), Derives(n)}
  BY DEF types_lookup

\* The TYPE of a family is that of each data source.
LEMMA KindShown ==
  ASSUME NEW t, NEW d \in 1..Len(types_lookup(t))
  PROVE  prom_type_for(t) = [GAUGE |-> "gauge", DERIVE |-> "counter"][types_lookup(t)[d]]
<1>1. types_lookup(t) # <<>>
  OBVIOUS
<1>2. PICK n \in {1, 2, 3} : types_lookup(t) \in {Gauges(n), Derives(n)}
  BY <1>1, OneKind
<1>3. CASE types_lookup(t) = Gauges(n)
  <2>1. types_lookup(t)[1] = "GAUGE" /\ types_lookup(t)[d] = "GAUGE"
    BY <1>3, Sources
  <2>2. prom_type_for(t) = "gauge"
    BY <1>1, <2>1 DEF prom_type_for
  <2> QED
    BY <2>1, <2>2
<1>4. CASE types_lookup(t) = Derives(n)
  <2>1. types_lookup(t)[1] = "DERIVE" /\ types_lookup(t)[d] = "DERIVE"
    BY <1>4, Sources
  <2>2. prom_type_for(t) = "counter"
    BY <1>1, <2>1 DEF prom_type_for
  <2> QED
    BY <2>1, <2>2
<1> QED
  BY <1>2, <1>3, <1>4

\* A rule without a label for them has a type with one data source, and the others
\* have a name for each.
LEMMA SourcesTold ==
  ASSUME NEW r \in RULES
  PROVE  /\ r.ds_label = "-" => Len(types_lookup(r.type)) = 1
         /\ r.ds_label # "-" =>
              /\ Len(types_lookup(r.type)) = Len(r.ds_values)
              /\ \A c, d \in 1..Len(r.ds_values) : r.ds_values[c] = r.ds_values[d] => c = d
<1>1. r.ds_label = "-" => types_lookup(r.type) = Gauges(1)
  BY SMTT(60) DEF RULES, Rule, types_lookup
<1>2. r.ds_label # "-" =>
        \/ r.ds_values \in {Traffic, Access, <<"user", "system">>} /\ types_lookup(r.type) = Derives(2)
        \/ r.ds_values = <<"processes", "threads">> /\ types_lookup(r.type) = Gauges(2)
        \/ r.ds_values = <<"1m", "5m", "15m">> /\ types_lookup(r.type) = Gauges(3)
  BY SMTT(60) DEF RULES, Rule, types_lookup
<1>3. \A v \in {Traffic, Access, <<"user", "system">>, <<"processes", "threads">>} :
        Len(v) = 2 /\ v[1] # v[2]
  BY DEF Traffic, Access
<1>4. \A v \in {<<"1m", "5m", "15m">>} : Len(v) = 3 /\ v[1] # v[2] /\ v[1] # v[3] /\ v[2] # v[3]
  OBVIOUS
<1>5. /\ Len(Gauges(1)) = 1 /\ Len(Gauges(2)) = 2 /\ Len(Gauges(3)) = 3 /\ Len(Derives(2)) = 2
  BY Sources
<1>6. ASSUME r.ds_label # "-", Len(r.ds_values) = 2, r.ds_values[1] # r.ds_values[2]
      PROVE  \A c, d \in 1..Len(r.ds_values) : r.ds_values[c] = r.ds_values[d] => c = d
  BY <1>6
<1>7. ASSUME Len(r.ds_values) = 3, r.ds_values[1] # r.ds_values[2], r.ds_values[1] # r.ds_values[3],
             r.ds_values[2] # r.ds_values[3]
      PROVE  \A c, d \in 1..Len(r.ds_values) : r.ds_values[c] = r.ds_values[d] => c = d
  BY <1>7
<1>8. ASSUME r.ds_label # "-" PROVE Len(types_lookup(r.type)) = Len(r.ds_values)
  BY <1>2, <1>3, <1>4, <1>5, <1>8
<1>9. ASSUME r.ds_label # "-"
      PROVE  \A c, d \in 1..Len(r.ds_values) : r.ds_values[c] = r.ds_values[d] => c = d
  <2>1. CASE r.ds_values \in {Traffic, Access, <<"user", "system">>, <<"processes", "threads">>}
    BY <1>3, <1>6, <1>9, <2>1
  <2>2. CASE r.ds_values = <<"1m", "5m", "15m">>
    BY <1>4, <1>7, <2>2
  <2> QED
    BY <1>2, <1>9, <2>1, <2>2
<1> QED
  BY <1>1, <1>5, <1>8, <1>9

-----------------------------------------------------------------------------
(* Metrics and their families.                                             *)

\* The metrics that have a rule.
Shown == {m \in Emitted : find_rule(m) # {}}

\* A family's place in the order.
RankOf(f) == CHOOSE j \in 1..Len(FamilyOrder) : FamilyOrder[j] = f

\* The rule of a metric that has one.
LEMMA RuleFound ==
  ASSUME NEW m \in Shown
  PROVE  RuleOf(m) \in RULES /\ RuleOf(m).plugin = m.plugin /\ RuleOf(m).type = m.type
<1>1. RuleOf(m) \in find_rule(m)
  BY DEF RuleOf, Shown
<1> QED
  BY <1>1 DEF find_rule

\* Ranks are numbers, and different for different families.
LEMMA Ranks ==
  ASSUME NEW m \in Shown
  PROVE  /\ Rank(m) = RankOf(Family(m)) /\ Rank(m) \in Nat /\ FamilyOrder[Rank(m)] = Family(m)
<1>1. Len(FamilyOrder) = 17
  BY DEF FamilyOrder
<1>2. \E j \in 1..Len(FamilyOrder) : FamilyOrder[j] = Family(m)
  BY RuleFound, FamiliesOrdered DEF Family
<1>3. Rank(m) = RankOf(Family(m))
  BY DEF Rank, RankOf
<1>4. RankOf(Family(m)) \in 1..Len(FamilyOrder) /\ FamilyOrder[RankOf(Family(m))] = Family(m)
  BY <1>2 DEF RankOf
<1> QED
  BY <1>1, <1>3, <1>4

\* The family tells the rule.
LEMMA SameFamily ==
  ASSUME NEW m \in Shown, NEW n \in Shown, Family(m) = Family(n)
  PROVE  RuleOf(m) = RuleOf(n) /\ m.plugin = n.plugin /\ m.type = n.type
  BY RuleFound, FamiliesDiffer DEF Family

\* Which labels a line has.
LEMMA LabelsAre ==
  ASSUME NEW m, NEW d, NEW r, r = RuleOf(m), NEW l, NEW v
  PROVE  <<l, v>> \in Labels(m, d) <=>
           \/ r.pi_label # "-" /\ m.pi # "-" /\ l = r.pi_label /\ v = m.pi
           \/ r.ti_label # "-" /\ m.ti # "-" /\ l = r.ti_label /\ v = m.ti
           \/ r.ds_label # "-" /\ d <= Len(r.ds_values) /\ l = r.ds_label /\ v = r.ds_values[d]
  BY DEF Labels

\* The label of an instance has its value, and is there unless it is empty.
LEMMA InstancesTold ==
  ASSUME NEW m, NEW d, NEW r \in RULES, r = RuleOf(m), NEW v
  PROVE  /\ r.pi_label # "-" => (<<r.pi_label, v>> \in Labels(m, d) <=> m.pi # "-" /\ v = m.pi)
         /\ r.ti_label # "-" => (<<r.ti_label, v>> \in Labels(m, d) <=> m.ti # "-" /\ v = m.ti)
<1>1. /\ r.pi_label # "-" => r.pi_label # r.ti_label /\ r.pi_label # r.ds_label
      /\ r.ti_label # "-" => r.ti_label # r.ds_label
  BY LabelsTell
<1>2. CASE r.pi_label # "-"
  BY <1>1, <1>2, LabelsAre
<1>3. CASE r.ti_label # "-"
  BY <1>1, <1>3, LabelsAre
<1> QED
  BY <1>2, <1>3

\* Two lines of a family with the same labels show the same data source of the same
\* metric.
LEMMA SeriesTold ==
  ASSUME NEW m \in Shown, NEW n \in Shown, NEW c \in 1..m.ds_count, NEW d \in 1..n.ds_count,
         Family(m) = Family(n), Labels(m, c) = Labels(n, d)
  PROVE  m = n /\ c = d
<1> DEFINE r == RuleOf(m)
<1>1. /\ r = RuleOf(m) /\ r = RuleOf(n) /\ r \in RULES
      /\ r.plugin = m.plugin /\ r.plugin = n.plugin /\ r.type = m.type /\ r.type = n.type
  BY SameFamily, RuleFound
<1> HIDE DEF r
<1>2. /\ m \in [plugin : STRING, pi : STRING, type : STRING, ti : STRING, ds_count : Nat]
      /\ n \in [plugin : STRING, pi : STRING, type : STRING, ti : STRING, ds_count : Nat]
      /\ m.ds_count = Len(types_lookup(r.type)) /\ n.ds_count = Len(types_lookup(r.type))
      /\ m.plugin \in {"memory", "swap", "load", "uptime", "tcpconns"} => m.pi = "-" /\ n.pi = "-"
      /\ m.plugin = "cpu" => m.pi = "total" /\ n.pi = "total"
      /\ m.plugin \in {"load", "uptime", "interface", "disk", "processes"} => m.ti = "-" /\ n.ti = "-"
  BY <1>1, ConstantsAssumption DEF Shown
<1>3. /\ r.pi_label # "-" => r.pi_label # r.ti_label /\ r.pi_label # r.ds_label
      /\ r.ti_label # "-" => r.ti_label # r.ds_label
      /\ r.pi_label = "-" => r.plugin \in {"cpu", "memory", "swap", "load", "uptime", "tcpconns"}
      /\ r.ti_label = "-" => r.plugin \in {"load", "uptime", "interface", "disk", "processes"}
  BY <1>1, LabelsTell
<1>4. m.pi = n.pi
  <2>1. CASE r.pi_label = "-"
    BY <1>1, <1>2, <1>3, <2>1
  <2>2. CASE r.pi_label # "-"
    <3> DEFINE L == Labels(m, c)
    <3>0. L = Labels(m, c) /\ L = Labels(n, d)
      OBVIOUS
    <3> HIDE DEF L
    <3>1. \A v : <<r.pi_label, v>> \in L <=> m.pi # "-" /\ v = m.pi
      BY <1>1, <2>2, <3>0, InstancesTold
    <3>2. \A v : <<r.pi_label, v>> \in L <=> n.pi # "-" /\ v = n.pi
      BY <1>1, <2>2, <3>0, InstancesTold
    <3>3. CASE m.pi # "-"
      BY <3>1, <3>2, <3>3
    <3>4. CASE n.pi # "-"
      BY <3>1, <3>2, <3>4
    <3> QED
      BY <3>3, <3>4
  <2> QED
    BY <2>1, <2>2
<1>5. m.ti = n.ti
  <2>1. CASE r.ti_label = "-"
    BY <1>1, <1>2, <1>3, <2>1
  <2>2. CASE r.ti_label # "-"
    <3> DEFINE L == Labels(m, c)
    <3>0. L = Labels(m, c) /\ L = Labels(n, d)
      OBVIOUS
    <3> HIDE DEF L
    <3>1. \A v : <<r.ti_label, v>> \in L <=> m.ti # "-" /\ v = m.ti
      BY <1>1, <2>2, <3>0, InstancesTold
    <3>2. \A v : <<r.ti_label, v>> \in L <=> n.ti # "-" /\ v = n.ti
      BY <1>1, <2>2, <3>0, InstancesTold
    <3>3. CASE m.ti # "-"
      BY <3>1, <3>2, <3>3
    <3>4. CASE n.ti # "-"
      BY <3>1, <3>2, <3>4
    <3> QED
      BY <3>3, <3>4
  <2> QED
    BY <2>1, <2>2
<1>6. c = d
  <2>1. CASE r.ds_label = "-"
    <3>1. m.ds_count = 1 /\ n.ds_count = 1
      BY <1>1, <1>2, <2>1, SourcesTold
    <3> QED
      BY <3>1
  <2>2. CASE r.ds_label # "-"
    <3>1. /\ m.ds_count = Len(r.ds_values) /\ n.ds_count = Len(r.ds_values) /\ m.ds_count \in Nat
          /\ \A x, y \in 1..Len(r.ds_values) : r.ds_values[x] = r.ds_values[y] => x = y
      BY <1>1, <1>2, <2>2, SourcesTold
    <3>2. c \in 1..Len(r.ds_values) /\ d \in 1..Len(r.ds_values) /\ c <= Len(r.ds_values) /\ d <= Len(r.ds_values)
      BY <3>1
    <3>3. <<r.ds_label, r.ds_values[c]>> \in Labels(m, c)
      BY <1>1, <2>2, <3>2, LabelsAre
    <3>4. \A v : <<r.ds_label, v>> \in Labels(n, d) => v = r.ds_values[d]
      BY <1>1, <1>3, <2>2, LabelsAre
    <3>5. r.ds_values[c] = r.ds_values[d]
      BY <3>3, <3>4
    <3> QED
      BY <3>1, <3>2, <3>5
  <2> QED
    BY <2>1, <2>2
<1>7. m.plugin = n.plugin /\ m.type = n.type /\ m.ds_count = n.ds_count
  BY <1>1, <1>2
<1>8. m = n
  BY <1>2, <1>4, <1>5, <1>7
<1> QED
  BY <1>6, <1>8

-----------------------------------------------------------------------------
(* Lines and texts.                                                        *)

HelpLine(m) == [kind |-> "HELP", family |-> Family(m)]

TypeLine(m) == [kind |-> "TYPE", family |-> Family(m), type |-> prom_type_for(m.type)]

SampleLine(m, d) == [kind |-> "sample", family |-> Family(m), labels |-> Labels(m, d),
                     type |-> m.type, ds |-> d]

SpoiledLine(m) == [kind |-> "spoiled", family |-> Family(m)]

Line == {HelpLine(m) : m \in Shown} \cup {TypeLine(m) : m \in Shown}
          \cup {SampleLine(m, d) : m \in Shown, d \in Nat} \cup {SpoiledLine(m) : m \in Shown}

\* The lines of s come in the order of their families, and in each the HELP and
\* the TYPE come once and first.
Grouped(s) ==
    \A h, j \in 1..Len(s) : h < j =>
      /\ RankOf(s[h].family) <= RankOf(s[j].family)
      /\ s[h].family = s[j].family =>
           /\ s[j].kind # "HELP"
           /\ s[j].kind = "TYPE" => s[h].kind = "HELP"

\* No line of s comes after the family of rank r.
Below(s, r) == \A j \in 1..Len(s) : RankOf(s[j].family) <= r

Has(s, kind, f) == \E h \in 1..Len(s) : s[h].kind = kind /\ s[h].family = f

\* The samples of s have the HELP and the TYPE of their family before them.
Announced(s) ==
    \A j \in 1..Len(s) : s[j].kind = "sample" =>
      \A kind \in {"HELP", "TYPE"} :
        \E h \in 1..j-1 : s[h].kind = kind /\ s[h].family = s[j].family

\* The series of family f with labels l is that of an entry that q has twice.
Repeated(q, f, l) ==
    \E a, b \in 1..Len(q) :
      /\ a # b /\ q[a] = q[b] /\ Family(q[a]) = f
      /\ \E d \in 1..q[a].ds_count : Labels(q[a], d) = l

\* Samples of s that are the same series come from entries that q has twice.
Distinct(s, q) ==
    \A i, j \in 1..Len(s) :
      /\ i # j /\ s[i].kind = "sample" /\ s[j].kind = "sample"
      /\ s[i].family = s[j].family /\ s[i].labels = s[j].labels
      => Repeated(q, s[i].family, s[i].labels)

\* What q has twice, s has twice.
Doubles(q, s) ==
    \A x, y \in 1..Len(q) : x # y /\ q[x] = q[y] =>
      \E a, b \in 1..Len(s) : a # b /\ s[a] = q[x] /\ s[b] = q[x]

\* What the lines of an entry are.
LEMMA LineFields ==
  ASSUME NEW m \in Shown, NEW d \in Nat
  PROVE  /\ HelpLine(m) \in Line /\ HelpLine(m).kind = "HELP" /\ HelpLine(m).family = Family(m)
         /\ TypeLine(m) \in Line /\ TypeLine(m).kind = "TYPE" /\ TypeLine(m).family = Family(m)
         /\ SpoiledLine(m) \in Line /\ SpoiledLine(m).kind = "spoiled"
         /\ SpoiledLine(m).family = Family(m)
         /\ SampleLine(m, d) \in Line /\ SampleLine(m, d).kind = "sample"
         /\ SampleLine(m, d).family = Family(m) /\ SampleLine(m, d).labels = Labels(m, d)
         /\ SampleLine(m, d).type = m.type /\ SampleLine(m, d).ds = d
         /\ TypeLine(m).type = prom_type_for(m.type)
<1>1. HelpLine(m) \in Line
  BY DEF Line
<1>2. TypeLine(m) \in Line
  BY DEF Line
<1>3. SampleLine(m, d) \in Line
  BY DEF Line
<1>4. SpoiledLine(m) \in Line
  BY DEF Line
<1> QED
  BY <1>1, <1>2, <1>3, <1>4 DEF HelpLine, TypeLine, SampleLine, SpoiledLine

\* A line's family has its place in the order, and is that of a metric.
LEMMA LineFamily ==
  ASSUME NEW x \in Line
  PROVE  /\ RankOf(x.family) \in Nat /\ FamilyOrder[RankOf(x.family)] = x.family
         /\ x.kind = "TYPE" => \E m \in Shown : x = TypeLine(m)
<1>1. \/ \E m \in Shown : x = HelpLine(m)
      \/ \E m \in Shown : x = TypeLine(m)
      \/ \E m \in Shown : \E d \in Nat : x = SampleLine(m, d)
      \/ \E m \in Shown : x = SpoiledLine(m)
  BY DEF Line
<1>2. \E m \in Shown : x.family = Family(m)
  BY <1>1, LineFields
<1>3. x.kind = "TYPE" => \E m \in Shown : x = TypeLine(m)
  BY <1>1, LineFields
<1> QED
  BY <1>2, <1>3, Ranks

\* The elements of a sequence that has grown by one.
LEMMA Grown ==
  ASSUME NEW S, NEW s \in Seq(S), NEW x \in S
  PROVE  /\ Append(s, x) \in Seq(S) /\ Len(s) \in Nat /\ Len(Append(s, x)) = Len(s) + 1
         /\ Append(s, x)[Len(s) + 1] = x
         /\ \A j \in 1..Len(s) : Append(s, x)[j] = s[j] /\ s[j] \in S
         /\ \A j \in 1..Len(Append(s, x)) : j \in 1..Len(s) \/ j = Len(s) + 1
  OBVIOUS

\* A line of the last family keeps the text in order.
LEMMA GrownGrouped ==
  ASSUME NEW s \in Seq(Line), NEW x \in Line, NEW r \in Nat, r = RankOf(x.family),
         Grouped(s), Below(s, r),
         \A j \in 1..Len(s) : s[j].family = x.family =>
            x.kind # "HELP" /\ (x.kind = "TYPE" => s[j].kind = "HELP")
  PROVE  Grouped(Append(s, x)) /\ Below(Append(s, x), r)
<1> DEFINE t == Append(s, x)
<1>1. /\ Len(s) \in Nat /\ Len(t) = Len(s) + 1 /\ t[Len(s) + 1] = x
      /\ \A j \in 1..Len(s) : t[j] = s[j]
      /\ \A j \in 1..Len(t) : j \in 1..Len(s) \/ j = Len(s) + 1
  BY Grown
<1> HIDE DEF t
<1>2. Below(t, r)
  BY <1>1 DEF Below
<1>3. ASSUME NEW h \in 1..Len(t), NEW j \in 1..Len(t), h < j
      PROVE  /\ RankOf(t[h].family) <= RankOf(t[j].family)
             /\ t[h].family = t[j].family =>
                  /\ t[j].kind # "HELP"
                  /\ t[j].kind = "TYPE" => t[h].kind = "HELP"
  <2>1. h \in 1..Len(s) /\ t[h] = s[h]
    BY <1>1, <1>3
  <2>2. CASE j \in 1..Len(s)
    BY <1>1, <1>3, <2>1, <2>2 DEF Grouped
  <2>3. CASE j = Len(s) + 1
    BY <1>1, <2>1, <2>3 DEF Below
  <2> QED
    BY <1>1, <2>2, <2>3
<1>4. Grouped(t)
  BY <1>3 DEF Grouped
<1> QED
  BY <1>2, <1>4 DEF t

\* A sample of an announced family keeps the text announced.
LEMMA GrownAnnounced ==
  ASSUME NEW s \in Seq(Line), NEW x \in Line, Announced(s),
         x.kind = "sample" => Has(s, "HELP", x.family) /\ Has(s, "TYPE", x.family)
  PROVE  Announced(Append(s, x))
<1> DEFINE t == Append(s, x)
<1>1. /\ Len(s) \in Nat /\ Len(t) = Len(s) + 1 /\ t[Len(s) + 1] = x
      /\ \A j \in 1..Len(s) : t[j] = s[j]
      /\ \A j \in 1..Len(t) : j \in 1..Len(s) \/ j = Len(s) + 1
  BY Grown
<1> HIDE DEF t
<1>2. ASSUME NEW j \in 1..Len(t), t[j].kind = "sample", NEW kind \in {"HELP", "TYPE"}
      PROVE  \E h \in 1..j-1 : t[h].kind = kind /\ t[h].family = t[j].family
  <2>1. CASE j \in 1..Len(s)
    <3>1. PICK h \in 1..j-1 : s[h].kind = kind /\ s[h].family = s[j].family
      BY <1>1, <1>2, <2>1 DEF Announced
    <3>2. h \in 1..Len(s)
      BY <1>1, <2>1
    <3> QED
      BY <1>1, <2>1, <3>1, <3>2
  <2>2. CASE j = Len(s) + 1
    <3>1. PICK h \in 1..Len(s) : s[h].kind = kind /\ s[h].family = x.family
      BY <1>1, <1>2, <2>2 DEF Has
    <3> QED
      BY <1>1, <2>2, <3>1
  <2> QED
    BY <1>1, <2>1, <2>2
<1>3. Announced(t)
  BY <1>2 DEF Announced
<1> QED
  BY <1>3 DEF t

\* What a text has, a longer one has.
LEMMA GrownHas ==
  ASSUME NEW s \in Seq(Line), NEW x \in Line
  PROVE  /\ Has(Append(s, x), x.kind, x.family)
         /\ \A kind, f : Has(s, kind, f) => Has(Append(s, x), kind, f)
<1> DEFINE t == Append(s, x)
<1>1. /\ Len(s) \in Nat /\ Len(t) = Len(s) + 1 /\ t[Len(s) + 1] = x
      /\ \A j \in 1..Len(s) : t[j] = s[j]
  BY Grown
<1> HIDE DEF t
<1>2. Has(t, x.kind, x.family)
  BY <1>1 DEF Has
<1>3. \A kind, f : Has(s, kind, f) => Has(t, kind, f)
  BY <1>1 DEF Has
<1> QED
  BY <1>2, <1>3 DEF t

\* A line that is not a sample, or is a new one or that of a repeated entry, keeps
\* the series distinct.
LEMMA GrownDistinct ==
  ASSUME NEW q, NEW s \in Seq(Line), NEW x \in Line, Distinct(s, q),
         \A j \in 1..Len(s) :
            (/\ x.kind = "sample" /\ s[j].kind = "sample"
             /\ s[j].family = x.family /\ s[j].labels = x.labels)
            => Repeated(q, x.family, x.labels)
  PROVE  Distinct(Append(s, x), q)
<1> DEFINE t == Append(s, x)
<1>1. /\ Len(s) \in Nat /\ Len(t) = Len(s) + 1 /\ t[Len(s) + 1] = x
      /\ \A j \in 1..Len(s) : t[j] = s[j]
      /\ \A j \in 1..Len(t) : j \in 1..Len(s) \/ j = Len(s) + 1
  BY Grown
<1> HIDE DEF t
<1>2. ASSUME NEW i \in 1..Len(t), NEW j \in 1..Len(t), i # j,
             t[i].kind = "sample", t[j].kind = "sample",
             t[i].family = t[j].family, t[i].labels = t[j].labels
      PROVE  Repeated(q, t[i].family, t[i].labels)
  <2>1. CASE i \in 1..Len(s) /\ j \in 1..Len(s)
    <3>1. t[i] = s[i] /\ t[j] = s[j]
      BY <1>1, <2>1
    <3> QED
      BY <1>2, <2>1, <3>1 DEF Distinct
  <2>2. CASE i \in 1..Len(s) /\ j = Len(s) + 1
    BY <1>1, <1>2, <2>2
  <2>3. CASE j \in 1..Len(s) /\ i = Len(s) + 1
    BY <1>1, <1>2, <2>3
  <2> QED
    BY <1>1, <1>2, <2>1, <2>2, <2>3
<1>3. Distinct(t, q)
  BY <1>2 DEF Distinct
<1> QED
  BY <1>3 DEF t

-----------------------------------------------------------------------------
(* The inductive invariant.                                                *)

\* The metrics with a rule among the first n are entries.
Holds(n) == \A j \in 1..n : ms[j] \in Shown => \E i \in 1..Len(e) : e[i] = ms[j]

\* The entries are the metrics that have a rule, none more often than it was staged,
\* and sorted to be printed.
EntryInv ==
    /\ ms \in Seq(Emitted)
    /\ e \in Seq(Shown) /\ Doubles(e, ms)
    /\ k \in Nat /\ di \in Nat /\ failures \in 0..MaxFailures
    /\ pc \in {"scan", "print", "sample", "done"}
    /\ pc = "scan" =>
         /\ k <= Len(ms) /\ Len(e) <= k /\ lines = <<>> /\ cur_family = "-"
         /\ \A i \in 1..Len(e) : \E j \in 1..k : e[i] = ms[j]
         /\ Holds(k)
    /\ pc # "scan" => k <= Len(e) /\ Len(e) <= Len(ms)
    /\ pc # "scan" /\ failures = 0 => Holds(Len(ms))
    /\ pc \in {"print", "sample"} => Sorted(e)
    /\ pc = "sample" => k < Len(e) /\ di <= e[k + 1].ds_count
    /\ pc = "done" /\ failures = 0 => k = Len(e)

\* The last entry begun.
Cur == IF pc = "scan" THEN 0 ELSE IF pc = "sample" THEN k + 1 ELSE k

\* The families follow each other up to that of the last entry begun, which has
\* been announced.
TextInv ==
    /\ lines \in Seq(Line)
    /\ Cur = 0 => lines = <<>> /\ cur_family = "-"
    /\ Cur > 0 => cur_family = Family(e[Cur]) /\ Below(lines, Rank(e[Cur]))
    /\ Grouped(lines)
    /\ failures = 0 => Announced(lines)
    /\ failures = 0 /\ Cur > 0 => Has(lines, "HELP", cur_family) /\ Has(lines, "TYPE", cur_family)

\* Data source d of entry b has had its turn.
Printed(b, d) ==
    /\ b \in 1..Len(e) /\ d \in 1..e[b].ds_count
    /\ pc # "scan"
    /\ b <= k \/ (pc = "sample" /\ b = k + 1 /\ d <= di)

\* The samples are those of the data sources that have had their turn.
SampleInv ==
    /\ \A j \in 1..Len(lines) : lines[j].kind = "sample" =>
         \E b \in 1..Len(e), d \in Nat : Printed(b, d) /\ lines[j] = SampleLine(e[b], d)
    /\ Distinct(lines, e)
    /\ failures = 0 =>
         \A b \in 1..Len(e), d \in Nat : Printed(b, d) =>
           \E j \in 1..Len(lines) : lines[j] = SampleLine(e[b], d)

IInv == EntryInv /\ TextInv /\ SampleInv

-----------------------------------------------------------------------------
(* Steps.                                                                  *)

\* One line is appended, or dropped for want of memory.
LEMMA PutOne ==
  ASSUME NEW x \in Line, lines \in Seq(Line), Put(<<x>>)
  PROVE  \/ lines' = Append(lines, x) /\ failures' = failures
         \/ lines' = lines /\ Fails
<1>1. Append(lines, x) = lines \o <<x>> /\ lines \o <<>> = lines
  BY AppendIsConcat, ConcatEmptySeq
<1>2. RemoveAt(<<x>>, 1) = <<>>
  BY DEF RemoveAt
<1>3. Len(<<x>>) = 1
  OBVIOUS
<1>4. \/ lines' = lines \o <<x>> /\ failures' = failures
      \/ \E j \in 1..1 : lines' = lines \o RemoveAt(<<x>>, j) /\ Fails
      \/ lines' = lines /\ Fails
  BY <1>3 DEF Put
<1>5. \A j \in 1..1 : j = 1
  OBVIOUS
<1> QED
  BY <1>1, <1>2, <1>4, <1>5

\* Two lines are appended, one of them, or none.
LEMMA PutTwo ==
  ASSUME NEW x \in Line, NEW y \in Line, lines \in Seq(Line), Put(<<x, y>>)
  PROVE  \/ lines' = Append(Append(lines, x), y) /\ failures' = failures
         \/ lines' = Append(lines, x) /\ Fails
         \/ lines' = Append(lines, y) /\ Fails
         \/ lines' = lines /\ Fails
<1>1. Append(lines, x) = lines \o <<x>> /\ Append(lines, y) = lines \o <<y>>
  BY AppendIsConcat
<1>2. Append(Append(lines, x), y) = lines \o <<x, y>>
  OBVIOUS
<1>3. RemoveAt(<<x, y>>, 1) = <<y>> /\ RemoveAt(<<x, y>>, 2) = <<x>>
  <2> DEFINE s == <<x, y>>
  <2>1. s \in Seq(Line) /\ Len(s) = 2 /\ s[1] = x /\ s[2] = y
    OBVIOUS
  <2> HIDE DEF s
  <2>2. SubSeq(s, 1, 0) = <<>> /\ SubSeq(s, 3, 2) = <<>>
    BY <2>1
  <2>3. SubSeq(s, 2, 2) = <<y>> /\ SubSeq(s, 1, 1) = <<x>>
    <3>1. ASSUME NEW i \in 1..2 PROVE SubSeq(s, i, i) = <<s[i]>>
      <4>1. Len(SubSeq(s, i, i)) = 1 /\ SubSeq(s, i, i)[1] = s[i] /\ SubSeq(s, i, i) \in Seq(Line)
        BY <2>1
      <4> DEFINE t == SubSeq(s, i, i)
                 v == s[i]
      <4>2. t \in Seq(Line) /\ Len(t) = 1 /\ t[1] = v
        BY <4>1
      <4> HIDE DEF t, v
      <4>3. Append(<<>>, v) = <<v>> /\ t = Append(<<>>, v)
        BY <4>2
      <4> QED
        BY <4>3 DEF t, v
    <3> QED
      BY <2>1, <3>1
  <2>4. <<>> \o <<y>> = <<y>> /\ <<x>> \o <<>> = <<x>>
    BY ConcatEmptySeq
  <2>5. RemoveAt(s, 1) = SubSeq(s, 1, 0) \o SubSeq(s, 2, 2)
    BY <2>1 DEF RemoveAt
  <2>6. RemoveAt(s, 2) = SubSeq(s, 1, 1) \o SubSeq(s, 3, 2)
    BY <2>1 DEF RemoveAt
  <2> QED
    BY <2>2, <2>3, <2>4, <2>5, <2>6 DEF s
<1>4. Len(<<x, y>>) = 2
  OBVIOUS
<1>5. \/ lines' = lines \o <<x, y>> /\ failures' = failures
      \/ \E j \in 1..2 : lines' = lines \o RemoveAt(<<x, y>>, j) /\ Fails
      \/ lines' = lines /\ Fails
  BY <1>4 DEF Put
<1>6. \A j \in 1..2 : j = 1 \/ j = 2
  OBVIOUS
<1> QED
  BY <1>1, <1>2, <1>3, <1>5, <1>6

\* An arrangement has all the elements, and none more often.
LEMMA Arranged ==
  ASSUME NEW S, NEW s \in Seq(S), NEW a \in Arrangements(s)
  PROVE  /\ a \in Seq(S) /\ Len(a) = Len(s) /\ Doubles(a, s)
         /\ \A i \in 1..Len(s) : \E j \in 1..Len(a) : a[j] = s[i]
<1> DEFINE n == Len(s)
<1>0. n \in Nat /\ DOMAIN s = 1..n
  OBVIOUS
<1>1. PICK f \in [1..n -> 1..n] : IsInjective(f) /\ a = [j \in 1..n |-> s[f[j]]]
  BY DEF Arrangements
<1>2. \A j \in 1..n : s[j] \in S
  OBVIOUS
<1> HIDE DEF n
<1>3. a \in [1..n -> S]
  BY <1>1, <1>2
<1>4. a \in Seq(S) /\ Len(a) = n /\ DOMAIN a = 1..n
  BY <1>0, <1>3
<1>5. ASSUME NEW x \in 1..n, NEW y \in 1..n, x # y, a[x] = a[y]
      PROVE  \E i, j \in 1..n : i # j /\ s[i] = a[x] /\ s[j] = a[x]
  <2>1. f[x] \in 1..n /\ f[y] \in 1..n /\ f[x] # f[y]
    BY <1>1, <1>5 DEF IsInjective
  <2>2. s[f[x]] = a[x] /\ s[f[y]] = a[x]
    BY <1>1, <1>5
  <2> QED
    BY <2>1, <2>2
<1>6. f \in Injection(1..n, 1..n) /\ IsFiniteSet(1..n)
  <2>1. f \in Injection(1..n, 1..n)
    BY <1>1 DEF Injection
  <2>2. 1 \in Int /\ n \in Int
    BY <1>0
  <2> QED
    BY <2>1, <2>2, FS_Interval
<1>7. f \in Surjection(1..n, 1..n)
  BY <1>6, FS_Injection
<1>8. \A i \in 1..n : \E j \in 1..n : f[j] = i
  BY <1>7 DEF Surjection
<1>9. \A i \in 1..n : \E j \in 1..n : a[j] = s[i]
  BY <1>1, <1>8
<1> QED
  BY <1>4, <1>5, <1>9 DEF n, Doubles

\* Nothing has been printed.
LEMMA InitIs == Init => IInv
<1> SUFFICES ASSUME Init PROVE IInv
  OBVIOUS
<1>1. MaxMetrics \in Nat /\ MaxFailures \in Nat
  BY ConstantsAssumption
<1>2. PICK n \in 0..MaxMetrics : ms \in [1..n -> Emitted]
  BY DEF Init, SeqOf
<1>3. ms \in Seq(Emitted) /\ Len(ms) \in Nat
  BY <1>1, <1>2
<1>4. e = <<>> /\ lines = <<>> /\ cur_family = "-" /\ k = 0 /\ di = 0 /\ failures = 0 /\ pc = "scan"
  BY DEF Init
<1>5. e \in Seq(Shown) /\ Len(e) = 0 /\ lines \in Seq(Line) /\ Len(lines) = 0
  BY <1>4
<1>6. Doubles(e, ms)
  BY <1>5 DEF Doubles
<1>7. EntryInv
  BY <1>1, <1>3, <1>4, <1>5, <1>6 DEF EntryInv, Holds
<1>8. TextInv
  BY <1>4, <1>5 DEF TextInv, Cur, Grouped, Announced
<1>9. SampleInv
  BY <1>4, <1>5 DEF SampleInv, Printed, Distinct
<1> QED
  BY <1>7, <1>8, <1>9 DEF IInv

\* A metric that is shown counts its data sources.
LEMMA Counted == \A m \in Shown : m.ds_count \in Nat /\ m.ds_count = Len(types_lookup(m.type))
  BY ConstantsAssumption DEF Shown

\* Every step keeps the entries.
LEMMA EntryStep == EntryInv /\ [Next]_vars => EntryInv'
<1> SUFFICES ASSUME EntryInv, [Next]_vars PROVE EntryInv'
  OBVIOUS
<1>1. /\ ms \in Seq(Emitted) /\ Len(ms) \in Nat
      /\ e \in Seq(Shown) /\ Doubles(e, ms) /\ Len(e) \in Nat
      /\ k \in Nat /\ di \in Nat /\ failures \in Nat /\ failures <= MaxFailures /\ MaxFailures \in Nat
  BY ConstantsAssumption DEF EntryInv
<1>2. CASE Scan
  <2>1. /\ pc = "scan" /\ k < Len(ms) /\ k' = k + 1 /\ UNCHANGED <<ms, di, cur_family, lines, pc, failures>>
        /\ k <= Len(ms) /\ Len(e) <= k /\ lines = <<>> /\ cur_family = "-"
        /\ \A i \in 1..Len(e) : \E j \in 1..k : e[i] = ms[j]
        /\ \A j \in 1..k : ms[j] \in Shown => \E i \in 1..Len(e) : e[i] = ms[j]
    BY <1>2 DEF Scan, EntryInv, Holds
  <2>2. k + 1 \in 1..Len(ms) /\ ms[k + 1] \in Emitted
    BY <1>1, <2>1
  <2>3. /\ e' \in Seq(Shown) /\ Doubles(e', ms) /\ Len(e') <= k + 1
        /\ \A i \in 1..Len(e') : \E j \in 1..k + 1 : e'[i] = ms[j]
        /\ \A j \in 1..k + 1 : ms[j] \in Shown => \E i \in 1..Len(e') : e'[i] = ms[j]
    <3>1. CASE ms[k + 1] \notin Shown
      <4>1. e' = e
        BY <1>2, <2>2, <3>1 DEF Scan, Shown
      <4>2. \A j \in 1..k + 1 : j \in 1..k \/ j = k + 1
        BY <1>1
      <4>3. 1..k \subseteq 1..k + 1
        BY <1>1
      <4> QED
        BY <1>1, <2>1, <3>1, <4>1, <4>2, <4>3
    <3>2. CASE ms[k + 1] \in Shown
      <4> DEFINE x == ms[k + 1]
      <4>1. e' = Append(e, x)
        BY <1>2, <3>2 DEF Scan, Shown
      <4>2. /\ e' \in Seq(Shown) /\ Len(e') = Len(e) + 1 /\ e'[Len(e) + 1] = x
            /\ \A j \in 1..Len(e) : e'[j] = e[j]
            /\ \A j \in 1..Len(e') : j \in 1..Len(e) \/ j = Len(e) + 1
        BY <1>1, <3>2, <4>1, Grown
      <4>3. ASSUME NEW i \in 1..Len(e), e[i] = x
            PROVE  \E a, b \in 1..Len(ms) : a # b /\ ms[a] = x /\ ms[b] = x
        <5>1. PICK j \in 1..k : e[i] = ms[j]
          BY <2>1
        <5>2. j \in 1..Len(ms) /\ j # k + 1
          BY <1>1, <2>1
        <5> QED
          BY <2>2, <4>3, <5>1, <5>2
      <4>5. Doubles(e', ms)
        <5> SUFFICES ASSUME NEW p \in 1..Len(e'), NEW q \in 1..Len(e'), p # q, e'[p] = e'[q]
                     PROVE  \E a, b \in 1..Len(ms) : a # b /\ ms[a] = e'[p] /\ ms[b] = e'[p]
          BY DEF Doubles
        <5> HIDE DEF x
        <5>1. CASE p \in 1..Len(e) /\ q \in 1..Len(e)
          BY <1>1, <4>2, <5>1 DEF Doubles
        <5>2. CASE p \in 1..Len(e) /\ q = Len(e) + 1
          BY <4>2, <4>3, <5>2
        <5>3. CASE q \in 1..Len(e) /\ p = Len(e) + 1
          BY <4>2, <4>3, <5>3
        <5> QED
          BY <4>2, <5>1, <5>2, <5>3
      <4>6. \A i \in 1..Len(e') : \E j \in 1..k + 1 : e'[i] = ms[j]
        <5> SUFFICES ASSUME NEW i \in 1..Len(e') PROVE \E j \in 1..k + 1 : e'[i] = ms[j]
          OBVIOUS
        <5>1. CASE i \in 1..Len(e)
          <6>1. PICK j \in 1..k : e[i] = ms[j]
            BY <2>1, <5>1
          <6> QED
            BY <1>1, <4>2, <5>1, <6>1
        <5>2. CASE i = Len(e) + 1
          BY <1>1, <4>2, <5>2
        <5> QED
          BY <4>2, <5>1, <5>2
      <4>7. \A j \in 1..k + 1 : ms[j] \in Shown => \E i \in 1..Len(e') : e'[i] = ms[j]
        <5> SUFFICES ASSUME NEW j \in 1..k + 1, ms[j] \in Shown PROVE \E i \in 1..Len(e') : e'[i] = ms[j]
          OBVIOUS
        <5>1. CASE j \in 1..k
          <6>1. PICK i \in 1..Len(e) : e[i] = ms[j]
            BY <2>1, <5>1
          <6> QED
            BY <1>1, <4>2, <6>1
        <5>2. CASE j = k + 1
          BY <1>1, <4>2, <5>2
        <5> QED
          BY <1>1, <5>1, <5>2
      <4> QED
        BY <1>1, <2>1, <4>2, <4>5, <4>6, <4>7
    <3> QED
      BY <3>1, <3>2
  <2>4. k + 1 \in Nat /\ k + 1 <= Len(ms)
    BY <1>1, <2>2
  <2>5. pc' = "scan" /\ ms' = ms /\ k' = k + 1 /\ di' = di /\ failures' = failures /\ lines' = <<>> /\ cur_family' = "-"
    BY <2>1
  <2> QED
    BY <1>1, <2>3, <2>4, <2>5 DEF EntryInv, Holds
<1>3. CASE ScanFails
  <2>1. /\ pc' = "done" /\ k = 0 /\ pc = "scan" /\ failures' = failures + 1 /\ failures < MaxFailures
        /\ ms' = ms /\ e' = e /\ k' = k /\ di' = di /\ Len(e) <= k /\ k <= Len(ms)
    BY <1>3 DEF ScanFails, Fails, EntryInv
  <2> QED
    BY <1>1, <2>1 DEF EntryInv
<1>4. CASE Sort
  <2>1. /\ pc = "scan" /\ k = Len(ms) /\ e' \in Arrangements(e) /\ Sorted(e')
        /\ pc' = "print" /\ k' = 0 /\ UNCHANGED <<ms, di, cur_family, lines, failures>>
    BY <1>4 DEF Sort
  <2>2. /\ Len(e) <= Len(ms)
        /\ \A j \in 1..Len(ms) : ms[j] \in Shown => \E i \in 1..Len(e) : e[i] = ms[j]
    BY <2>1 DEF EntryInv, Holds
  <2>3. /\ e' \in Seq(Shown) /\ Len(e') = Len(e) /\ Doubles(e', e)
        /\ \A i \in 1..Len(e) : \E j \in 1..Len(e') : e'[j] = e[i]
    BY <1>1, <2>1, Arranged
  <2>5. Doubles(e', ms)
    <3> SUFFICES ASSUME NEW p \in 1..Len(e'), NEW q \in 1..Len(e'), p # q, e'[p] = e'[q]
                 PROVE  \E a, b \in 1..Len(ms) : a # b /\ ms[a] = e'[p] /\ ms[b] = e'[p]
      BY DEF Doubles
    <3>1. PICK a, b \in 1..Len(e) : a # b /\ e[a] = e'[p] /\ e[b] = e'[p]
      BY <2>3 DEF Doubles
    <3> QED
      BY <1>1, <3>1 DEF Doubles
  <2>4. \A j \in 1..Len(ms) : ms[j] \in Shown => \E i \in 1..Len(e') : e'[i] = ms[j]
    BY <2>2, <2>3
  <2> QED
    BY <1>1, <2>1, <2>2, <2>3, <2>4, <2>5 DEF EntryInv, Holds, Sorted
<1>5. CASE PrintEntry
  <2>1. /\ pc = "print" /\ k < Len(e) /\ pc' = "sample" /\ di' = 0 /\ ms' = ms /\ e' = e /\ k' = k
        /\ Len(e) <= Len(ms) /\ Sorted(e) /\ (failures = 0 => Holds(Len(ms)))
    BY <1>5 DEF PrintEntry, EntryInv
  <2>2. /\ k + 1 \in 1..Len(e) /\ e[k + 1] \in Shown /\ e[k + 1].ds_count \in Nat
    <3>1. k + 1 \in 1..Len(e)
      BY <1>1, <2>1
    <3>2. e[k + 1] \in Shown
      BY <1>1, <3>1
    <3> QED
      BY <3>1, <3>2, Counted
  <2>3. failures' = failures \/ Fails
    BY <1>5 DEF PrintEntry, Put
  <2>4. failures' \in 0..MaxFailures /\ (failures' = 0 => failures = 0)
    BY <1>1, <2>3 DEF Fails
  <2> QED
    BY <1>1, <2>1, <2>2, <2>4 DEF EntryInv, Holds, Sorted
<1>6. CASE Sample
  <2>1. /\ pc = "sample" /\ pc' = "sample" /\ di < e[k + 1].ds_count /\ di' = di + 1
        /\ ms' = ms /\ e' = e /\ k' = k
    BY <1>6 DEF Sample
  <2>2. /\ k < Len(e) /\ Len(e) <= Len(ms) /\ Sorted(e) /\ (failures = 0 => Holds(Len(ms)))
    BY <2>1 DEF EntryInv
  <2>3. /\ k + 1 \in 1..Len(e) /\ e[k + 1] \in Shown /\ e[k + 1].ds_count \in Nat
    <3>1. k + 1 \in 1..Len(e)
      BY <1>1, <2>2
    <3>2. e[k + 1] \in Shown
      BY <1>1, <3>1
    <3> QED
      BY <3>1, <3>2, Counted
  <2>4. failures' = failures \/ Fails
    BY <1>6 DEF Sample, Put
  <2>5. failures' \in 0..MaxFailures /\ (failures' = 0 => failures = 0)
    BY <1>1, <2>4 DEF Fails
  <2> QED
    BY <1>1, <2>1, <2>2, <2>3, <2>5 DEF EntryInv, Holds, Sorted
<1>7. CASE SampleEnd
  <2>1. /\ pc = "sample" /\ pc' = "print" /\ k' = k + 1
        /\ ms' = ms /\ e' = e /\ di' = di /\ failures' = failures
    BY <1>7 DEF SampleEnd
  <2>2. /\ k < Len(e) /\ Len(e) <= Len(ms) /\ Sorted(e) /\ (failures = 0 => Holds(Len(ms)))
    BY <2>1 DEF EntryInv
  <2>3. k + 1 \in Nat /\ k + 1 <= Len(e)
    BY <1>1, <2>2
  <2> QED
    BY <1>1, <2>1, <2>2, <2>3 DEF EntryInv, Holds, Sorted
<1>8. CASE PrintEnd
  <2>1. /\ pc = "print" /\ pc' = "done" /\ k >= Len(e)
        /\ ms' = ms /\ e' = e /\ k' = k /\ di' = di /\ failures' = failures
    BY <1>8 DEF PrintEnd
  <2>2. /\ k <= Len(e) /\ Len(e) <= Len(ms) /\ (failures = 0 => Holds(Len(ms)))
    BY <2>1 DEF EntryInv
  <2>3. k = Len(e)
    <3>1. k \in Nat /\ Len(e) \in Nat /\ k <= Len(e) /\ k >= Len(e)
      BY <1>1, <2>1, <2>2
    <3> QED
      BY <3>1
  <2> QED
    BY <1>1, <2>1, <2>2, <2>3 DEF EntryInv, Holds
<1>9. CASE UNCHANGED vars
  BY <1>9 DEF vars, EntryInv, Holds, Sorted
<1> QED
  BY <1>2, <1>3, <1>4, <1>5, <1>6, <1>7, <1>8, <1>9 DEF Next, Done

\* Ranks tell families apart.
LEMMA RanksTell ==
  ASSUME NEW m \in Shown, NEW n \in Shown
  PROVE  Rank(m) = Rank(n) <=> Family(m) = Family(n)
<1>1. Rank(m) = Rank(n) => Family(m) = Family(n)
  BY Ranks
<1>2. Family(m) = Family(n) => Rank(m) = Rank(n)
  BY Ranks
<1> QED
  BY <1>1, <1>2

\* A family has a name.
LEMMA FamilyNamed == \A m \in Shown : Family(m) # "-"
<1>1. \A r \in RULES : r.family # "-"
  BY SMTT(60) DEF RULES, Rule
<1> QED
  BY <1>1, RuleFound DEF Family

\* A new family comes after the families of the text.
LEMMA FamilyNew ==
  ASSUME EntryInv, TextInv, pc = "print", k < Len(e), cur_family # Family(e[k + 1])
  PROVE  /\ \A j \in 1..Len(lines) : lines[j].family # Family(e[k + 1])
         /\ Below(lines, Rank(e[k + 1]))
<1>1. /\ k \in Nat /\ e \in Seq(Shown) /\ Len(e) \in Nat /\ Sorted(e) /\ lines \in Seq(Line)
  BY DEF EntryInv, TextInv
<1>2. Cur = k
  BY DEF Cur
<1>3. k + 1 \in 1..Len(e) /\ e[k + 1] \in Shown
  <2>1. k + 1 \in 1..Len(e)
    BY <1>1
  <2> QED
    BY <1>1, <2>1
<1>4. CASE k = 0
  <2>1. Len(lines) = 0
    BY <1>2, <1>4 DEF TextInv
  <2> QED
    BY <2>1 DEF Below
<1>5. CASE k # 0
  <2>1. k \in 1..Len(e) /\ e[k] \in Shown /\ k < k + 1 /\ k > 0
    BY <1>1, <1>5
  <2>2. cur_family = Family(e[k]) /\ Below(lines, Rank(e[k]))
    BY <1>2, <2>1 DEF TextInv
  <2>3. Rank(e[k]) <= Rank(e[k + 1])
    BY <1>1, <1>3, <2>1 DEF Sorted
  <2>4. Rank(e[k]) \in Nat /\ Rank(e[k + 1]) \in Nat /\ Rank(e[k + 1]) = RankOf(Family(e[k + 1]))
    BY <1>3, <2>1, Ranks
  <2>5. Rank(e[k]) # Rank(e[k + 1])
    BY <1>3, <2>1, <2>2, RanksTell
  <2>6. ASSUME NEW j \in 1..Len(lines)
        PROVE  RankOf(lines[j].family) < RankOf(Family(e[k + 1]))
    <3>1. RankOf(lines[j].family) \in Nat
      BY <1>1, LineFamily
    <3>2. RankOf(lines[j].family) <= Rank(e[k])
      BY <2>2 DEF Below
    <3> QED
      BY <2>3, <2>4, <2>5, <3>1, <3>2
  <2>7. \A j \in 1..Len(lines) : RankOf(lines[j].family) \in Nat
    BY <1>1, LineFamily
  <2>8. Below(lines, Rank(e[k + 1]))
    BY <2>4, <2>6, <2>7 DEF Below
  <2>9. \A j \in 1..Len(lines) : lines[j].family # Family(e[k + 1])
    <3> SUFFICES ASSUME NEW j \in 1..Len(lines), lines[j].family = Family(e[k + 1]) PROVE FALSE
      OBVIOUS
    <3>1. RankOf(lines[j].family) < RankOf(Family(e[k + 1]))
      BY <2>6
    <3>2. RankOf(Family(e[k + 1])) < RankOf(Family(e[k + 1])) /\ RankOf(Family(e[k + 1])) \in Nat
      BY <2>4, <3>1
    <3> QED
      BY <3>2
  <2> QED
    BY <2>8, <2>9
<1> QED
  BY <1>4, <1>5

\* Every step keeps the groups of the text.
LEMMA TextStep == EntryInv /\ TextInv /\ [Next]_vars => TextInv'
<1> SUFFICES ASSUME EntryInv, TextInv, [Next]_vars PROVE TextInv'
  OBVIOUS
<1>1. /\ k \in Nat /\ di \in Nat /\ failures \in Nat /\ e \in Seq(Shown) /\ Len(e) \in Nat
      /\ lines \in Seq(Line) /\ Grouped(lines) /\ (failures = 0 => Announced(lines))
  BY ConstantsAssumption DEF EntryInv, TextInv
<1>2. ASSUME lines' = <<>>, cur_family' = "-", Cur' = 0
      PROVE  TextInv'
  <2>1. lines' \in Seq(Line) /\ Len(lines') = 0
    BY <1>2
  <2> QED
    BY <1>2, <2>1 DEF TextInv, Grouped, Announced
<1>3. CASE Scan
  <2>1. lines' = <<>> /\ cur_family' = "-" /\ Cur' = 0
    BY <1>3 DEF Scan, EntryInv, Cur
  <2> QED
    BY <1>2, <2>1
<1>4. CASE ScanFails
  <2>1. lines' = <<>> /\ cur_family' = "-" /\ Cur' = 0
    BY <1>4 DEF ScanFails, EntryInv, Cur
  <2> QED
    BY <1>2, <2>1
<1>5. CASE Sort
  <2>1. lines' = <<>> /\ cur_family' = "-" /\ Cur' = 0
    BY <1>5 DEF Sort, EntryInv, Cur
  <2> QED
    BY <1>2, <2>1
<1>6. CASE PrintEntry
  <2> DEFINE m == e[k + 1]
             x == HelpLine(m)
             y == TypeLine(m)
             r == Rank(m)
  <2>1. pc = "print" /\ k < Len(e) /\ pc' = "sample" /\ e' = e /\ k' = k
    BY <1>6 DEF PrintEntry
  <2>2. k + 1 \in 1..Len(e) /\ k + 1 > 0
    BY <1>1, <2>1
  <2>3. m \in Shown
    BY <1>1, <2>2
  <2>4. Cur = k /\ Cur' = k + 1
    BY <2>1 DEF Cur
  <2>5. CASE cur_family = Family(m)
    <3>1. lines' = lines /\ failures' = failures /\ cur_family' = cur_family
      BY <1>6, <2>5 DEF PrintEntry
    <3>2. k > 0
      BY <1>1, <2>3, <2>4, <2>5, FamilyNamed DEF TextInv
    <3>3. e[k] \in Shown
      BY <1>1, <2>1, <3>2
    <3>4. /\ cur_family = Family(e[k]) /\ Below(lines, Rank(e[k]))
          /\ failures = 0 => Has(lines, "HELP", cur_family) /\ Has(lines, "TYPE", cur_family)
      BY <2>4, <3>2 DEF TextInv
    <3>5. Rank(e[k]) = r
      BY <2>3, <2>5, <3>3, <3>4, RanksTell
    <3> QED
      BY <1>1, <2>1, <2>2, <2>4, <2>5, <3>1, <3>4, <3>5 DEF TextInv
  <2>6. CASE cur_family # Family(m)
    <3>1. cur_family' = Family(m) /\ Put(<<x, y>>)
      BY <1>6, <2>6 DEF PrintEntry, HelpLine, TypeLine
    <3>2. /\ x \in Line /\ x.kind = "HELP" /\ x.family = Family(m)
          /\ y \in Line /\ y.kind = "TYPE" /\ y.family = Family(m)
      BY <2>3, LineFields
    <3>3. (\A j \in 1..Len(lines) : lines[j].family # Family(m)) /\ Below(lines, r)
      BY <2>1, <2>6, FamilyNew
    <3>4. r \in Nat /\ r = RankOf(Family(m))
      BY <2>3, Ranks
    <3> HIDE DEF m, x, y, r
    <3>5. \/ lines' = Append(Append(lines, x), y) /\ failures' = failures
          \/ lines' = Append(lines, x) /\ Fails
          \/ lines' = Append(lines, y) /\ Fails
          \/ lines' = lines /\ Fails
      BY <1>1, <3>1, <3>2, PutTwo
    <3>6. Append(lines, x) \in Seq(Line) /\ Grouped(Append(lines, x)) /\ Below(Append(lines, x), r)
      BY <1>1, <3>2, <3>3, <3>4, GrownGrouped
    <3>7. Append(lines, y) \in Seq(Line) /\ Grouped(Append(lines, y)) /\ Below(Append(lines, y), r)
      BY <1>1, <3>2, <3>3, <3>4, GrownGrouped
    <3>8. CASE lines' = Append(Append(lines, x), y) /\ failures' = failures
      <4> DEFINE s == Append(lines, x)
      <4>1. \A j \in 1..Len(s) : s[j].family = Family(m) => s[j].kind = "HELP"
        BY <1>1, <3>2, <3>3, Grown
      <4>2. /\ failures = 0 => Announced(s)
            /\ Has(s, "HELP", Family(m))
        BY <1>1, <3>2, GrownAnnounced, GrownHas
      <4>3. s \in Seq(Line) /\ Grouped(s) /\ Below(s, r)
        BY <3>6
      <4> HIDE DEF s
      <4>4. lines' = Append(s, y)
        BY <3>8 DEF s
      <4>5. lines' \in Seq(Line) /\ Grouped(lines') /\ Below(lines', r)
        BY <3>2, <3>4, <4>1, <4>3, <4>4, GrownGrouped
      <4>6. /\ failures = 0 => Announced(lines')
            /\ Has(lines', "HELP", Family(m)) /\ Has(lines', "TYPE", Family(m))
        BY <3>2, <4>2, <4>3, <4>4, GrownAnnounced, GrownHas
      <4> QED
        BY <2>1, <2>2, <2>4, <3>1, <3>8, <4>5, <4>6 DEF TextInv, m, r
    <3>9. CASE Fails /\ (lines' = Append(lines, x) \/ lines' = Append(lines, y) \/ lines' = lines)
      <4>1. failures' # 0
        BY <1>1, <3>9 DEF Fails
      <4>2. lines' \in Seq(Line) /\ Grouped(lines') /\ Below(lines', r)
        BY <1>1, <3>3, <3>6, <3>7, <3>9
      <4> QED
        BY <2>1, <2>2, <2>4, <3>1, <4>1, <4>2 DEF TextInv, m, r
    <3> QED
      BY <3>5, <3>8, <3>9
  <2> QED
    BY <2>5, <2>6
<1>7. CASE Sample
  <2> DEFINE m == e[k + 1]
             x == SampleLine(m, di + 1)
             y == SpoiledLine(m)
             r == Rank(m)
  <2>1. pc = "sample" /\ pc' = "sample" /\ e' = e /\ k' = k /\ cur_family' = cur_family
    BY <1>7 DEF Sample
  <2>2. k + 1 \in 1..Len(e) /\ k + 1 > 0
    BY <1>1, <2>1 DEF EntryInv
  <2>3. m \in Shown /\ di + 1 \in Nat
    BY <1>1, <2>2
  <2>4. Cur = k + 1 /\ Cur' = k + 1
    BY <2>1 DEF Cur
  <2>5. /\ cur_family = Family(m) /\ Below(lines, r)
        /\ failures = 0 => Has(lines, "HELP", cur_family) /\ Has(lines, "TYPE", cur_family)
    BY <2>2, <2>4 DEF TextInv
  <2>6. Put(<<x>>) \/ (Fails /\ lines' = Append(lines, y))
    BY <1>7 DEF Sample, SampleLine, SpoiledLine
  <2>7. /\ x \in Line /\ x.kind = "sample" /\ x.family = Family(m)
        /\ y \in Line /\ y.kind = "spoiled" /\ y.family = Family(m)
    BY <2>3, LineFields
  <2>8. r \in Nat /\ r = RankOf(Family(m))
    BY <2>3, Ranks
  <2> HIDE DEF m, x, y, r
  <2>9. \/ lines' = Append(lines, x) /\ failures' = failures
        \/ lines' = lines /\ Fails
        \/ lines' = Append(lines, y) /\ Fails
    BY <1>1, <2>6, <2>7, PutOne
  <2>10. CASE lines' = Append(lines, x) /\ failures' = failures
    <3>1. lines' \in Seq(Line) /\ Grouped(lines') /\ Below(lines', r)
      BY <1>1, <2>5, <2>7, <2>8, <2>10, GrownGrouped
    <3>2. failures = 0 => /\ Announced(lines')
                          /\ Has(lines', "HELP", cur_family) /\ Has(lines', "TYPE", cur_family)
      BY <1>1, <2>5, <2>7, <2>10, GrownAnnounced, GrownHas
    <3> QED
      BY <2>1, <2>2, <2>4, <2>5, <2>10, <3>1, <3>2 DEF TextInv, m, r
  <2>11. CASE Fails /\ (lines' = lines \/ lines' = Append(lines, y))
    <3>1. failures' # 0
      BY <1>1, <2>11 DEF Fails
    <3>2. Append(lines, y) \in Seq(Line) /\ Grouped(Append(lines, y)) /\ Below(Append(lines, y), r)
      BY <1>1, <2>5, <2>7, <2>8, GrownGrouped
    <3>3. lines' \in Seq(Line) /\ Grouped(lines') /\ Below(lines', r)
      BY <1>1, <2>5, <2>11, <3>2
    <3> QED
      BY <2>1, <2>2, <2>4, <2>5, <3>1, <3>3 DEF TextInv, m, r
  <2> QED
    BY <2>9, <2>10, <2>11
<1>8. CASE SampleEnd \/ PrintEnd
  <2>1. Cur' = Cur /\ lines' = lines /\ e' = e /\ cur_family' = cur_family /\ failures' = failures
    BY <1>8 DEF SampleEnd, PrintEnd, Cur
  <2> QED
    BY <2>1 DEF TextInv
<1>9. CASE UNCHANGED vars
  BY <1>9 DEF vars, TextInv, Cur
<1> QED
  BY <1>3, <1>4, <1>5, <1>6, <1>7, <1>8, <1>9 DEF Next, Done

\* The same entries with as many turns taken keep the samples.
LEMMA SampleKept ==
  ASSUME SampleInv, lines' = lines, e' = e,
         \A b \in 1..Len(e), d \in Nat : Printed(b, d)' <=> Printed(b, d),
         failures' = 0 => failures = 0
  PROVE  SampleInv'
  BY DEF SampleInv

\* Every step keeps the samples.
LEMMA SampleStep == EntryInv /\ TextInv /\ SampleInv /\ [Next]_vars => SampleInv'
<1> SUFFICES ASSUME EntryInv, TextInv, SampleInv, [Next]_vars PROVE SampleInv'
  OBVIOUS
<1>1. /\ k \in Nat /\ di \in Nat /\ failures \in Nat /\ e \in Seq(Shown) /\ Len(e) \in Nat
      /\ lines \in Seq(Line)
  BY ConstantsAssumption DEF EntryInv, TextInv
<1>2. \A b \in 1..Len(e) : e[b] \in Shown /\ e[b].ds_count \in Nat
  BY <1>1, Counted
<1>3. ASSUME lines' = <<>>, \A b \in 1..Len(e'), d \in Nat : ~Printed(b, d)'
      PROVE  SampleInv'
  <2>1. Len(lines') = 0
    BY <1>3
  <2> QED
    BY <1>3, <2>1 DEF SampleInv, Distinct
<1>4. CASE Scan
  <2>1. lines' = <<>> /\ pc' = "scan"
    BY <1>4 DEF Scan, EntryInv
  <2> QED
    BY <1>3, <2>1 DEF Printed
<1>5. CASE ScanFails
  <2>1. lines' = <<>> /\ pc' = "done" /\ k' = 0
    BY <1>5 DEF ScanFails, EntryInv
  <2> QED
    BY <1>3, <2>1 DEF Printed
<1>6. CASE Sort
  <2>1. lines' = <<>> /\ pc' = "print" /\ k' = 0
    BY <1>6 DEF Sort, EntryInv
  <2> QED
    BY <1>3, <2>1 DEF Printed
<1>7. CASE PrintEntry
  <2> DEFINE m == e[k + 1]
             x == HelpLine(m)
             y == TypeLine(m)
  <2>1. pc = "print" /\ k < Len(e) /\ pc' = "sample" /\ e' = e /\ k' = k /\ di' = 0
    BY <1>7 DEF PrintEntry
  <2>2. k + 1 \in 1..Len(e)
    BY <1>1, <2>1
  <2>3. \A b \in 1..Len(e), d \in Nat : Printed(b, d)' <=> Printed(b, d)
    BY <1>1, <1>2, <2>1 DEF Printed
  <2>4. CASE cur_family = Family(m)
    <3>1. lines' = lines /\ failures' = failures
      BY <1>7, <2>4 DEF PrintEntry
    <3> QED
      BY <2>1, <2>3, <3>1, SampleKept
  <2>5. CASE cur_family # Family(m)
    <3>1. Put(<<x, y>>)
      BY <1>7, <2>5 DEF PrintEntry, HelpLine, TypeLine
    <3>2. x \in Line /\ x.kind = "HELP" /\ y \in Line /\ y.kind = "TYPE"
      BY <1>2, <2>2, LineFields
    <3> HIDE DEF m, x, y
    <3>3. \/ lines' = Append(Append(lines, x), y) /\ failures' = failures
          \/ lines' = Append(lines, x) /\ Fails
          \/ lines' = Append(lines, y) /\ Fails
          \/ lines' = lines /\ Fails
      BY <1>1, <3>1, <3>2, PutTwo
    <3>4. failures' = 0 => failures = 0
      BY <1>1, <3>3 DEF Fails
    <3>5. ASSUME NEW s \in Seq(Line), NEW z \in Line, z.kind # "sample", Distinct(s, e),
                 \A j \in 1..Len(s) : s[j].kind = "sample" => \E i \in 1..Len(lines) : s[j] = lines[i],
                 \A i \in 1..Len(lines) : \E j \in 1..Len(s) : s[j] = lines[i]
          PROVE  LET t == Append(s, z) IN
                   /\ t \in Seq(Line) /\ Distinct(t, e)
                   /\ \A j \in 1..Len(t) : t[j].kind = "sample" => \E i \in 1..Len(lines) : t[j] = lines[i]
                   /\ \A i \in 1..Len(lines) : \E j \in 1..Len(t) : t[j] = lines[i]
      <4> DEFINE t == Append(s, z)
      <4>1. /\ t \in Seq(Line) /\ Len(s) \in Nat /\ Len(t) = Len(s) + 1 /\ t[Len(s) + 1] = z
            /\ \A j \in 1..Len(s) : t[j] = s[j]
            /\ \A j \in 1..Len(t) : j \in 1..Len(s) \/ j = Len(s) + 1
        BY Grown
      <4>2. Distinct(t, e)
        BY <3>5, GrownDistinct
      <4> HIDE DEF t
      <4>3. \A j \in 1..Len(t) : t[j].kind = "sample" => \E i \in 1..Len(lines) : t[j] = lines[i]
        BY <3>5, <4>1, SMTT(30)
      <4>4. \A i \in 1..Len(lines) : \E j \in 1..Len(t) : t[j] = lines[i]
        BY <3>5, <4>1
      <4> QED
        BY <4>1, <4>2, <4>3, <4>4 DEF t
    <3>6. Distinct(lines, e)
      BY DEF SampleInv
    <3>7. /\ Distinct(lines', e)
          /\ \A j \in 1..Len(lines') : lines'[j].kind = "sample" => \E i \in 1..Len(lines) : lines'[j] = lines[i]
          /\ \A i \in 1..Len(lines) : \E j \in 1..Len(lines') : lines'[j] = lines[i]
      <4>1. CASE lines' = Append(lines, y)
        BY <1>1, <3>2, <3>5, <3>6, <4>1
      <4>2. CASE lines' = Append(lines, x)
        BY <1>1, <3>2, <3>5, <3>6, <4>2
      <4>3. CASE lines' = Append(Append(lines, x), y)
        <5> DEFINE s == Append(lines, x)
        <5>1. /\ s \in Seq(Line) /\ Distinct(s, e)
              /\ \A j \in 1..Len(s) : s[j].kind = "sample" => \E i \in 1..Len(lines) : s[j] = lines[i]
              /\ \A i \in 1..Len(lines) : \E j \in 1..Len(s) : s[j] = lines[i]
          BY <1>1, <3>2, <3>5, <3>6
        <5>2. lines' = Append(s, y)
          BY <4>3
        <5> HIDE DEF s
        <5> QED
          BY <3>2, <3>5, <5>1, <5>2
      <4>4. CASE lines' = lines
        BY <3>6, <4>4
      <4> QED
        BY <3>3, <4>1, <4>2, <4>3, <4>4
    <3>8. \A j \in 1..Len(lines') : lines'[j].kind = "sample" =>
             \E b \in 1..Len(e), d \in Nat : Printed(b, d) /\ lines'[j] = SampleLine(e[b], d)
      BY <3>7 DEF SampleInv
    <3>9. failures = 0 => \A b \in 1..Len(e), d \in Nat : Printed(b, d) =>
                             \E j \in 1..Len(lines') : lines'[j] = SampleLine(e[b], d)
      BY <3>7 DEF SampleInv
    <3> QED
      BY <2>1, <2>3, <3>4, <3>7, <3>8, <3>9 DEF SampleInv
  <2> QED
    BY <2>4, <2>5
<1>8. CASE SampleEnd
  <2>1. /\ pc = "sample" /\ pc' = "print" /\ k' = k + 1 /\ di >= e[k + 1].ds_count
        /\ e' = e /\ lines' = lines /\ failures' = failures /\ k < Len(e)
    BY <1>8 DEF SampleEnd, EntryInv
  <2>2. k + 1 \in 1..Len(e)
    BY <1>1, <2>1
  <2>3. ASSUME NEW b \in 1..Len(e), NEW d \in Nat PROVE Printed(b, d)' <=> Printed(b, d)
    <3>1. d \in 1..e[b].ds_count /\ b = k + 1 => d <= di
      BY <1>1, <1>2, <2>1
    <3> QED
      BY <1>1, <2>1, <3>1 DEF Printed
  <2> QED
    BY <2>1, <2>3, SampleKept
<1>9. CASE PrintEnd
  <2>1. /\ pc = "print" /\ pc' = "done" /\ k' = k /\ e' = e /\ lines' = lines /\ failures' = failures
    BY <1>9 DEF PrintEnd
  <2>2. \A b \in 1..Len(e), d \in Nat : Printed(b, d)' <=> Printed(b, d)
    BY <2>1 DEF Printed
  <2> QED
    BY <2>1, <2>2, SampleKept
<1>10. CASE UNCHANGED vars
  <2>1. e' = e /\ lines' = lines /\ failures' = failures /\ k' = k /\ di' = di /\ pc' = pc
    BY <1>10 DEF vars
  <2>2. \A b \in 1..Len(e), d \in Nat : Printed(b, d)' <=> Printed(b, d)
    BY <2>1 DEF Printed
  <2> QED
    BY <2>1, <2>2, SampleKept
<1>11. CASE Sample
  <2> DEFINE m == e[k + 1]
             c == di + 1
             x == SampleLine(m, c)
             y == SpoiledLine(m)
  <2>1. /\ pc = "sample" /\ pc' = "sample" /\ e' = e /\ k' = k /\ di' = c /\ di < m.ds_count /\ k < Len(e)
    BY <1>11 DEF Sample, EntryInv
  <2>2. k + 1 \in 1..Len(e)
    BY <1>1, <2>1
  <2>3. m \in Shown /\ m.ds_count \in Nat
    BY <1>2, <2>2
  <2>4. c \in Nat /\ c \in 1..m.ds_count
    BY <1>1, <2>1, <2>3
  <2>5. Put(<<x>>) \/ (Fails /\ lines' = Append(lines, y))
    BY <1>11 DEF Sample, SampleLine, SpoiledLine
  <2>6. /\ x \in Line /\ x.kind = "sample" /\ x.family = Family(m) /\ x.labels = Labels(m, c)
        /\ y \in Line /\ y.kind = "spoiled"
    BY <2>3, <2>4, LineFields
  <2>7. ASSUME NEW b \in 1..Len(e), NEW d \in Nat
        PROVE  Printed(b, d)' <=> Printed(b, d) \/ (b = k + 1 /\ d = c)
    <3>1. d <= c <=> d <= di \/ d = c
      BY <1>1
    <3>2. b = k + 1 => ~(b <= k)
      BY <1>1
    <3>3. b = k + 1 /\ d = c => d \in 1..e[b].ds_count
      BY <2>4
    <3> HIDE DEF c
    <3> QED
      BY <2>1, <3>1, <3>2, <3>3 DEF Printed
  <2>8. ~Printed(k + 1, c)
    BY <1>1, <2>1 DEF Printed
  <2>9. ASSUME NEW j \in 1..Len(lines), lines[j].kind = "sample",
               lines[j].family = x.family, lines[j].labels = x.labels
        PROVE  Repeated(e, x.family, x.labels)
    <3>1. PICK b \in 1..Len(e), d \in Nat : Printed(b, d) /\ lines[j] = SampleLine(e[b], d)
      BY <2>9 DEF SampleInv
    <3>2. e[b] \in Shown /\ d \in 1..e[b].ds_count
      BY <1>2, <3>1 DEF Printed
    <3>3. Family(e[b]) = Family(m) /\ Labels(e[b], d) = Labels(m, c)
      BY <2>6, <2>9, <3>1, <3>2, LineFields
    <3>4. e[b] = m /\ d = c
      BY <2>3, <2>4, <3>2, <3>3, SeriesTold
    <3>5. b # k + 1
      BY <2>8, <3>1, <3>4
    <3> HIDE DEF x, c
    <3> QED
      BY <2>2, <2>4, <2>6, <3>4, <3>5 DEF Repeated
  <2> HIDE DEF x, y, c
  <2>10. \/ lines' = Append(lines, x) /\ failures' = failures
         \/ lines' = lines /\ Fails
         \/ lines' = Append(lines, y) /\ Fails
    BY <1>1, <2>5, <2>6, PutOne
  <2>11. Distinct(lines, e)
    BY DEF SampleInv
  <2>12. ASSUME NEW j \in 1..Len(lines), lines[j].kind = "sample"
         PROVE  \E b \in 1..Len(e), d \in Nat : Printed(b, d)' /\ lines[j] = SampleLine(e[b], d)
    <3>1. PICK b \in 1..Len(e), d \in Nat : Printed(b, d) /\ lines[j] = SampleLine(e[b], d)
      BY <2>12 DEF SampleInv
    <3> QED
      BY <2>7, <3>1
  <2>13. CASE lines' = lines /\ Fails
    <3>1. failures' # 0
      BY <1>1, <2>13 DEF Fails
    <3> QED
      BY <2>1, <2>11, <2>12, <2>13, <3>1 DEF SampleInv
  <2>14. CASE lines' = Append(lines, y) /\ Fails
    <3>1. failures' # 0
      BY <1>1, <2>14 DEF Fails
    <3>2. Distinct(lines', e)
      BY <1>1, <2>6, <2>11, <2>14, GrownDistinct
    <3>3. /\ Len(lines') = Len(lines) + 1 /\ lines'[Len(lines) + 1] = y
          /\ \A j \in 1..Len(lines) : lines'[j] = lines[j]
          /\ \A j \in 1..Len(lines') : j \in 1..Len(lines) \/ j = Len(lines) + 1
      BY <1>1, <2>6, <2>14, Grown
    <3>4. \A j \in 1..Len(lines') : lines'[j].kind = "sample" =>
             \E b \in 1..Len(e), d \in Nat : Printed(b, d)' /\ lines'[j] = SampleLine(e[b], d)
      BY <2>6, <2>12, <3>3
    <3> QED
      BY <2>1, <3>1, <3>2, <3>4 DEF SampleInv
  <2>15. CASE lines' = Append(lines, x) /\ failures' = failures
    <3>1. Distinct(lines', e)
      BY <1>1, <2>6, <2>9, <2>11, <2>15, GrownDistinct
    <3>2. /\ Len(lines') = Len(lines) + 1 /\ lines'[Len(lines) + 1] = x /\ Len(lines) \in Nat
          /\ \A j \in 1..Len(lines) : lines'[j] = lines[j]
          /\ \A j \in 1..Len(lines') : j \in 1..Len(lines) \/ j = Len(lines) + 1
      BY <1>1, <2>6, <2>15, Grown
    <3>3. PICK n \in 1..Len(e), p \in Nat :
             n = k + 1 /\ p = c /\ Printed(n, p)' /\ x = SampleLine(e[n], p)
      <4>1. \E n \in 1..Len(e), p \in Nat : n = k + 1 /\ p = c
        BY <2>2, <2>4
      <4> QED
        BY <2>7, <4>1 DEF x
    <3>4. ASSUME NEW j \in 1..Len(lines'), lines'[j].kind = "sample"
          PROVE  \E b \in 1..Len(e), d \in Nat : Printed(b, d)' /\ lines'[j] = SampleLine(e[b], d)
      <4>1. CASE j \in 1..Len(lines)
        BY <2>12, <3>2, <3>4, <4>1
      <4>2. CASE j = Len(lines) + 1
        BY <3>2, <3>3, <4>2
      <4> QED
        BY <3>2, <4>1, <4>2
    <3>5. ASSUME failures = 0, NEW b \in 1..Len(e), NEW d \in Nat, Printed(b, d)'
          PROVE  \E j \in 1..Len(lines') : lines'[j] = SampleLine(e[b], d)
      <4>1. CASE Printed(b, d)
        <5>1. PICK j \in 1..Len(lines) : lines[j] = SampleLine(e[b], d)
          BY <3>5, <4>1 DEF SampleInv
        <5>2. j \in 1..Len(lines') /\ lines'[j] = lines[j]
          BY <3>2
        <5> QED
          BY <5>1, <5>2
      <4>2. CASE b = k + 1 /\ d = c
        <5>1. Len(lines) + 1 \in 1..Len(lines')
          BY <3>2
        <5> QED
          BY <3>2, <3>3, <4>2, <5>1
      <4> QED
        BY <2>7, <3>5, <4>1, <4>2
    <3> QED
      BY <2>1, <2>15, <3>1, <3>4, <3>5 DEF SampleInv
  <2> QED
    BY <2>10, <2>13, <2>14, <2>15
<1> QED
  BY <1>4, <1>5, <1>6, <1>7, <1>8, <1>9, <1>10, <1>11 DEF Next, Done

-----------------------------------------------------------------------------
(* Theorems.                                                               *)

\* The invariant, for every snapshot of the readers' metrics and every failure.
THEOREM Invariant == Spec => []IInv
<1>1. IInv /\ [Next]_vars => IInv'
  BY EntryStep, TextStep, SampleStep DEF IInv
<1> QED
  BY <1>1, InitIs, PTL DEF Spec

\* The indices of render_to_dstring stay within the snapshot, the entries and the
\* data sources of the entry being printed.
THEOREM TypeCorrect == Spec => []TypeOK
<1>1. IInv => TypeOK
  <2> SUFFICES ASSUME IInv PROVE TypeOK
    OBVIOUS
  <2>1. /\ ms \in Seq(Emitted) /\ e \in Seq(Shown) /\ k \in Nat /\ failures \in 0..MaxFailures
        /\ pc \in {"scan", "print", "sample", "done"} /\ Len(ms) \in Nat /\ Len(e) \in Nat
    BY DEF IInv, EntryInv
  <2>2. \A j \in 1..Len(e) : e[j] \in Emitted /\ find_rule(e[j]) # {}
    BY <2>1 DEF Shown
  <2>3. k <= Len(ms) /\ (pc # "scan" => k <= Len(e))
    <3>1. pc = "scan" => k <= Len(ms)
      BY DEF IInv, EntryInv
    <3>2. pc # "scan" => k <= Len(e) /\ Len(e) <= Len(ms)
      BY DEF IInv, EntryInv
    <3> QED
      BY <2>1, <3>1, <3>2
  <2>4. pc = "sample" => di <= e[k + 1].ds_count
    BY DEF IInv, EntryInv
  <2> QED
    BY <2>1, <2>2, <2>3, <2>4 DEF TypeOK
<1> QED
  BY <1>1, Invariant, PTL

\* render_to_dstring prints the lines of a family in one group, its HELP and TYPE
\* once and first, whatever the order of the snapshot.
THEOREM GroupsRight == Spec => []FamiliesAnnounced
<1>1. IInv => FamiliesAnnounced
  <2> SUFFICES ASSUME IInv PROVE FamiliesAnnounced
    OBVIOUS
  <2>1. lines \in Seq(Line) /\ Len(lines) \in Nat /\ Grouped(lines) /\ (failures = 0 => Announced(lines))
    BY DEF IInv, TextInv
  <2>2. \A j \in 1..Len(lines) : /\ RankOf(lines[j].family) \in Nat
                                 /\ FamilyOrder[RankOf(lines[j].family)] = lines[j].family
    BY <2>1, LineFamily
  <2>3. ASSUME NEW h \in 1..Len(lines), NEW j \in 1..Len(lines), h < j,
               lines[h].family = lines[j].family, NEW l \in h..j
        PROVE  lines[l].family = lines[j].family
    <3>1. l \in 1..Len(lines)
      BY <2>1
    <3>2. CASE l = h \/ l = j
      BY <2>3, <3>2
    <3>3. CASE l # h /\ l # j
      <4>1. h < l /\ l < j
        BY <2>3, <3>3
      <4>2. /\ RankOf(lines[h].family) <= RankOf(lines[l].family)
            /\ RankOf(lines[l].family) <= RankOf(lines[j].family)
        BY <2>1, <3>1, <4>1 DEF Grouped
      <4>3. RankOf(lines[l].family) = RankOf(lines[j].family)
        BY <2>2, <2>3, <3>1, <4>2
      <4> QED
        BY <2>2, <3>1, <4>3
    <3> QED
      BY <3>2, <3>3
  <2>4. ASSUME NEW h \in 1..Len(lines), NEW j \in 1..Len(lines), h < j,
               lines[h].family = lines[j].family
        PROVE  /\ lines[j].kind # "HELP"
               /\ lines[j].kind = "TYPE" => lines[h].kind = "HELP"
    BY <2>1, <2>4 DEF Grouped
  <2>5. ASSUME failures = 0
        PROVE  \A j \in Samples : \A kind \in {"HELP", "TYPE"} :
                 \E h \in 1..j-1 : lines[h].kind = kind /\ lines[h].family = lines[j].family
    BY <2>1, <2>5 DEF Announced, Samples
  <2> QED
    BY <2>3, <2>4, <2>5 DEF FamiliesAnnounced
<1> QED
  BY <1>1, Invariant, PTL

\* The TYPE of a family fits every data source printed under it.
THEOREM TypesFit == Spec => []TypesRight
<1>1. IInv => TypesRight
  <2> SUFFICES ASSUME IInv, NEW j \in Samples, NEW h \in 1..Len(lines),
                      lines[h].kind = "TYPE", lines[h].family = lines[j].family
               PROVE  lines[h].type = [GAUGE |-> "gauge", DERIVE |-> "counter"]
                                         [types_lookup(lines[j].type)[lines[j].ds]]
    BY DEF TypesRight
  <2>1. lines[h] \in Line /\ j \in 1..Len(lines) /\ lines[j].kind = "sample" /\ e \in Seq(Shown)
    BY DEF IInv, TextInv, EntryInv, Samples
  <2>2. PICK m \in Shown : lines[h] = TypeLine(m)
    BY <2>1, LineFamily
  <2>3. PICK b \in 1..Len(e), d \in Nat : Printed(b, d) /\ lines[j] = SampleLine(e[b], d)
    BY <2>1 DEF IInv, SampleInv
  <2>4. e[b] \in Shown /\ d \in 1..e[b].ds_count
    BY <2>1, <2>3 DEF Printed
  <2>5. /\ lines[h].type = prom_type_for(m.type) /\ lines[h].family = Family(m)
        /\ lines[j].type = e[b].type /\ lines[j].ds = d /\ lines[j].family = Family(e[b])
    BY <2>2, <2>3, <2>4, LineFields
  <2>6. m.type = e[b].type
    <3>1. Family(m) = Family(e[b])
      BY <2>5
    <3> QED
      BY <2>4, <3>1, SameFamily
  <2>7. d \in 1..Len(types_lookup(e[b].type))
    BY <2>4, Counted
  <2>8. prom_type_for(e[b].type) = [GAUGE |-> "gauge", DERIVE |-> "counter"][types_lookup(e[b].type)[d]]
    BY <2>7, KindShown
  <2> QED
    BY <2>5, <2>6, <2>8
<1> QED
  BY <1>1, Invariant, PTL

\* A series that a scrape shows twice was staged twice by prom_snapshot_add: the
\* labels that render_to_dstring prints tell apart all that the readers emit.
THEOREM SeriesTell == Spec => []SeriesDistinct
<1>1. IInv => SeriesDistinct
  <2> SUFFICES ASSUME IInv, NEW i \in Samples, NEW j \in Samples, i # j,
                      lines[i].family = lines[j].family, lines[i].labels = lines[j].labels
               PROVE  \E a, b \in 1..Len(ms) :
                        /\ a # b /\ ms[a] = ms[b] /\ find_rule(ms[a]) # {}
                        /\ Family(ms[a]) = lines[i].family
                        /\ \E d \in 1..ms[a].ds_count : Labels(ms[a], d) = lines[i].labels
    BY DEF SeriesDistinct
  <2>1. Distinct(lines, e) /\ Doubles(e, ms) /\ e \in Seq(Shown)
    BY DEF IInv, SampleInv, EntryInv
  <2>2. Repeated(e, lines[i].family, lines[i].labels)
    BY <2>1 DEF Distinct, Samples
  <2>3. PICK x, y \in 1..Len(e) :
          /\ x # y /\ e[x] = e[y] /\ Family(e[x]) = lines[i].family
          /\ \E d \in 1..e[x].ds_count : Labels(e[x], d) = lines[i].labels
    BY <2>2 DEF Repeated
  <2>4. PICK a, b \in 1..Len(ms) : a # b /\ ms[a] = e[x] /\ ms[b] = e[x]
    BY <2>1, <2>3 DEF Doubles
  <2>5. find_rule(ms[a]) # {}
    BY <2>1, <2>4 DEF Shown
  <2> QED
    BY <2>3, <2>4, <2>5
<1> QED
  BY <1>1, Invariant, PTL

\* A scrape without a failed allocation shows every data source that has a rule.
THEOREM NothingMissing == Spec => []AllShown
<1>1. IInv => AllShown
  <2> SUFFICES ASSUME IInv, pc = "done", failures = 0, NEW j \in 1..Len(ms),
                      NEW d \in 1..ms[j].ds_count, find_rule(ms[j]) # {}
               PROVE  \E l \in Samples : /\ lines[l].family = Family(ms[j])
                                         /\ lines[l].labels = Labels(ms[j], d)
    BY DEF AllShown
  <2>1. ms \in Seq(Emitted) /\ Holds(Len(ms)) /\ k = Len(e)
    BY DEF IInv, EntryInv
  <2>2. ms[j] \in Shown
    BY <2>1 DEF Shown
  <2>3. PICK b \in 1..Len(e) : e[b] = ms[j]
    BY <2>1, <2>2 DEF Holds
  <2>4. d \in Nat /\ d \in 1..e[b].ds_count /\ b <= k
    BY <2>1, <2>2, <2>3, Counted
  <2>5. Printed(b, d)
    BY <2>4 DEF Printed
  <2>6. PICK l \in 1..Len(lines) : lines[l] = SampleLine(e[b], d)
    BY <2>4, <2>5 DEF IInv, SampleInv
  <2>7. lines[l].kind = "sample" /\ lines[l].family = Family(ms[j]) /\ lines[l].labels = Labels(ms[j], d)
    BY <2>2, <2>3, <2>4, <2>6, LineFields
  <2> QED
    BY <2>7 DEF Samples
<1> QED
  BY <1>1, Invariant, PTL
=============================================================================
