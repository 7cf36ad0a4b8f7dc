------------------------ MODULE SensorSimulatorProofs ------------------------
(***************************************************************************)
(* Proofs about SensorSimulator, for any requests, bodies and environments: *)
(* types, that the status shows the newest readings, and how far the        *)
(* sensors follow the configuration.                                       *)
(***************************************************************************)
EXTENDS SensorSimulator, SequenceTheorems, TLAPS

-----------------------------------------------------------------------------
(* SEQUENCES OF UPDATES                                                   *)

Names == {"wl1", "pzLevel", "wl2", "sm", "pzFactor"}
Has(s, u) == \E i \in 1..Len(s) : s[i] = u

LEMMA HasInConcat ==
  ASSUME NEW s \in Seq(Names), NEW t \in Seq(Names), NEW u
  PROVE  s \o t \in Seq(Names) /\ (Has(s \o t, u) <=> Has(s, u) \/ Has(t, u))
<1>1. /\ s \o t \in Seq(Names) /\ Len(s \o t) = Len(s) + Len(t) /\ Len(s) \in Nat /\ Len(t) \in Nat
      /\ \A i \in 1..Len(s) + Len(t) : (s \o t)[i] = IF i <= Len(s) THEN s[i] ELSE t[i - Len(s)]
  OBVIOUS
<1>2. ASSUME NEW i \in 1..Len(t) PROVE (s \o t)[i + Len(s)] = t[i]
  <2>1. i + Len(s) \in 1..Len(s) + Len(t) /\ ~(i + Len(s) <= Len(s)) /\ (i + Len(s)) - Len(s) = i
    BY <1>1
  <2> QED BY <1>1, <2>1
<1>3. Has(t, u) => Has(s \o t, u)
  <2> SUFFICES ASSUME NEW i \in 1..Len(t), t[i] = u PROVE Has(s \o t, u)
    BY DEF Has
  <2>1. i + Len(s) \in 1..Len(s \o t)
    BY <1>1
  <2> QED BY <1>2, <2>1 DEF Has
<1>4. Has(s, u) => Has(s \o t, u)
  BY <1>1 DEF Has
<1>5. Has(s \o t, u) => Has(s, u) \/ Has(t, u)
  <2> SUFFICES ASSUME NEW i \in 1..Len(s) + Len(t), (s \o t)[i] = u PROVE Has(s, u) \/ Has(t, u)
    BY <1>1 DEF Has
  <2>1. CASE i <= Len(s)
    BY <1>1, <2>1 DEF Has
  <2>2. CASE ~(i <= Len(s))
    <3>1. i - Len(s) \in 1..Len(t) /\ t[i - Len(s)] = u
      BY <1>1, <2>2
    <3> QED BY <3>1 DEF Has
  <2> QED BY <2>1, <2>2
<1> QED BY <1>1, <1>3, <1>4, <1>5

LEMMA HasInTail ==
  ASSUME NEW s \in Seq(Names), s # <<>>, NEW u
  PROVE  /\ Head(s) \in Names /\ Tail(s) \in Seq(Names)
         /\ Has(s, u) <=> Head(s) = u \/ Has(Tail(s), u)
<1>1. /\ Len(s) \in Nat \ {0} /\ Head(s) = s[1] /\ Tail(s) \in Seq(Names) /\ Len(Tail(s)) = Len(s) - 1
      /\ \A i \in 1..Len(s) - 1 : Tail(s)[i] = s[i + 1]
  OBVIOUS
<1>2. Head(s) \in Names
  BY <1>1
<1>3. Has(Tail(s), u) => Has(s, u)
  BY <1>1 DEF Has
<1>4. Has(s, u) => Head(s) = u \/ Has(Tail(s), u)
  <2> SUFFICES ASSUME NEW i \in 1..Len(s), s[i] = u, i # 1 PROVE Has(Tail(s), u)
    BY <1>1 DEF Has
  <2>1. i - 1 \in 1..Len(s) - 1 /\ Tail(s)[i - 1] = s[i]
    BY <1>1
  <2> QED BY <1>1, <2>1 DEF Has
<1>5. Head(s) = u => Has(s, u)
  BY <1>1 DEF Has
<1> QED BY <1>1, <1>2, <1>3, <1>4, <1>5

LEMMA HasInShort ==
  ASSUME NEW a \in Names, NEW b \in Names, NEW u
  PROVE  /\ <<>> \in Seq(Names) /\ <<a>> \in Seq(Names) /\ <<a, b>> \in Seq(Names)
         /\ ~Has(<<>>, u)
         /\ Has(<<a>>, u) <=> u = a
         /\ Has(<<a, b>>, u) <=> u \in {a, b}
<1>1. Len(<<a, b>>) = 2 /\ <<a, b>>[1] = a /\ <<a, b>>[2] = b /\ Len(<<a>>) = 1 /\ <<a>>[1] = a
  OBVIOUS
<1> QED BY <1>1 DEF Has

(* What stands in the last place of a concatenation, and of a tail.        *)
OnlyLast(s, u) == \A i \in 1..Len(s) : s[i] = u => i = Len(s)

LEMMA OnlyLastInConcat ==
  ASSUME NEW s \in Seq(Names), NEW t \in Seq(Names), NEW u, ~Has(s, u), OnlyLast(t, u)
  PROVE  OnlyLast(s \o t, u)
<1>1. /\ Len(s \o t) = Len(s) + Len(t) /\ Len(s) \in Nat /\ Len(t) \in Nat
      /\ \A i \in 1..Len(s) + Len(t) : (s \o t)[i] = IF i <= Len(s) THEN s[i] ELSE t[i - Len(s)]
  OBVIOUS
<1> SUFFICES ASSUME NEW i \in 1..Len(s) + Len(t), (s \o t)[i] = u
             PROVE  i = Len(s) + Len(t)
  BY <1>1 DEF OnlyLast
<1>2. ~(i <= Len(s))
  BY <1>1 DEF Has
<1>3. i - Len(s) \in 1..Len(t) /\ t[i - Len(s)] = u
  BY <1>1, <1>2
<1>4. i - Len(s) = Len(t)
  BY <1>3 DEF OnlyLast
<1> QED BY <1>1, <1>4

LEMMA OnlyLastInTail ==
  ASSUME NEW s \in Seq(Names), s # <<>>, NEW u, OnlyLast(s, u)
  PROVE  OnlyLast(Tail(s), u) /\ (Head(s) = u => Tail(s) = <<>>)
<1>1. /\ Len(s) \in Nat \ {0} /\ Head(s) = s[1] /\ Tail(s) \in Seq(Names) /\ Len(Tail(s)) = Len(s) - 1
      /\ \A i \in 1..Len(s) - 1 : Tail(s)[i] = s[i + 1]
  OBVIOUS
<1>2. OnlyLast(Tail(s), u)
  <2> SUFFICES ASSUME NEW i \in 1..Len(s) - 1, Tail(s)[i] = u PROVE i = Len(s) - 1
    BY <1>1 DEF OnlyLast
  <2>1. i + 1 \in 1..Len(s) /\ s[i + 1] = u
    BY <1>1
  <2>2. i + 1 = Len(s)
    BY <2>1 DEF OnlyLast
  <2>3. i \in Int /\ Len(s) \in Int
    BY <1>1
  <2> QED BY <2>2, <2>3
<1>3. Head(s) = u => Len(Tail(s)) = 0
  <2>1. Len(s) \in Nat \ {0} /\ Head(s) = s[1] /\ Len(Tail(s)) = Len(s) - 1
    BY <1>1
  <2>2. 1 \in 1..Len(s)
    BY <2>1
  <2>3. s[1] = u => 1 = Len(s)
    BY <2>2 DEF OnlyLast
  <2> QED BY <2>1, <2>3
<1>4. Tail(s) = <<>> \/ Len(Tail(s)) # 0
  BY <1>1, EmptySeq
<1> QED BY <1>2, <1>3, <1>4

LEMMA OnlyLastInShort ==
  ASSUME NEW a \in Names, NEW b \in Names, NEW u, a # u
  PROVE  OnlyLast(<<>>, u) /\ OnlyLast(<<a, b>>, u)
<1>1. Len(<<a, b>>) = 2 /\ <<a, b>>[1] = a /\ <<a, b>>[2] = b /\ Len(<<>>) = 0
  OBVIOUS
<1> QED BY <1>1 DEF OnlyLast

(* Which updates a changed configuration asks for: those of the fields that *)
(* have changed and are set; and the piezometers' factor comes last.       *)
FieldOf(u) == CASE u \in {"wl1", "pzLevel"} -> "up" [] u = "wl2" -> "down" [] u \in {"sm", "pzFactor"} -> "perm"

LEMMA UpdatesAsked ==
  ASSUME NEW old \in Configs, NEW new \in Configs
  PROVE  /\ Updates(old, new) \in Seq(Names)
         /\ \A u \in Names : Has(Updates(old, new), u) <=> new[FieldOf(u)] >= 0 /\ new[FieldOf(u)] # old[FieldOf(u)]
         /\ OnlyLast(Updates(old, new), "pzFactor")
<1> DEFINE Asks(f) == new[f] >= 0 /\ new[f] # old[f]
           a == IF Asks("up") THEN <<"wl1", "pzLevel">> ELSE <<>>
           b == IF Asks("down") THEN <<"wl2">> ELSE <<>>
           c == IF Asks("perm") THEN <<"sm", "pzFactor">> ELSE <<>>
<1>1. Updates(old, new) = (a \o b) \o c
  BY DEF Updates, Changed
<1>2. a \in Seq(Names) /\ \A u : Has(a, u) <=> Asks("up") /\ u \in {"wl1", "pzLevel"}
  BY HasInShort DEF Names
<1>3. b \in Seq(Names) /\ \A u : Has(b, u) <=> Asks("down") /\ u = "wl2"
  BY HasInShort DEF Names
<1>4. c \in Seq(Names) /\ \A u : Has(c, u) <=> Asks("perm") /\ u \in {"sm", "pzFactor"}
  BY HasInShort DEF Names
<1>7. OnlyLast(c, "pzFactor")
  <2>1. "sm" \in Names /\ "pzFactor" \in Names /\ "sm" # "pzFactor"
    BY DEF Names
  <2> QED BY <2>1, OnlyLastInShort
<1> HIDE DEF a, b, c, Asks
<1>5. (a \o b) \o c \in Seq(Names) /\ \A u : Has((a \o b) \o c, u) <=> Has(a, u) \/ Has(b, u) \/ Has(c, u)
  BY <1>2, <1>3, <1>4, HasInConcat
<1>6. \A u \in Names : Has((a \o b) \o c, u) <=> Asks(FieldOf(u))
  BY <1>2, <1>3, <1>4, <1>5 DEF FieldOf, Names
<1>8. OnlyLast((a \o b) \o c, "pzFactor")
  <2>1. a \o b \in Seq(Names) /\ ~Has(a \o b, "pzFactor")
    BY <1>2, <1>3, HasInConcat
  <2> QED BY <1>4, <1>7, <2>1, OnlyLastInConcat
<1> QED BY <1>1, <1>5, <1>6, <1>8 DEF Asks

-----------------------------------------------------------------------------
(* BASE VALUES                                                            *)

Bases == [wl1 : Nat, wl2 : Nat, sm : Nat, pzLevel : Nat, pzFactors : Seq(Nat)]

LEMMA ConfigFields ==
  ASSUME NEW c \in Configs
  PROVE  /\ c["up"] \in Int /\ c["down"] \in Int /\ c["perm"] \in Int /\ c["speed"] \in Int
         /\ c.up = c["up"] /\ c.down = c["down"] /\ c.perm = c["perm"]
BY DEF Configs

LEMMA ScaledType ==
  ASSUME NEW s \in Seq(Nat), NEW p \in Nat
  PROVE  Scaled(s, p) \in Seq(Nat)
<1>1. Append(s, p) \in Seq(Nat)
  OBVIOUS
<1> QED BY <1>1 DEF Scaled

(* What an update sets, and that it leaves the rest.                       *)
LEMMA UpdatedBase ==
  ASSUME NEW b \in Bases, NEW c \in Configs, NEW u \in Names, c[FieldOf(u)] >= 0
  PROVE  LET a == Updated(b, u, c)
         IN /\ a \in Bases
            /\ a.wl1 = IF u = "wl1" THEN c["up"] ELSE b.wl1
            /\ a.pzLevel = IF u = "pzLevel" THEN c["up"] ELSE b.pzLevel
            /\ a.wl2 = IF u = "wl2" THEN c["down"] ELSE b.wl2
            /\ a.sm = IF u = "sm" THEN c["perm"] ELSE b.sm
            /\ u = "pzLevel" => a.pzFactors = <<>>
            /\ u = "pzFactor" => a.pzFactors = Scaled(b.pzFactors, c["perm"])
            /\ u \notin {"pzLevel", "pzFactor"} => a.pzFactors = b.pzFactors
<1>1. CASE u = "wl1"
  <2>1. Updated(b, u, c) = [b EXCEPT !.wl1 = c.up] /\ c["up"] \in Nat
    BY <1>1, ConfigFields DEF Updated, FieldOf
  <2> QED BY <1>1, <2>1, ConfigFields DEF Bases
<1>2. CASE u = "pzLevel"
  <2>1. Updated(b, u, c) = [b EXCEPT !.pzLevel = c.up, !.pzFactors = <<>>] /\ c["up"] \in Nat
    BY <1>2, ConfigFields DEF Updated, FieldOf
  <2>2. PICK none \in Seq(Nat) : none = <<>>
    BY EmptySeq
  <2>3. Updated(b, u, c) = [b EXCEPT !.pzLevel = c.up, !.pzFactors = none]
    BY <2>1, <2>2
  <2> QED BY <1>2, <2>1, <2>3, ConfigFields DEF Bases
<1>3. CASE u = "wl2"
  <2>1. Updated(b, u, c) = [b EXCEPT !.wl2 = c.down] /\ c["down"] \in Nat
    BY <1>3, ConfigFields DEF Updated, FieldOf
  <2> QED BY <1>3, <2>1, ConfigFields DEF Bases
<1>4. CASE u = "sm"
  <2>1. Updated(b, u, c) = [b EXCEPT !.sm = c.perm] /\ c["perm"] \in Nat
    BY <1>4, ConfigFields DEF Updated, FieldOf
  <2> QED BY <1>4, <2>1, ConfigFields DEF Bases
<1>5. CASE u = "pzFactor"
  <2>1. c["perm"] \in Nat /\ c.perm \in Nat
    BY <1>5, ConfigFields DEF FieldOf
  <2>2. PICK scaled \in Seq(Nat) : scaled = Scaled(b.pzFactors, c["perm"])
    BY <2>1, ScaledType DEF Bases
  <2>3. Updated(b, u, c) = [b EXCEPT !.pzFactors = scaled]
    BY <1>5, <2>2, ConfigFields DEF Updated
  <2> QED BY <1>5, <2>2, <2>3 DEF Bases
<1> QED BY <1>1, <1>2, <1>3, <1>4, <1>5 DEF Names

(* The value that a configuration, or else the built-in one, gives a field.  *)
Value(c, f) == IF c[f] >= 0 THEN c[f] ELSE Defaults[f]

LEMMA StartingBase ==
  ASSUME NEW c \in Configs
  PROVE  LET b == Overridden(c)
         IN /\ b \in Bases
            /\ b.wl1 = Value(c, "up") /\ b.pzLevel = Value(c, "up")
            /\ b.wl2 = Value(c, "down") /\ b.sm = Value(c, "perm")
            /\ b.pzFactors = IF c["perm"] >= 0 THEN Scaled(<<>>, c["perm"]) ELSE <<>>
<1> DEFINE levels == IF c["up"] >= 0 THEN Updated(Updated(BuiltIn, "wl1", c), "pzLevel", c) ELSE BuiltIn
           downs == IF c["down"] >= 0 THEN Updated(levels, "wl2", c) ELSE levels
           perms == IF c["perm"] >= 0 THEN Updated(Updated(downs, "sm", c), "pzFactor", c) ELSE downs
<1>1. Overridden(c) = perms
  BY DEF Overridden
<1>2. /\ BuiltIn \in Bases
      /\ BuiltIn.wl1 = Defaults["up"] /\ BuiltIn.pzLevel = Defaults["up"]
      /\ BuiltIn.wl2 = Defaults["down"] /\ BuiltIn.sm = Defaults["perm"]
      /\ BuiltIn.pzFactors = <<>>
  <2>1. PICK none \in Seq(Nat) : none = <<>>
    BY EmptySeq
  <2>2. BuiltIn = [wl1 |-> Defaults.up, wl2 |-> Defaults.down, sm |-> Defaults.perm,
                   pzLevel |-> Defaults.up, pzFactors |-> none]
    BY <2>1 DEF BuiltIn
  <2> QED BY <2>1, <2>2, SimulatorAssumption DEF Bases
<1>3. /\ FieldOf("wl1") = "up" /\ FieldOf("pzLevel") = "up" /\ FieldOf("wl2") = "down"
      /\ FieldOf("sm") = "perm" /\ FieldOf("pzFactor") = "perm"
      /\ "wl1" \in Names /\ "pzLevel" \in Names /\ "wl2" \in Names /\ "sm" \in Names /\ "pzFactor" \in Names
  BY DEF FieldOf, Names
<1>4. /\ levels \in Bases
      /\ levels.wl1 = Value(c, "up") /\ levels.pzLevel = Value(c, "up")
      /\ levels.wl2 = Defaults["down"] /\ levels.sm = Defaults["perm"] /\ levels.pzFactors = <<>>
  <2>1. CASE c["up"] >= 0
    <3>1. /\ Updated(BuiltIn, "wl1", c) \in Bases
          /\ Updated(BuiltIn, "wl1", c).wl1 = c["up"]
          /\ Updated(BuiltIn, "wl1", c).wl2 = Defaults["down"] /\ Updated(BuiltIn, "wl1", c).sm = Defaults["perm"]
      BY <1>2, <1>3, <2>1, UpdatedBase
    <3> QED BY <1>3, <2>1, <3>1, UpdatedBase DEF Value
  <2>2. CASE ~(c["up"] >= 0)
    BY <1>2, <2>2 DEF Value
  <2> QED BY <2>1, <2>2
<1> HIDE DEF levels
<1>5. /\ downs \in Bases
      /\ downs.wl1 = Value(c, "up") /\ downs.pzLevel = Value(c, "up")
      /\ downs.wl2 = Value(c, "down") /\ downs.sm = Defaults["perm"] /\ downs.pzFactors = <<>>
  BY <1>3, <1>4, UpdatedBase DEF Value
<1> HIDE DEF downs
<1>6. /\ perms \in Bases
      /\ perms.wl1 = Value(c, "up") /\ perms.pzLevel = Value(c, "up")
      /\ perms.wl2 = Value(c, "down") /\ perms.sm = Value(c, "perm")
      /\ perms.pzFactors = IF c["perm"] >= 0 THEN Scaled(<<>>, c["perm"]) ELSE <<>>
  <2>1. CASE c["perm"] >= 0
    <3>1. /\ Updated(downs, "sm", c) \in Bases
          /\ Updated(downs, "sm", c).wl1 = Value(c, "up") /\ Updated(downs, "sm", c).pzLevel = Value(c, "up")
          /\ Updated(downs, "sm", c).wl2 = Value(c, "down") /\ Updated(downs, "sm", c).sm = c["perm"]
          /\ Updated(downs, "sm", c).pzFactors = <<>>
      BY <1>3, <1>5, <2>1, UpdatedBase
    <3> QED BY <1>3, <2>1, <3>1, UpdatedBase DEF Value
  <2>2. CASE ~(c["perm"] >= 0)
    BY <1>5, <2>2 DEF Value
  <2> QED BY <2>1, <2>2
<1> QED BY <1>1, <1>6

(* A merged configuration: what the body gives, or what was there; and a     *)
(* speed that was allowed stays so.                                        *)
SpeedAllowed(c) == c["speed"] > 0 \/ \E e \in EnvConfigs : c["speed"] = e.speed

LEMMA MergedConfig ==
  ASSUME NEW c \in Configs, NEW b \in Bodies, SpeedAllowed(c)
  PROVE  LET m == [f \in Fields |-> IF Counts(b, f) THEN Decoded(b, f) ELSE c[f]]
         IN m \in Configs /\ SpeedAllowed(m) /\ \A f \in Fields : m[f] >= 0 \/ m[f] = c[f]
<1> DEFINE m == [f \in Fields |-> IF Counts(b, f) THEN Decoded(b, f) ELSE c[f]]
<1>1. \A f \in Fields : Decoded(b, f) \in Int
  BY SimulatorAssumption DEF Decoded
<1>2. \A f \in Fields : m[f] = IF Counts(b, f) THEN Decoded(b, f) ELSE c[f]
  OBVIOUS
<1>3. m["up"] \in Int /\ m["down"] \in Int /\ m["perm"] \in Int /\ m["speed"] \in Int
  BY <1>1, <1>2, ConfigFields DEF Fields
<1>4. m["speed"] > 0 \/ m["speed"] = c["speed"]
  BY <1>1, <1>2 DEF Fields, Counts
<1>5. \A f \in Fields : m[f] >= 0 \/ m[f] = c[f]
  BY <1>1, <1>2 DEF Counts
<1>6. m = [up |-> m["up"], down |-> m["down"], perm |-> m["perm"], speed |-> m["speed"]]
  BY DEF Fields
<1> HIDE DEF m
<1>7. m \in Configs
  BY <1>3, <1>6 DEF Configs
<1>8. SpeedAllowed(m)
  BY <1>4 DEF SpeedAllowed
<1> QED BY <1>5, <1>7, <1>8 DEF m

-----------------------------------------------------------------------------
(* THE INVARIANT                                                          *)

(* A handler that has updates to do stands after the assignment; they are   *)
(* of fields that its configuration sets, the piezometers' factor last.    *)
TodoInv ==
  \A h \in Posts :
    /\ pc[h] \in {"store", "unlock", "apply"} => merged[h] \in Configs /\ SpeedAllowed(merged[h])
    /\ \A u \in Names : Has(todo[h], u) => pc[h] \in {"unlock", "apply"} /\ merged[h][FieldOf(u)] >= 0
    /\ OnlyLast(todo[h], "pzFactor")

(* sensorMu is held by a trigger from the reading to its upload; between     *)
(* producing and recording, the newest readings differ by its own alone.    *)
MuInv ==
  /\ \A t \in Triggers : pc[t] \in {"record", "label"} <=> sensorMu = t
  /\ \A t \in Triggers : pc[t] = "record" => /\ target[t] \in Sensors
                                             /\ newest = [latest EXCEPT ![target[t]] = t]
  /\ \A t \in Triggers : pc[t] = "label" => newest = latest
  /\ sensorMu = Nil => newest = latest

(* An update that has remained alone is the only one, and what it merged    *)
(* or assigned agrees with the configuration; with any other under way      *)
(* nothing is settled.                                                     *)
AloneInv ==
  /\ \A h \in InUpdate : h = alone \/ (alone = Nil /\ unsettled = Settings)
  /\ \A h \in Posts : h = alone =>
       /\ pc[h] = "store" => \A f \in Fields : merged[h][f] >= 0 \/ merged[h][f] = cfg[f]
       /\ pc[h] \in {"unlock", "apply"} => merged[h] = cfg

(* A base value of a settled setting that does not follow the configuration *)
(* is still to be updated; and so are the piezometers' factors if they are  *)
(* not those configured.                                                   *)
Due(u) == \E h \in Posts : Has(todo[h], u)
Kept == IF Due("pzLevel") THEN <<>> ELSE base.pzFactors
FollowInv ==
  /\ "up" \notin unsettled =>
       /\ base.wl1 = Value(cfg, "up") \/ Due("wl1")
       /\ base.pzLevel = Value(cfg, "up") \/ Due("pzLevel")
       /\ factors = IF Due("pzFactor") THEN Scaled(Kept, cfg["perm"]) ELSE Kept
  /\ "down" \notin unsettled => base.wl2 = Value(cfg, "down") \/ Due("wl2")
  /\ "perm" \notin unsettled => base.sm = Value(cfg, "perm") \/ Due("sm")

IInv == TypeOK /\ TodoInv /\ MuInv /\ AloneInv /\ FollowInv

LEMMA Types ==
  ASSUME TypeOK
  PROVE  /\ base \in Bases /\ todo \in [Posts -> Seq(Names)] /\ cfg \in Configs /\ SpeedAllowed(cfg)
         /\ \A t \in Triggers : t # Nil /\ t \notin Posts
         /\ \A h \in Posts : h # Nil /\ h \notin Triggers
         /\ Nil \notin Sensors /\ Nil \notin Configs
BY SimulatorAssumption, ConfigFields DEF TypeOK, Bases, Names, SpeedAllowed

LEMMA InvInitially == Init => IInv
<1> SUFFICES ASSUME Init PROVE IInv
  OBVIOUS
<1>1. cfg \in EnvConfigs /\ cfg \in Configs
  BY SimulatorAssumption DEF Init
<1>2. /\ base \in Bases
      /\ base.wl1 = Value(cfg, "up") /\ base.pzLevel = Value(cfg, "up")
      /\ base.wl2 = Value(cfg, "down") /\ base.sm = Value(cfg, "perm")
      /\ base.pzFactors = IF cfg["perm"] >= 0 THEN Scaled(<<>>, cfg["perm"]) ELSE <<>>
  BY <1>1, StartingBase DEF Init
<1>3. <<>> \in Seq(Names) /\ \A u : ~Has(<<>>, u) /\ OnlyLast(<<>>, u)
  <2>1. Len(<<>>) = 0
    OBVIOUS
  <2> QED BY <2>1, HasInShort DEF Names, OnlyLast
<1>4. factors = base.pzFactors
  BY <1>1, <1>2, ConfigFields DEF Init
<1>5. TypeOK
  BY <1>1, <1>2, <1>3, <1>4 DEF Init, TypeOK, Bases, Names
<1>6. TodoInv
  BY <1>3 DEF Init, TodoInv
<1>7. MuInv
  BY SimulatorAssumption DEF Init, MuInv
<1>8. AloneInv
  BY DEF Init, AloneInv, InUpdate
<1>9. \A u : ~Due(u)
  BY <1>3 DEF Init, Due
<1>10. FollowInv
  BY <1>2, <1>4, <1>9 DEF FollowInv, Kept
<1> QED BY <1>5, <1>6, <1>7, <1>8, <1>10 DEF IInv

-----------------------------------------------------------------------------
(* What some groups of steps leave alone. *)

(* Steps of the triggers and the loop leave the updates alone.             *)
LEMMA UpdatesUntouched ==
  ASSUME IInv, TypeOK', UNCHANGED <<cfg, base, postVars>>,
         \A h \in Posts : pc'[h] = pc[h]
  PROVE  TodoInv' /\ AloneInv' /\ FollowInv'
<1> USE DEF IInv
<1>1. UNCHANGED <<cfg, base, body, merged, todo, alone, unsettled, factors>>
  BY DEF postVars, historyVars
<1>2. TodoInv'
  BY <1>1 DEF TodoInv
<1>3. InUpdate' = InUpdate
  BY DEF InUpdate
<1>4. AloneInv'
  BY <1>1, <1>3 DEF AloneInv
<1>5. FollowInv'
  BY <1>1 DEF FollowInv, Due, Kept
<1> QED BY <1>2, <1>4, <1>5

(* Steps of the configuration's handlers leave the readings alone.         *)
LEMMA ReadingsUntouched ==
  ASSUME IInv, UNCHANGED <<sensorMu, statusVars, target>>,
         \A t \in Triggers : pc'[t] = pc[t]
  PROVE  MuInv'
<1>1. UNCHANGED <<sensorMu, latest, newest, target>>
  BY DEF statusVars
<1> QED BY <1>1 DEF IInv, MuInv

-----------------------------------------------------------------------------
(* POST /config. *)

LEMMA MergeKeeps ==
  ASSUME IInv, NEW h \in Posts, Merge(h)
  PROVE  IInv'
<1> USE DEF IInv
<1>1. PICK b \in Bodies : /\ body' = [body EXCEPT ![h] = b]
                          /\ merged' = [merged EXCEPT ![h] = [f \in Fields |-> IF Counts(b, f) THEN Decoded(b, f) ELSE cfg[f]]]
  BY DEF Merge
<1>2. PICK m \in Configs : /\ merged' = [merged EXCEPT ![h] = m] /\ SpeedAllowed(m)
                           /\ \A f \in Fields : m[f] >= 0 \/ m[f] = cfg[f]
  BY <1>1, MergedConfig, Types
<1>3. /\ UNCHANGED <<cfg, cfgWriter, base, sensorMu, todo, latest, newest, loopPc, target>>
      /\ pc[h] = "new" /\ pc' = [pc EXCEPT ![h] = "store"]
      /\ alone' = (IF InUpdate = {} THEN h ELSE Nil) /\ factors' = factors
      /\ unsettled' = IF InUpdate = {} THEN unsettled ELSE Settings
  BY DEF Merge, Meets, Steps, cfgVars, sensorVars, statusVars
<1>4. TypeOK'
  <2>1. alone' \in Posts \cup {Nil} /\ unsettled' \subseteq Settings /\ factors' \in Seq(Nat)
    BY <1>3 DEF TypeOK
  <2>2. body' \in [Posts -> Bodies \cup {Nil}]
    BY <1>1 DEF TypeOK
  <2>3. merged' \in [Posts -> Configs \cup {Nil}]
    BY <1>2 DEF TypeOK
  <2>4. /\ pc' \in [Posts \cup Triggers -> {"new", "store", "unlock", "apply", "record", "label", "done"}]
        /\ \A g \in Posts : pc'[g] \notin {"record", "label"}
        /\ \A t \in Triggers : pc'[t] \notin {"store", "unlock", "apply"}
    BY <1>3, Types DEF TypeOK
  <2> QED BY <1>3, <2>1, <2>2, <2>3, <2>4 DEF TypeOK
<1>5. \A g \in Posts : pc'[g] = (IF g = h THEN "store" ELSE pc[g]) /\ merged'[g] = IF g = h THEN m ELSE merged[g]
  BY <1>2, <1>3 DEF TypeOK
<1>6. \A u \in Names : ~Has(todo[h], u)
  BY <1>3 DEF TodoInv
<1>7. TodoInv'
  BY <1>2, <1>3, <1>5, <1>6 DEF TodoInv
<1>8. \A t \in Triggers : pc'[t] = pc[t]
  BY <1>3, Types DEF TypeOK
<1>9. MuInv'
  BY <1>3, <1>8, ReadingsUntouched DEF statusVars
<1>10. AloneInv'
  <2>1. InUpdate' = InUpdate \cup {h}
    BY <1>5 DEF InUpdate
  <2>2. CASE InUpdate = {}
    <3>1. alone' = h /\ pc'[h] = "store" /\ merged'[h] = m /\ cfg' = cfg
      BY <1>3, <1>5, <2>2
    <3>2. \A f \in Fields : merged'[h][f] >= 0 \/ merged'[h][f] = cfg'[f]
      BY <1>2, <3>1
    <3>3. \A g \in InUpdate' : g = alone'
      BY <2>1, <2>2, <3>1
    <3>4. ASSUME NEW g \in Posts, g = alone'
          PROVE  /\ pc'[g] = "store" => \A f \in Fields : merged'[g][f] >= 0 \/ merged'[g][f] = cfg'[f]
                 /\ pc'[g] \in {"unlock", "apply"} => merged'[g] = cfg'
      <4>1. g = h
        BY <3>1, <3>4
      <4> QED BY <3>1, <3>2, <4>1
    <3> QED BY <3>3, <3>4 DEF AloneInv
  <2>3. CASE InUpdate # {}
    <3>1. alone' = Nil /\ unsettled' = Settings
      BY <1>3, <2>3
    <3> QED BY <3>1, Types DEF AloneInv
  <2> QED BY <2>2, <2>3
<1>11. FollowInv'
  BY <1>3 DEF FollowInv, Due, Kept, Settings
<1> QED BY <1>4, <1>7, <1>9, <1>10, <1>11

(* While an update has remained alone, what is due is what it has to do;     *)
(* while none has, nothing is settled.                                     *)
LEMMA DueWhenAlone ==
  ASSUME IInv, NEW h \in InUpdate
  PROVE  /\ h # alone => alone = Nil /\ unsettled = Settings
         /\ h = alone => InUpdate = {h} /\ \A u \in Names : \A g \in Posts : Has(todo[g], u) => g = h
<1> USE DEF IInv
<1>1. h # alone => alone = Nil /\ unsettled = Settings
  BY DEF AloneInv
<1>2. ASSUME h = alone PROVE \A g \in InUpdate : g = h
  BY <1>2, Types DEF AloneInv, InUpdate
<1>3. \A u \in Names : \A g \in Posts : Has(todo[g], u) => g \in InUpdate
  BY DEF TodoInv, InUpdate
<1> QED BY <1>1, <1>2, <1>3

LEMMA StoreKeeps ==
  ASSUME IInv, NEW h \in Posts, Store(h)
  PROVE  IInv'
<1> USE DEF IInv
<1> DEFINE changed == {f \in Settings : Changed(cfg, merged[h], f)}
           kept == IF "up" \in changed THEN <<>> ELSE factors
<1>1. /\ UNCHANGED <<base, sensorMu, body, merged, alone, latest, newest, loopPc, target>>
      /\ pc[h] = "store" /\ pc' = [pc EXCEPT ![h] = "unlock"]
      /\ cfgWriter' = h /\ cfg' = merged[h] /\ todo' = [todo EXCEPT ![h] = Updates(cfg, merged[h])]
      /\ unsettled' = IF alone = h THEN unsettled \ changed ELSE unsettled
      /\ factors' = IF "perm" \in changed THEN Scaled(kept, merged[h].perm) ELSE kept
  BY DEF Store, Settles, Steps, sensorVars, statusVars
<1>2. merged[h] \in Configs /\ SpeedAllowed(merged[h]) /\ cfg \in Configs
  BY <1>1, Types DEF TodoInv
<1>3. PICK us \in Seq(Names) :
        /\ us = Updates(cfg, merged[h])
        /\ \A u \in Names : Has(us, u) <=> merged[h][FieldOf(u)] >= 0 /\ merged[h][FieldOf(u)] # cfg[FieldOf(u)]
        /\ OnlyLast(us, "pzFactor")
  BY <1>2, UpdatesAsked
<1>4. \A g \in Posts : pc'[g] = (IF g = h THEN "unlock" ELSE pc[g]) /\ todo'[g] = IF g = h THEN us ELSE todo[g]
  BY <1>1, <1>3, Types DEF TypeOK
<1>5. todo' \in [Posts -> Seq(Names)]
  BY <1>1, <1>3, Types
<1>6. \A u \in Names : Has(us, u) <=> FieldOf(u) \in changed
  BY <1>3 DEF Changed, FieldOf, Settings, Names
<1>7. kept \in Seq(Nat) /\ factors' \in Seq(Nat)
  <2>1. kept \in Seq(Nat)
    BY EmptySeq DEF TypeOK
  <2>2. "perm" \in changed => merged[h].perm \in Nat
    BY <1>2, ConfigFields DEF Changed
  <2> HIDE DEF kept, changed
  <2> QED BY <1>1, <2>1, <2>2, ScaledType
<1> HIDE DEF changed
<1>8. TypeOK'
  <2>1. unsettled' \subseteq Settings /\ alone' \in Posts \cup {Nil}
    BY <1>1 DEF TypeOK
  <2>2. cfg' \in Configs /\ (cfg'.speed > 0 \/ \E c \in EnvConfigs : cfg'.speed = c.speed)
    BY <1>1, <1>2 DEF SpeedAllowed
  <2>3. /\ pc' \in [Posts \cup Triggers -> {"new", "store", "unlock", "apply", "record", "label", "done"}]
        /\ \A g \in Posts : pc'[g] \notin {"record", "label"}
        /\ \A t \in Triggers : pc'[t] \notin {"store", "unlock", "apply"}
    BY <1>1, Types DEF TypeOK
  <2> QED BY <1>1, <1>5, <1>7, <2>1, <2>2, <2>3 DEF TypeOK, Names
<1>9. TodoInv'
  BY <1>1, <1>2, <1>3, <1>4 DEF TodoInv
<1>10. \A t \in Triggers : pc'[t] = pc[t]
  BY <1>1, Types DEF TypeOK
<1>11. MuInv'
  BY <1>1, <1>10, ReadingsUntouched DEF statusVars
<1>12. InUpdate' = InUpdate /\ h \in InUpdate
  BY <1>1, <1>4 DEF InUpdate
<1>13. AloneInv'
  <2>1. CASE alone = h
    <3>1. \A g \in Posts : g = alone' => g = h
      BY <1>1, <2>1
    <3>2. \A g \in InUpdate' : g = alone'
      BY <1>1, <1>12, <2>1, DueWhenAlone
    <3>3. pc'[h] = "unlock" /\ merged'[h] = cfg'
      BY <1>1, <1>4
    <3>4. ASSUME NEW g \in Posts, g = alone'
          PROVE  /\ pc'[g] = "store" => \A f \in Fields : merged'[g][f] >= 0 \/ merged'[g][f] = cfg'[f]
                 /\ pc'[g] \in {"unlock", "apply"} => merged'[g] = cfg'
      <4>1. g = h
        BY <3>1, <3>4
      <4> QED BY <3>3, <4>1
    <3> QED BY <3>2, <3>4 DEF AloneInv
  <2>2. CASE alone # h
    <3>1. alone' = Nil /\ unsettled' = Settings
      BY <1>1, <1>12, <2>2, DueWhenAlone
    <3> QED BY <3>1, Types DEF AloneInv, InUpdate
  <2> QED BY <2>1, <2>2
<1>14. CASE alone # h
  <2>1. unsettled' = Settings
    BY <1>1, <1>12, <1>14, DueWhenAlone
  <2>2. FollowInv'
    BY <2>1 DEF FollowInv, Settings
  <2> QED BY <1>8, <1>9, <1>11, <1>13, <2>2
<1>15. CASE alone = h
  <2>1. \A u \in Names : ~Due(u) /\ (Due(u)' <=> FieldOf(u) \in changed)
    <3>1. \A u \in Names : \A g \in Posts : ~Has(todo[g], u)
      BY <1>1, <1>12, <1>15, DueWhenAlone DEF TodoInv
    <3> QED BY <1>4, <1>6, <3>1 DEF Due
  <2>2. /\ FieldOf("wl1") = "up" /\ FieldOf("pzLevel") = "up" /\ FieldOf("wl2") = "down"
        /\ FieldOf("sm") = "perm" /\ FieldOf("pzFactor") = "perm"
        /\ "wl1" \in Names /\ "pzLevel" \in Names /\ "wl2" \in Names /\ "sm" \in Names /\ "pzFactor" \in Names
    BY DEF FieldOf, Names
  <2>3. ASSUME NEW f \in Settings, f \notin changed PROVE Value(cfg', f) = Value(cfg, f)
    <3>1. merged[h][f] >= 0 \/ merged[h][f] = cfg[f]
      BY <1>1, <1>15 DEF AloneInv, Settings, Fields
    <3>2. merged[h][f] = cfg[f]
      BY <2>3, <3>1 DEF Changed, changed
    <3> QED BY <1>1, <3>2 DEF Value
  <2>4. \A f \in Settings : f \notin unsettled' => f \in changed \/ f \notin unsettled
    BY <1>1
  <2>5. "up" \notin unsettled' => base'.wl1 = Value(cfg', "up") \/ Due("wl1")'
    BY <1>1, <2>1, <2>2, <2>3, <2>4 DEF FollowInv, Settings
  <2>6. "up" \notin unsettled' => base'.pzLevel = Value(cfg', "up") \/ Due("pzLevel")'
    BY <1>1, <2>1, <2>2, <2>3, <2>4 DEF FollowInv, Settings
  <2>7. "down" \notin unsettled' => base'.wl2 = Value(cfg', "down") \/ Due("wl2")'
    BY <1>1, <2>1, <2>2, <2>3, <2>4 DEF FollowInv, Settings
  <2>8. "perm" \notin unsettled' => base'.sm = Value(cfg', "perm") \/ Due("sm")'
    BY <1>1, <2>1, <2>2, <2>3, <2>4 DEF FollowInv, Settings
  <2>9. "up" \notin unsettled' => Kept' = kept
    <3>1. CASE "up" \in changed
      BY <2>1, <2>2, <3>1 DEF Kept
    <3>2. CASE "up" \notin changed /\ "up" \notin unsettled
      <4>1. factors = base.pzFactors
        BY <2>1, <2>2, <3>2 DEF FollowInv, Kept
      <4> QED BY <1>1, <2>1, <2>2, <3>2, <4>1 DEF Kept
    <3> QED BY <2>4, <3>1, <3>2 DEF Settings
  <2> HIDE DEF kept
  <2>10. merged[h].perm = cfg'["perm"]
    BY <1>1, <1>2, ConfigFields
  <2>11. "up" \notin unsettled' => factors' = IF Due("pzFactor")' THEN Scaled(Kept', cfg'["perm"]) ELSE Kept'
    BY <1>1, <2>1, <2>2, <2>9, <2>10
  <2>12. FollowInv'
    <3>1. Scaled(Kept, cfg["perm"])' = Scaled(Kept', cfg'["perm"])
      BY DEF Scaled
    <3> QED BY <2>5, <2>6, <2>7, <2>8, <2>11, <3>1 DEF FollowInv
  <2> QED BY <1>8, <1>9, <1>11, <1>13, <2>12
<1> QED BY <1>14, <1>15

LEMMA UnlockKeeps ==
  ASSUME IInv, NEW h \in Posts, Unlock(h)
  PROVE  IInv'
<1> USE DEF IInv
<1>1. /\ UNCHANGED <<cfg, base, sensorMu, body, merged, todo, alone, unsettled, factors, latest, newest, loopPc, target>>
      /\ pc[h] = "unlock" /\ pc' = [pc EXCEPT ![h] = "apply"] /\ cfgWriter' = Nil
  BY DEF Unlock, Steps, sensorVars, statusVars, postVars, historyVars, WriterAfterStore
<1>2. \A g \in Posts : pc'[g] = IF g = h THEN "apply" ELSE pc[g]
  BY <1>1 DEF TypeOK
<1>3. TypeOK'
  BY <1>1, Types DEF TypeOK
<1>4. TodoInv'
  BY <1>1, <1>2 DEF TodoInv
<1>5. \A t \in Triggers : pc'[t] = pc[t]
  BY <1>1, Types DEF TypeOK
<1>6. MuInv'
  BY <1>1, <1>5, ReadingsUntouched DEF statusVars
<1>7. InUpdate' = InUpdate
  BY <1>1, <1>2 DEF InUpdate
<1>8. AloneInv'
  BY <1>1, <1>2, <1>7 DEF AloneInv
<1>9. FollowInv'
  BY <1>1 DEF FollowInv, Due, Kept
<1> QED BY <1>3, <1>4, <1>6, <1>8, <1>9

LEMMA ApplyKeeps ==
  ASSUME IInv, NEW h \in Posts, Apply(h)
  PROVE  IInv'
<1> USE DEF IInv
<1>1. /\ UNCHANGED <<cfg, cfgWriter, sensorMu, pc, body, merged, alone, unsettled, factors, latest, newest, loopPc, target>>
      /\ pc[h] = "apply" /\ todo[h] # <<>>
      /\ base' = Updated(base, Head(todo[h]), merged[h]) /\ todo' = [todo EXCEPT ![h] = Tail(@)]
  BY DEF Apply, cfgVars, statusVars, historyVars
<1>2. todo[h] \in Seq(Names) /\ merged[h] \in Configs /\ base \in Bases
  BY <1>1, Types DEF TodoInv
<1>3. PICK u \in Names, us \in Seq(Names) :
        /\ u = Head(todo[h]) /\ us = Tail(todo[h])
        /\ \A v : Has(todo[h], v) <=> u = v \/ Has(us, v)
  BY <1>1, <1>2, HasInTail
<1>4. merged[h][FieldOf(u)] >= 0
  BY <1>3 DEF TodoInv
<1>5. /\ base' \in Bases
      /\ base'.wl1 = IF u = "wl1" THEN merged[h]["up"] ELSE base.wl1
      /\ base'.pzLevel = IF u = "pzLevel" THEN merged[h]["up"] ELSE base.pzLevel
      /\ base'.wl2 = IF u = "wl2" THEN merged[h]["down"] ELSE base.wl2
      /\ base'.sm = IF u = "sm" THEN merged[h]["perm"] ELSE base.sm
      /\ u = "pzLevel" => base'.pzFactors = <<>>
      /\ u = "pzFactor" => base'.pzFactors = Scaled(base.pzFactors, merged[h]["perm"])
      /\ u \notin {"pzLevel", "pzFactor"} => base'.pzFactors = base.pzFactors
  BY <1>1, <1>2, <1>3, <1>4, UpdatedBase
<1>6. todo' = [todo EXCEPT ![h] = us] /\ todo' \in [Posts -> Seq(Names)]
  BY <1>1, <1>3, Types
<1>7. \A g \in Posts : todo'[g] = IF g = h THEN us ELSE todo[g]
  BY <1>6, Types
<1>8. OnlyLast(us, "pzFactor") /\ (u = "pzFactor" => us = <<>>)
  <2>1. OnlyLast(todo[h], "pzFactor")
    BY DEF TodoInv
  <2> QED BY <1>1, <1>2, <1>3, <2>1, OnlyLastInTail
<1>9. TypeOK'
  BY <1>1, <1>5, <1>6 DEF TypeOK, Names, Bases
<1>10. TodoInv'
  BY <1>1, <1>3, <1>7, <1>8 DEF TodoInv
<1>11. MuInv'
  BY <1>1, ReadingsUntouched DEF statusVars
<1>12. InUpdate' = InUpdate /\ h \in InUpdate
  BY <1>1 DEF InUpdate
<1>13. AloneInv'
  BY <1>1, <1>12 DEF AloneInv
<1>14. CASE alone # h
  <2>1. unsettled' = Settings
    BY <1>1, <1>12, <1>14, DueWhenAlone
  <2>2. FollowInv'
    BY <2>1 DEF FollowInv, Settings
  <2> QED BY <1>9, <1>10, <1>11, <1>13, <2>2
<1>15. CASE alone = h
  <2>1. merged[h] = cfg /\ cfg' = cfg
    BY <1>1, <1>15 DEF AloneInv
  <2>2. \A v \in Names : (Due(v) <=> u = v \/ Has(us, v)) /\ (Due(v)' <=> Has(us, v))
    <3>1. \A v \in Names : \A g \in Posts : Has(todo[g], v) => g = h
      BY <1>12, <1>15, DueWhenAlone
    <3> QED BY <1>3, <1>7, <3>1 DEF Due
  <2>3. Value(cfg, FieldOf(u)) = merged[h][FieldOf(u)]
    BY <1>4, <2>1 DEF Value
  <2>4. "wl1" \in Names /\ "pzLevel" \in Names /\ "wl2" \in Names /\ "sm" \in Names /\ "pzFactor" \in Names
    BY DEF Names
  <2>5. "up" \notin unsettled' => base'.wl1 = Value(cfg', "up") \/ Due("wl1")'
    BY <1>1, <1>5, <2>1, <2>2, <2>3, <2>4 DEF FollowInv, FieldOf
  <2>6. "up" \notin unsettled' => base'.pzLevel = Value(cfg', "up") \/ Due("pzLevel")'
    BY <1>1, <1>5, <2>1, <2>2, <2>3, <2>4 DEF FollowInv, FieldOf
  <2>7. "down" \notin unsettled' => base'.wl2 = Value(cfg', "down") \/ Due("wl2")'
    BY <1>1, <1>5, <2>1, <2>2, <2>3, <2>4 DEF FollowInv, FieldOf
  <2>8. "perm" \notin unsettled' => base'.sm = Value(cfg', "perm") \/ Due("sm")'
    BY <1>1, <1>5, <2>1, <2>2, <2>3, <2>4 DEF FollowInv, FieldOf
  <2>9. (IF Due("pzFactor")' THEN Scaled(Kept', cfg'["perm"]) ELSE Kept')
        = IF Due("pzFactor") THEN Scaled(Kept, cfg["perm"]) ELSE Kept
    <3>1. CASE u = "pzLevel"
      BY <1>5, <2>1, <2>2, <2>4, <3>1 DEF Kept
    <3>2. CASE u = "pzFactor"
      <4>1. \A v \in Names : ~Has(us, v)
        BY <1>8, <3>2, HasInShort DEF Names
      <4> QED BY <1>5, <2>1, <2>2, <2>4, <3>2, <4>1 DEF Kept
    <3>3. CASE u \notin {"pzLevel", "pzFactor"}
      BY <1>5, <2>1, <2>2, <2>4, <3>3 DEF Kept
    <3> QED BY <3>1, <3>2, <3>3
  <2>10. FollowInv'
    <3>1. Scaled(Kept, cfg["perm"])' = Scaled(Kept', cfg'["perm"])
      BY DEF Scaled
    <3>2. "up" \notin unsettled' => factors' = IF Due("pzFactor")' THEN Scaled(Kept', cfg'["perm"]) ELSE Kept'
      BY <1>1, <2>9 DEF FollowInv
    <3> QED BY <2>5, <2>6, <2>7, <2>8, <3>1, <3>2 DEF FollowInv
  <2> QED BY <1>9, <1>10, <1>11, <1>13, <2>10
<1> QED BY <1>14, <1>15

LEMMA RespondKeeps ==
  ASSUME IInv, NEW h \in Posts, Respond(h)
  PROVE  IInv'
<1> USE DEF IInv
<1>1. /\ UNCHANGED <<cfg, base, sensorMu, todo, alone, unsettled, factors, latest, newest, loopPc, target>>
      /\ pc[h] = "apply" /\ pc' = [pc EXCEPT ![h] = "done"] /\ todo[h] = <<>> /\ cfgWriter' = Nil
      /\ body' = [body EXCEPT ![h] = Nil] /\ merged' = [merged EXCEPT ![h] = Nil]
  BY DEF Respond, Steps, sensorVars, statusVars, historyVars
<1>2. \A g \in Posts : pc'[g] = (IF g = h THEN "done" ELSE pc[g]) /\ merged'[g] = IF g = h THEN Nil ELSE merged[g]
  BY <1>1 DEF TypeOK
<1>3. TypeOK'
  BY <1>1, Types DEF TypeOK
<1>4. \A u : ~Has(todo[h], u)
  BY <1>1, HasInShort DEF Names
<1>5. TodoInv'
  BY <1>1, <1>2, <1>4 DEF TodoInv
<1>6. \A t \in Triggers : pc'[t] = pc[t]
  BY <1>1, Types DEF TypeOK
<1>7. MuInv'
  BY <1>1, <1>6, ReadingsUntouched DEF statusVars
<1>8. InUpdate' \subseteq InUpdate
  BY <1>1, <1>2 DEF InUpdate
<1>9. AloneInv'
  BY <1>1, <1>2, <1>8 DEF AloneInv
<1>10. FollowInv'
  BY <1>1 DEF FollowInv, Due, Kept
<1> QED BY <1>3, <1>5, <1>7, <1>9, <1>10

-----------------------------------------------------------------------------
(* POST /trigger-alarm and the main loop. *)

LEMMA ProduceKeeps ==
  ASSUME IInv, NEW t \in Triggers, Produce(t)
  PROVE  IInv'
<1> USE DEF IInv
<1>1. PICK s \in Sensors : target' = [target EXCEPT ![t] = s] /\ newest' = [newest EXCEPT ![s] = t]
  BY DEF Produce
<1>2. /\ UNCHANGED <<cfg, cfgWriter, base, postVars, latest, loopPc>>
      /\ pc[t] = "new" /\ pc' = [pc EXCEPT ![t] = "record"] /\ sensorMu = Nil /\ sensorMu' = t
  BY DEF Produce, Steps, cfgVars, MuAfterProducing
<1>3. TypeOK'
  BY <1>1, <1>2, Types DEF TypeOK, postVars, historyVars
<1>4. \A h \in Posts : pc'[h] = pc[h]
  BY <1>2, Types DEF TypeOK
<1>5. TodoInv' /\ AloneInv' /\ FollowInv'
  BY <1>2, <1>3, <1>4, UpdatesUntouched
<1>6. \A r \in Triggers : pc'[r] = IF r = t THEN "record" ELSE pc[r]
  BY <1>2, Types DEF TypeOK
<1>7. \A r \in Triggers : pc[r] \notin {"record", "label"}
  BY <1>2, Types DEF MuInv
<1>8. target'[t] = s /\ newest = latest
  BY <1>1, <1>2 DEF TypeOK, MuInv
<1>9. MuInv'
  <2>1. target'[t] \in Sensors /\ newest' = [latest' EXCEPT ![target'[t]] = t]
    BY <1>1, <1>2, <1>8
  <2>2. \A r \in Triggers : pc'[r] \in {"record", "label"} <=> sensorMu' = r
    BY <1>2, <1>6, <1>7
  <2>3. \A r \in Triggers : pc'[r] # "label" /\ (pc'[r] = "record" => r = t)
    BY <1>6, <1>7
  <2> QED BY <1>2, <2>1, <2>2, <2>3, Types DEF MuInv
<1> QED BY <1>3, <1>5, <1>9

LEMMA RecordKeeps ==
  ASSUME IInv, NEW t \in Triggers, Record(t)
  PROVE  IInv'
<1> USE DEF IInv
<1>1. /\ UNCHANGED <<cfg, cfgWriter, base, sensorMu, postVars, newest, loopPc, target>>
      /\ pc[t] = "record" /\ pc' = [pc EXCEPT ![t] = "label"] /\ latest' = [latest EXCEPT ![target[t]] = t]
  BY DEF Record, Steps, cfgVars, sensorVars
<1>2. target[t] \in Sensors /\ latest' = newest /\ sensorMu = t
  BY <1>1 DEF MuInv
<1>3. TypeOK'
  BY <1>1, <1>2, Types DEF TypeOK, postVars, historyVars
<1>4. \A h \in Posts : pc'[h] = pc[h]
  BY <1>1, Types DEF TypeOK
<1>5. TodoInv' /\ AloneInv' /\ FollowInv'
  BY <1>1, <1>3, <1>4, UpdatesUntouched
<1>6. \A r \in Triggers : pc'[r] = IF r = t THEN "label" ELSE pc[r]
  BY <1>1, Types DEF TypeOK
<1>7. MuInv'
  BY <1>1, <1>2, <1>6, Types DEF MuInv
<1> QED BY <1>3, <1>5, <1>7

LEMMA LabelKeeps ==
  ASSUME IInv, NEW t \in Triggers, Label(t)
  PROVE  IInv'
<1> USE DEF IInv
<1>1. /\ UNCHANGED <<cfg, cfgWriter, base, postVars, latest, newest, loopPc>>
      /\ pc[t] = "label" /\ pc' = [pc EXCEPT ![t] = "done"] /\ target' = [target EXCEPT ![t] = Nil]
      /\ sensorMu' = IF sensorMu = t THEN Nil ELSE sensorMu
  BY DEF Label, Steps, cfgVars, statusVars
<1>2. sensorMu = t /\ sensorMu' = Nil /\ newest = latest
  BY <1>1 DEF MuInv
<1>3. TypeOK'
  BY <1>1, <1>2, Types DEF TypeOK, postVars, historyVars
<1>4. \A h \in Posts : pc'[h] = pc[h]
  BY <1>1, Types DEF TypeOK
<1>5. TodoInv' /\ AloneInv' /\ FollowInv'
  BY <1>1, <1>3, <1>4, UpdatesUntouched
<1>6. \A r \in Triggers : pc'[r] = IF r = t THEN "done" ELSE pc[r]
  BY <1>1, Types DEF TypeOK
<1>7. MuInv'
  BY <1>1, <1>2, <1>6, Types DEF MuInv
<1> QED BY <1>3, <1>5, <1>7

LEMMA LoopKeeps ==
  ASSUME IInv, Loop
  PROVE  IInv'
<1> USE DEF IInv
<1>1. UNCHANGED <<cfg, cfgWriter, base, sensorMu, postVars, pc, target>> /\ loopPc' \in {"idle", "collect", "send", "sleep"}
  BY DEF Loop, CycleBegins, Collect, Send, Sleep, cfgVars, sensorVars
<1>2. \/ UNCHANGED statusVars
      \/ sensorMu = Nil /\ latest' = [s \in Sensors |-> "loop"] /\ newest' = [s \in Sensors |-> "loop"]
  BY DEF Loop, CycleBegins, Collect, Send, Sleep
<1>3. TypeOK'
  BY <1>1, <1>2 DEF TypeOK, postVars, historyVars, statusVars
<1>4. TodoInv' /\ AloneInv' /\ FollowInv'
  BY <1>1, <1>3, UpdatesUntouched
<1>5. MuInv'
  <2>1. CASE UNCHANGED statusVars
    BY <1>1, <2>1, ReadingsUntouched
  <2>2. CASE sensorMu = Nil /\ latest' = [s \in Sensors |-> "loop"] /\ newest' = [s \in Sensors |-> "loop"]
    <3>1. \A t \in Triggers : pc[t] \notin {"record", "label"}
      BY <2>2, Types DEF MuInv
    <3> QED BY <1>1, <2>2, <3>1, Types DEF MuInv
  <2> QED BY <1>2, <2>1, <2>2
<1> QED BY <1>3, <1>4, <1>5

LEMMA InvKept == IInv /\ [Next]_vars => IInv'
<1> SUFFICES ASSUME IInv, [Next]_vars PROVE IInv'
  OBVIOUS
<1>1. CASE \E h \in Posts : Post(h)
  BY <1>1, MergeKeeps, StoreKeeps, UnlockKeeps, ApplyKeeps, RespondKeeps DEF Post
<1>2. CASE \E t \in Triggers : Trigger(t)
  BY <1>2, ProduceKeeps, RecordKeeps, LabelKeeps DEF Trigger
<1>3. CASE Loop
  BY <1>3, LoopKeeps
<1>4. CASE UNCHANGED vars
  <2>1. UNCHANGED <<cfg, cfgWriter, base, sensorMu, postVars, statusVars, loopPc, pc, target>>
    BY <1>4 DEF vars, cfgVars, sensorVars
  <2>2. TypeOK'
    BY <2>1 DEF IInv, TypeOK, postVars, historyVars, statusVars
  <2>3. TodoInv' /\ AloneInv' /\ FollowInv'
    BY <2>1, <2>2, UpdatesUntouched
  <2>4. MuInv'
    BY <2>1, ReadingsUntouched
  <2> QED BY <2>2, <2>3, <2>4 DEF IInv
<1> QED BY <1>1, <1>2, <1>3, <1>4 DEF Next

LEMMA InvHolds == Spec => []IInv
BY InvInitially, InvKept, PTL DEF Spec

-----------------------------------------------------------------------------
(* THEOREMS                                                               *)

(* Types, whatever bodies are posted; in particular no request makes the    *)
(* speed, by which the interval is divided, zero or negative: it is positive *)
(* or one that the environment gave (sensor_simulator.go:92, 419).          *)
THEOREM TypeCorrect == Spec => []TypeOK
<1>1. IInv => TypeOK
  BY DEF IInv
<1> QED BY <1>1, InvHolds, PTL

(* Whenever no update is under way, levels and flow are those of the         *)
(* configuration, and the piezometers are scaled by exactly the             *)
(* permeabilities configured since their level was, but for the settings    *)
(* that overlapping updates have unsettled and none alone has changed since  *)
(* (UpdateConfig).                                                         *)
THEOREM SensorsFollow == Spec => []SensorsFollowConfig
<1>1. IInv => SensorsFollowConfig
  <2> SUFFICES ASSUME IInv, InUpdate = {} PROVE SensorsFollowConfig
    BY DEF SensorsFollowConfig
  <2>1. \A u \in Names : ~Due(u)
    BY DEF IInv, TodoInv, Due, InUpdate
  <2>2. "wl1" \in Names /\ "pzLevel" \in Names /\ "wl2" \in Names /\ "sm" \in Names /\ "pzFactor" \in Names
    BY DEF Names
  <2>3. \A f \in Settings : InForce(f) = Value(cfg, f)
    BY DEF InForce, Value
  <2>4. ASSUME "up" \notin unsettled PROVE Follows("up") /\ base.pzFactors = factors
    BY <2>1, <2>2, <2>3, <2>4 DEF IInv, FollowInv, Kept, Follows, Settings
  <2>5. ASSUME "down" \notin unsettled PROVE Follows("down")
    BY <2>1, <2>2, <2>3, <2>5 DEF IInv, FollowInv, Follows, Settings
  <2>6. ASSUME "perm" \notin unsettled PROVE Follows("perm")
    BY <2>1, <2>2, <2>3, <2>6 DEF IInv, FollowInv, Follows, Settings
  <2> QED BY <2>4, <2>5, <2>6 DEF SensorsFollowConfig, Settings
<1> QED BY <1>1, InvHolds, PTL

(* When nobody holds sensorMu, the latest reading of every sensor is the     *)
(* newest one produced, by the loop or by a manual trigger.                 *)
THEOREM StatusIsNewest == Spec => []LatestIsNewest
<1>1. IInv => LatestIsNewest
  BY DEF IInv, MuInv, LatestIsNewest
<1> QED BY <1>1, InvHolds, PTL
=============================================================================
