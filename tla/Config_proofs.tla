---------------------------- MODULE Config_proofs ---------------------------
(***************************************************************************)
(* parse_cli, for any command lines, any INI files and any texts strtol    *)
(* accepts.                                                                *)
(***************************************************************************)
EXTENDS Config, TLAPS, WellFoundedInduction

-----------------------------------------------------------------------------
(* Types.                                                                  *)

IntFields == {"plane_id", "udp_port", "vid_pt", "appsink_max_buffers"}
TextFields == {"card_path", "connector_name", "record_path"}
BoolFields == {"record_enable", "gst_log"}
Fields == IntFields \cup TextFields \cup BoolFields \cup {"record_mode"}

\* The values a field of AppCfg can have.
Fits(field, value) ==
  /\ field \in Fields
  /\ field \in IntFields => value \in -(IntMax + 1)..IntMax
  /\ field \in BoolFields => value \in {0, 1}
  /\ field = "record_mode" => value \in {"standard", "sequential", "fragmented"}

FitsSetting(s) == s # Invalid => Fits(s[1], s[2])

\* The options' tables.
LEMMA TextTable ==
  /\ DOMAIN TextOptions = {"--card", "--connector"}
  /\ TextOptions["--card"] = "card_path"
  /\ TextOptions["--connector"] = "connector_name"
  BY DEF TextOptions

LEMMA IntTable ==
  /\ DOMAIN IntOptions = {"--plane-id", "--udp-port", "--vid-pt", "--appsink-max-buffers"}
  /\ IntOptions["--plane-id"] = "plane_id"
  /\ IntOptions["--udp-port"] = "udp_port"
  /\ IntOptions["--vid-pt"] = "vid_pt"
  /\ IntOptions["--appsink-max-buffers"] = "appsink_max_buffers"
  BY DEF IntOptions

LEMMA IntTableRange == {IntOptions[o] : o \in DOMAIN IntOptions} = IntFields
  BY IntTable DEF IntFields

LEMMA DefaultsFit ==
  /\ DOMAIN cfg_defaults = Fields
  /\ \A k \in Fields : Fits(k, cfg_defaults[k])
  BY ConfigAssumption DEF cfg_defaults, Fields, IntFields, TextFields, BoolFields, Fits

\* A setting is a pair.
LEMMA SettingParts ==
  ASSUME NEW field, NEW value
  PROVE  /\ Setting(field, value) # Invalid
         /\ Setting(field, value)[1] = field /\ Setting(field, value)[2] = value
  BY DEF Setting, Invalid

\* The cast of a long yields an int.
LEMMA CastInRange ==
  ASSUME NEW v \in Int
  PROVE  /\ ToInt(v) \in -(IntMax + 1)..IntMax
         /\ v \in -(IntMax + 1)..IntMax => ToInt(v) = v
<1> DEFINE w == 2 * (IntMax + 1)
           x == v + IntMax + 1
<1>1. IntMax \in Nat /\ w \in Nat \ {0} /\ x \in Int
  BY ConfigAssumption
<1>2. x % w \in 0..(w - 1)
  <2>. HIDE DEF w, x
  <2>. QED
    BY <1>1
<1>3. x \in 0..(w - 1) => x % w = x
  <2>. HIDE DEF w, x
  <2>. QED
    BY <1>1
<1>. QED
  BY <1>1, <1>2, <1>3 DEF ToInt

LEMMA ParsedFit ==
  /\ \A f \in IntFields : \A text : FitsSetting(parse_int(f, text))
  /\ \A f \in BoolFields : \A text : FitsSetting(parse_bool(f, text))
  /\ \A text : FitsSetting(cfg_parse_record_mode(text))
<1>1. ASSUME NEW f \in IntFields, NEW text PROVE FitsSetting(parse_int(f, text))
  <2>1. CASE text \in DOMAIN Numbers
    <3>1. Numbers[text] \in Int
      BY <2>1, ConfigAssumption
    <3>. QED
      BY <2>1, <3>1, CastInRange, SettingParts
      DEF parse_int, FitsSetting, Fits, Fields, IntFields, BoolFields
  <2>. QED
    BY <2>1 DEF parse_int, FitsSetting
<1>2. ASSUME NEW f \in BoolFields, NEW text PROVE FitsSetting(parse_bool(f, text))
  BY SettingParts DEF parse_bool, FitsSetting, Fits, Fields, IntFields, BoolFields
<1>3. ASSUME NEW text PROVE FitsSetting(cfg_parse_record_mode(text))
  BY SettingParts DEF cfg_parse_record_mode, FitsSetting, Fits, Fields, IntFields, BoolFields
<1>. QED
  BY <1>1, <1>2, <1>3

LEMMA RecordKeyFits ==
  ASSUME NEW key, NEW text PROVE FitsSetting(RecordKey(key, text))
  BY ParsedFit, SettingParts DEF RecordKey, FitsSetting, Fits, Fields, IntFields, BoolFields, TextFields

\* Whatever line an INI file holds, it sets a field to a value of its type.
LEMMA LineFits ==
  ASSUME NEW sec, NEW key, NEW text
  PROVE  FitsSetting(handle_section_key(sec, key, text))
<1>1. FitsSetting(handle_global_key(key, text))
  <2>1. CASE Len(key) = 2
    BY <2>1, RecordKeyFits DEF handle_global_key
  <2>2. CASE Len(key) # 2
    BY <2>2, ParsedFit, SettingParts
    DEF handle_global_key, FitsSetting, Fits, Fields, IntFields, BoolFields, TextFields
  <2>. QED
    BY <2>1, <2>2
<1>. QED
  BY <1>1, RecordKeyFits DEF handle_section_key, FitsSetting

\* AppCfg is well-typed: the part of ParseTypeOK about cfg, field by field.
CfgFits == DOMAIN cfg = Fields /\ \A k \in Fields : Fits(k, cfg[k])

LEMMA CfgTyped ==
  ParseTypeOK <=>
    /\ parser \in {"configs", "file", "options"} \cup Parsed
    /\ Len(argv) \in Nat /\ i \in Nat \ {0} /\ line \in Nat \ {0}
    /\ file \in DOMAIN Files \cup {NoFile}
    /\ CfgFits
  BY IntTableRange, DefaultsFit
  DEF ParseTypeOK, CfgFits, Fits, Fields, IntFields, BoolFields, TextFields

\* Applying a setting changes its field and no other.
LEMMA ApplyFits ==
  ASSUME CfgFits, NEW s, FitsSetting(s), cfg' = Apply(s)
  PROVE  /\ CfgFits'
         /\ \A k \in Fields : cfg'[k] = IF s # Invalid /\ s[1] = k THEN s[2] ELSE cfg[k]
<1>1. CASE s = Invalid
  BY <1>1 DEF Apply, CfgFits
<1>2. CASE s # Invalid
  <2>1. Fits(s[1], s[2])
    BY <1>2 DEF FitsSetting
  <2>2. cfg' = [cfg EXCEPT ![s[1]] = s[2]]
    BY <1>2 DEF Apply
  <2>3. DOMAIN cfg' = Fields /\ DOMAIN cfg = Fields
    BY <2>2 DEF CfgFits
  <2>4. \A k \in Fields : cfg'[k] = IF s[1] = k THEN s[2] ELSE cfg[k]
    BY <2>2, <2>3
  <2>. QED
    BY <1>2, <2>1, <2>3, <2>4 DEF CfgFits
<1>. QED
  BY <1>1, <1>2

\* parse_cli leaves argv alone.
LEMMA ArgumentsKept ==
  ASSUME ParseNext
  PROVE  argv' = argv
  BY DEF ParseNext, load_line, load_done, find_help, find_config, pass_over, first_pass_done,
     skip_config, text_option, int_option, record_mode_option, record_video_option,
     no_record_option, flag_option, unknown_option, second_pass_done, Valued, Take, Fail

\* Every step of the parser keeps the types.
LEMMA ParseTypeStep ==
  ASSUME ParseTypeOK, ParseNext
  PROVE  ParseTypeOK'
<1>1. /\ parser \in {"configs", "file", "options"} \cup Parsed
      /\ Len(argv) \in Nat /\ i \in Nat \ {0} /\ line \in Nat \ {0}
      /\ file \in DOMAIN Files \cup {NoFile}
      /\ CfgFits
  BY CfgTyped
<1>0. UNCHANGED argv /\ Len(argv') \in Nat
  BY <1>1, ArgumentsKept
<1>2. SUFFICES /\ parser' \in {"configs", "file", "options"} \cup Parsed
               /\ i' \in Nat \ {0} /\ line' \in Nat \ {0}
               /\ file' \in DOMAIN Files \cup {NoFile}
               /\ CfgFits'
  BY <1>0, IntTableRange, DefaultsFit
  DEF ParseTypeOK, CfgFits, Fits, Fields, IntFields, BoolFields, TextFields
<1>3. ASSUME UNCHANGED cfg PROVE CfgFits'
  BY <1>1, <1>3 DEF CfgFits
<1>4. CASE load_line
  <2> DEFINE l == Files[file][line]
             s == handle_section_key(section, l.key, l.text)
  <2>1. FitsSetting(s)
    BY LineFits
  <2>2. cfg' = IF l.kind = "set" THEN Apply(s) ELSE cfg
    BY <1>4 DEF load_line
  <2>. HIDE DEF l, s
  <2>3. CfgFits'
    BY <1>1, <1>3, <2>1, <2>2, ApplyFits
  <2>. QED
    BY <1>1, <1>4, <2>3 DEF load_line
<1>5. CASE load_done \/ find_help \/ first_pass_done \/ pass_over \/ second_pass_done
           \/ unknown_option \/ skip_config
  BY <1>1, <1>3, <1>5 DEF load_done, find_help, first_pass_done, pass_over, second_pass_done,
     unknown_option, skip_config, Take, Fail, NotLoading, Parsed
<1>6. CASE find_config
  <2>1. CfgFits'
    BY <1>3, <1>6 DEF find_config
  <2>2. CASE parser' = "error" /\ UNCHANGED i /\ NotLoading
    BY <1>1, <2>1, <2>2 DEF NotLoading, Parsed
  <2>3. CASE maybe_load_config(argv[i + 1])
    <3>1. \/ i' = i + 2 /\ parser' = parser /\ NotLoading
          \/ parser' = "error" /\ UNCHANGED i /\ NotLoading
          \/ /\ parser' = "file" /\ file' \in DOMAIN Files /\ line' = 1
             /\ i' = i + 2
      BY <2>3 DEF maybe_load_config, cfg_load_file_opens
    <3>2. i + 2 \in Nat \ {0}
      BY <1>1
    <3>. QED
      BY <1>1, <2>1, <3>1, <3>2 DEF NotLoading, Parsed
  <2>. QED
    BY <1>6, <2>2, <2>3 DEF find_config
<1>7. ASSUME NEW s, FitsSetting(s), cfg' = Apply(s), Take(2)
      PROVE  /\ parser' \in {"configs", "file", "options"} \cup Parsed
             /\ i' \in Nat \ {0} /\ line' \in Nat \ {0}
             /\ file' \in DOMAIN Files \cup {NoFile}
             /\ CfgFits'
  BY <1>1, <1>7, ApplyFits DEF Take, NotLoading
<1>8. ASSUME Fail
      PROVE  /\ parser' \in {"configs", "file", "options"} \cup Parsed
             /\ i' \in Nat \ {0} /\ line' \in Nat \ {0}
             /\ file' \in DOMAIN Files \cup {NoFile}
             /\ CfgFits'
  BY <1>1, <1>3, <1>8 DEF Fail, NotLoading, Parsed
<1>9. CASE text_option
  <2> DEFINE s == Setting(TextOptions[argv[i]], argv[i + 1])
  <2>1. argv[i] \in {"--card", "--connector"}
    BY <1>9, TextTable DEF text_option, AtOption
  <2>2. FitsSetting(s)
    BY <2>1, TextTable, SettingParts DEF FitsSetting, Fits, Fields, TextFields, IntFields, BoolFields
  <2>3. Fail \/ (cfg' = Apply(s) /\ Take(2))
    BY <1>9 DEF text_option, Valued
  <2>. HIDE DEF s
  <2>. QED
    BY <1>7, <1>8, <2>2, <2>3
<1>10. CASE int_option
  <2> DEFINE s == parse_int(IntOptions[argv[i]], argv[i + 1])
  <2>1. IntOptions[argv[i]] \in IntFields
    BY <1>10, IntTableRange DEF int_option, AtOption
  <2>2. FitsSetting(s)
    BY <2>1, ParsedFit
  <2>3. Fail \/ (cfg' = Apply(s) /\ Take(2))
    BY <1>10 DEF int_option, Valued
  <2>. HIDE DEF s
  <2>. QED
    BY <1>7, <1>8, <2>2, <2>3
<1>11. CASE record_mode_option
  <2> DEFINE s == cfg_parse_record_mode(argv[i + 1])
  <2>1. FitsSetting(s)
    BY ParsedFit
  <2>2. Fail \/ (cfg' = Apply(s) /\ Take(2))
    BY <1>11 DEF record_mode_option, Valued
  <2>. HIDE DEF s
  <2>. QED
    BY <1>7, <1>8, <2>1, <2>2
<1>12. CASE record_video_option \/ no_record_option \/ flag_option
  <2>1. /\ parser' = parser /\ i' \in Nat \ {0}
        /\ line' = line /\ file' = file
    BY <1>1, <1>12 DEF record_video_option, no_record_option, flag_option, Take, NotLoading
  <2>2. CfgFits'
    BY <1>1, <1>12 DEF record_video_option, no_record_option, flag_option,
       CfgFits, Fits, Fields, TextFields, IntFields, BoolFields
  <2>. QED
    BY <1>1, <2>1, <2>2
<1>. QED
  BY <1>4, <1>5, <1>6, <1>9, <1>10, <1>11, <1>12 DEF ParseNext

-----------------------------------------------------------------------------
(* Where the options are. OptionAt is a recursive function; that it exists,*)
(* and so satisfies its equation, is shown with least counterexamples.     *)

\* Every non-empty set of naturals has a least element.
LEMMA LeastNat ==
  ASSUME NEW S, S \subseteq Nat, S # {}
  PROVE  \E x \in S : \A y \in S : x <= y
<1> DEFINE R == OpToRel(<, Nat)
<1>1. IsWellFoundedOn(R, Nat)
  BY NatLessThanWellFounded
<1>2. \A x, y \in Nat : <<y, x>> \in R <=> y < x
  BY DEF OpToRel
<1> HIDE DEF R
<1>3. PICK x \in S : \A y \in S : ~(<<y, x>> \in R)
  BY <1>1, WFMin
<1>4. ASSUME NEW y \in S PROVE x <= y
  <2>1. x \in Nat /\ y \in Nat
    OBVIOUS
  <2>2. ~(y < x)
    BY <1>2, <1>3, <2>1
  <2>. QED
    BY <2>1, <2>2
<1>. QED
  BY <1>4

\* One step of the walk over positions, T being those that take a value along.
Walk(T, f, n) ==
  \/ n = 1
  \/ n > 1 /\ f[n - 1] /\ n - 1 \notin T
  \/ n > 2 /\ f[n - 2] /\ n - 2 \in T

Walks(T, g, N) == g \in [0..N -> BOOLEAN] /\ \A n \in 0..N : g[n] <=> Walk(T, g, n)

\* The walk can be made up to any position.
LEMMA WalkExists ==
  ASSUME NEW T, NEW N \in Nat
  PROVE  \E g : Walks(T, g, N)
<1> DEFINE Bad == {x \in Nat : ~\E g : Walks(T, g, x)}
<1>1. SUFFICES ASSUME Bad # {} PROVE FALSE
  OBVIOUS
<1>2. PICK x \in Bad : \A y \in Bad : x <= y
  <2>1. Bad \subseteq Nat
    OBVIOUS
  <2> HIDE DEF Bad
  <2>. QED
    BY <1>1, <2>1, LeastNat
<1>3. x \in Nat /\ ~\E g : Walks(T, g, x)
  OBVIOUS
<1>4. CASE x = 0
  <2> DEFINE g == [n \in 0..0 |-> FALSE]
  <2>1. Walks(T, g, 0)
    BY DEF Walks, Walk
  <2>. QED
    BY <1>3, <1>4, <2>1
<1>5. CASE x # 0
  <2>1. x - 1 \in Nat /\ x - 1 \notin Bad
    BY <1>2, <1>3, <1>5
  <2>2. PICK h : Walks(T, h, x - 1)
    BY <2>1
  <2> DEFINE g == [n \in 0..x |-> IF n = x THEN Walk(T, h, x) ELSE h[n]]
  <2>3. g \in [0..x -> BOOLEAN]
    <3>1. Walk(T, h, x) \in BOOLEAN
      BY DEF Walk
    <3>2. ASSUME NEW n \in 0..x, n # x PROVE h[n] \in BOOLEAN
      <4>1. n \in 0..(x - 1)
        BY <1>3, <3>2
      <4>. QED
        BY <2>2, <4>1 DEF Walks
    <3>3. \A n \in 0..x : (IF n = x THEN Walk(T, h, x) ELSE h[n]) \in BOOLEAN
      BY <3>1, <3>2
    <3>. QED
      BY <3>3
  <2>4. ASSUME NEW n \in 0..x PROVE g[n] <=> Walk(T, g, n)
    <3>1. \A k \in 0..(x - 1) : g[k] = h[k]
      BY <1>3
    <3>2. Walk(T, g, n) <=> Walk(T, h, n)
      <4>1. n > 1 => n - 1 \in 0..(x - 1)
        BY <1>3
      <4>2. n > 2 => n - 2 \in 0..(x - 1)
        BY <1>3
      <4> HIDE DEF g
      <4>. QED
        BY <3>1, <4>1, <4>2 DEF Walk
    <3>3. CASE n = x
      BY <3>2, <3>3
    <3>4. CASE n # x
      <4>1. n \in 0..(x - 1)
        BY <1>3, <3>4
      <4>2. h[n] <=> Walk(T, h, n)
        BY <2>2, <4>1 DEF Walks
      <4>. QED
        BY <3>1, <3>2, <4>1, <4>2
    <3>. QED
      BY <3>3, <3>4
  <2>5. Walks(T, g, x)
    <3> HIDE DEF g
    <3>. QED
      BY <2>3, <2>4 DEF Walks
  <2>. QED
    BY <1>3, <2>5
<1>. QED
  BY <1>4, <1>5

\* Two walks agree as far as both go.
LEMMA WalkUnique ==
  ASSUME NEW T, NEW N \in Nat, NEW M \in Nat, N <= M,
         NEW g, Walks(T, g, N), NEW h, Walks(T, h, M)
  PROVE  \A n \in 0..N : g[n] = h[n]
<1> DEFINE Bad == {n \in 0..N : g[n] # h[n]}
<1>1. SUFFICES ASSUME Bad # {} PROVE FALSE
  OBVIOUS
<1>2. PICK x \in Bad : \A y \in Bad : x <= y
  <2>1. Bad \subseteq Nat
    OBVIOUS
  <2> HIDE DEF Bad
  <2>. QED
    BY <1>1, <2>1, LeastNat
<1>3. x \in 0..N /\ x \in 0..M /\ g[x] # h[x]
  OBVIOUS
<1>4. ASSUME NEW y \in 0..N, y < x PROVE g[y] = h[y]
  BY <1>2, <1>4
<1>5. x > 1 => g[x - 1] = h[x - 1]
  BY <1>3, <1>4
<1>6. x > 2 => g[x - 2] = h[x - 2]
  BY <1>3, <1>4
<1>7. Walk(T, g, x) <=> Walk(T, h, x)
  BY <1>5, <1>6 DEF Walk
<1>8. g[x] \in BOOLEAN /\ h[x] \in BOOLEAN /\ (g[x] <=> Walk(T, g, x)) /\ (h[x] <=> Walk(T, h, x))
  BY <1>3 DEF Walks
<1>. QED
  BY <1>3, <1>7, <1>8

\* The walk over all positions.
LEMMA WalkFunction ==
  ASSUME NEW T
  PROVE  \E f : f = [n \in Nat |-> Walk(T, f, n)]
<1> DEFINE W(n) == CHOOSE g : Walks(T, g, n)
           f == [n \in Nat |-> W(n)[n]]
<1>1. ASSUME NEW n \in Nat PROVE Walks(T, W(n), n)
  BY WalkExists
<1> HIDE DEF W
<1>2. ASSUME NEW n \in Nat, NEW k \in Nat, k <= n PROVE W(n)[k] = f[k]
  <2>1. k \in 0..k /\ Walks(T, W(k), k) /\ Walks(T, W(n), n)
    BY <1>1
  <2>2. W(k)[k] = W(n)[k]
    BY <1>2, <2>1, WalkUnique
  <2>. QED
    BY <2>2
<1>3. ASSUME NEW n \in Nat PROVE f[n] = Walk(T, f, n)
  <2>1. W(n)[n] \in BOOLEAN /\ (W(n)[n] <=> Walk(T, W(n), n))
    BY <1>1 DEF Walks
  <2>2. n > 1 => W(n)[n - 1] = f[n - 1]
    BY <1>2
  <2>3. n > 2 => W(n)[n - 2] = f[n - 2]
    BY <1>2
  <2>4. f[n] = W(n)[n]
    OBVIOUS
  <2> HIDE DEF f
  <2>5. Walk(T, W(n), n) <=> Walk(T, f, n)
    BY <2>2, <2>3 DEF Walk
  <2>6. Walk(T, f, n) \in BOOLEAN
    BY DEF Walk
  <2>. QED
    BY <2>1, <2>4, <2>5, <2>6
<1>4. f = [n \in Nat |-> Walk(T, f, n)]
  <2>1. f = [n \in Nat |-> f[n]]
    OBVIOUS
  <2> HIDE DEF f
  <2>. QED
    BY <1>3, <2>1
<1>. QED
  BY <1>4

\* OptionAt satisfies its defining equation.
LEMMA OptionAtEquation ==
  ASSUME NEW n \in Nat
  PROVE  OptionAt[n] <=> \/ n = 1
                         \/ n > 1 /\ OptionAt[n - 1] /\ ~TakesValue(n - 1)
                         \/ n > 2 /\ OptionAt[n - 2] /\ TakesValue(n - 2)
<1> DEFINE T == {m \in Nat : TakesValue(m)}
           B(f, k) == \/ k = 1
                      \/ k > 1 /\ f[k - 1] /\ ~TakesValue(k - 1)
                      \/ k > 2 /\ f[k - 2] /\ TakesValue(k - 2)
<1>1. OptionAt = CHOOSE f : f = [k \in Nat |-> B(f, k)]
  BY DEF OptionAt
<1>2. ASSUME NEW f, NEW k \in Nat PROVE Walk(T, f, k) = B(f, k)
  <2>1. k > 1 => (k - 1 \in T <=> TakesValue(k - 1))
    OBVIOUS
  <2>2. k > 2 => (k - 2 \in T <=> TakesValue(k - 2))
    OBVIOUS
  <2> HIDE DEF T
  <2>. QED
    BY <2>1, <2>2 DEF Walk
<1>3. \E f : f = [k \in Nat |-> B(f, k)]
  <2>1. PICK f : f = [k \in Nat |-> Walk(T, f, k)]
    BY WalkFunction
  <2>2. [k \in Nat |-> Walk(T, f, k)] = [k \in Nat |-> B(f, k)]
    <3> HIDE DEF T, B
    <3>. QED
      BY <1>2
  <2>. QED
    BY <2>1, <2>2
<1>4. OptionAt = [k \in Nat |-> B(OptionAt, k)]
  <2> HIDE DEF B
  <2>. QED
    BY <1>1, <1>3
<1>5. OptionAt[n] = B(OptionAt, n)
  <2> HIDE DEF B
  <2>. QED
    BY <1>4
<1>. QED
  BY <1>5

\* From an option the walk goes on to the next one, past its value.
LEMMA OptionSteps ==
  ASSUME NEW n \in Nat \ {0}, OptionAt[n]
  PROVE  /\ ~TakesValue(n) => OptionAt[n + 1]
         /\ TakesValue(n) => OptionAt[n + 2] /\ ~OptionAt[n + 1]
<1>1. n + 1 \in Nat /\ n + 2 \in Nat /\ n + 1 > 1 /\ n + 2 > 2
      /\ (n + 1) - 1 = n /\ (n + 2) - 2 = n
  OBVIOUS
<1>2. ~TakesValue(n) => OptionAt[n + 1]
  BY <1>1, OptionAtEquation
<1>3. TakesValue(n) => OptionAt[n + 2]
  BY <1>1, OptionAtEquation
<1>4. TakesValue(n) => ~OptionAt[n + 1]
  <2> DEFINE Bad == {m \in Nat \ {0} : OptionAt[m] /\ TakesValue(m) /\ OptionAt[m + 1]}
  <2>1. SUFFICES ASSUME Bad # {} PROVE FALSE
    OBVIOUS
  <2>2. PICK x \in Bad : \A y \in Bad : x <= y
    <3>1. Bad \subseteq Nat
      OBVIOUS
    <3> HIDE DEF Bad
    <3>. QED
      BY <2>1, <3>1, LeastNat
  <2>3. x \in Nat \ {0} /\ OptionAt[x] /\ TakesValue(x) /\ OptionAt[x + 1]
    OBVIOUS
  <2>4. x + 1 \in Nat /\ x + 1 # 1 /\ (x + 1) - 1 = x /\ (x + 1) - 2 = x - 1
    BY <2>3
  <2>5. x + 1 > 2 /\ OptionAt[x - 1] /\ TakesValue(x - 1)
    BY <2>3, <2>4, OptionAtEquation
  <2>6. x - 1 \in Nat \ {0} /\ (x - 1) + 1 = x
    BY <2>3, <2>5
  <2>7. x - 1 \in Bad
    BY <2>3, <2>5, <2>6
  <2>. QED
    BY <2>2, <2>3, <2>7
<1>. QED
  BY <1>2, <1>3, <1>4

\* What is asked for depends on the command line alone.
LEMMA SameArguments ==
  ASSUME argv' = argv
  PROVE  /\ OptionAt' = OptionAt
         /\ Options' = Options
         /\ Unambiguous' = Unambiguous
         /\ \A n : TakesValue(n)' = TakesValue(n)
         /\ \A n : ValueAt(n)' = ValueAt(n)
         /\ \A n, k : CliValue(n, k)' = CliValue(n, k)
         /\ \A n, m, k : IniValue(n, m, k)' = IniValue(n, m, k)
         /\ \A k : IniSettings(k)' = IniSettings(k)
         /\ \A k : CliSettings(k)' = CliSettings(k)
         /\ \A S, k : FromFiles(S, k)' = FromFiles(S, k)
         /\ \A S, k : FromOptions(S, k)' = FromOptions(S, k)
         /\ \A k : Wanted(k)' = Wanted(k)
<1>1. \A n : TakesValue(n)' = TakesValue(n)
  BY DEF TakesValue
<1>2. OptionAt' = OptionAt
  BY DEF OptionAt, TakesValue
<1>3. Options' = Options
  BY <1>2 DEF Options
<1>4. Unambiguous' = Unambiguous
  BY <1>1, <1>3 DEF Unambiguous
<1>5. \A n : ValueAt(n)' = ValueAt(n)
  BY <1>1, <1>2 DEF ValueAt
<1>6. \A n, k : CliValue(n, k)' = CliValue(n, k)
  BY <1>1 DEF CliValue
<1>7. \A n, m, k : IniValue(n, m, k)' = IniValue(n, m, k)
  BY DEF IniValue
<1>8. \A k : IniSettings(k)' = IniSettings(k)
  BY <1>3, <1>7 DEF IniSettings, LoadsFile
<1>9. \A k : CliSettings(k)' = CliSettings(k)
  BY <1>3, <1>6 DEF CliSettings
<1>10. \A S, k : FromFiles(S, k)' = FromFiles(S, k)
  BY <1>7 DEF FromFiles
<1>11. \A S, k : FromOptions(S, k)' = FromOptions(S, k)
  BY <1>6, <1>8, <1>10 DEF FromOptions
<1>12. \A k : Wanted(k)' = Wanted(k)
  BY <1>9, <1>11 DEF Wanted
<1>. QED
  BY <1>1, <1>2, <1>3, <1>4, <1>5, <1>6, <1>7, <1>8, <1>9, <1>10, <1>11, <1>12

-----------------------------------------------------------------------------
(* The settings read so far.                                               *)

\* A line that sets a field, and back.
LEMMA IniElement ==
  ASSUME NEW k, NEW p \in IniSettings(k)
  PROVE  /\ p = <<p[1], p[2]>> /\ p[1] \in Options /\ p[1] \in Nat \ {0}
         /\ LoadsFile(p[1])
         /\ p[2] \in 1..Len(Files[argv[p[1] + 1]]) /\ p[2] \in Nat \ {0}
         /\ IniValue(p[1], p[2], k) # {}
<1>1. PICK n \in Options : /\ LoadsFile(n)
                           /\ p \in {n} \X (1..Len(Files[argv[n + 1]]))
                           /\ IniValue(p[1], p[2], k) # {}
  BY DEF IniSettings
<1>2. p[1] = n /\ p[2] \in 1..Len(Files[argv[n + 1]]) /\ p = <<p[1], p[2]>>
  <2> DEFINE S == 1..Len(Files[argv[n + 1]])
  <2>1. p \in {n} \X S
    BY <1>1
  <2> HIDE DEF S
  <2>2. p[1] = n /\ p[2] \in S /\ p = <<p[1], p[2]>>
    BY <2>1
  <2>. QED
    BY <2>2 DEF S
<1>3. n \in Nat \ {0}
  BY DEF Options
<1>4. p[2] \in Nat \ {0}
  BY <1>2
<1>. QED
  BY <1>1, <1>2, <1>3, <1>4

LEMMA IniMember ==
  ASSUME NEW k, NEW n \in Options, LoadsFile(n), NEW m \in 1..Len(Files[argv[n + 1]]),
         IniValue(n, m, k) # {}
  PROVE  <<n, m>> \in IniSettings(k)
<1>1. <<n, m>> \in {n} \X (1..Len(Files[argv[n + 1]]))
  OBVIOUS
<1>. QED
  BY <1>1 DEF IniSettings

\* The last setting is the one that was added last.
LEMMA LastLine ==
  ASSUME NEW S, NEW a \in Nat, NEW b \in Nat,
         \A p \in S : p[1] \in Nat /\ p[2] \in Nat /\ LineBefore(p, <<a, b>>)
  PROVE  Last(S \cup {<<a, b>>}, LineBefore) = <<a, b>>
<1> DEFINE q == <<a, b>>
           G(x) == \A y \in S \cup {q} : x = y \/ LineBefore(y, x)
<1>1. q[1] = a /\ q[2] = b
  OBVIOUS
<1> HIDE DEF q
<1>2. G(q)
  BY DEF q
<1>3. ASSUME NEW x \in S PROVE ~G(x)
  <2>1. LineBefore(x, q) /\ x[1] \in Nat /\ x[2] \in Nat
    BY DEF q
  <2>2. ~LineBefore(q, x) /\ x # q
    BY <1>1, <2>1 DEF LineBefore
  <2>. QED
    BY <2>2
<1>4. Last(S \cup {q}, LineBefore) = CHOOSE x \in S \cup {q} : G(x)
  BY DEF Last
<1> HIDE DEF G
<1>. QED
  BY <1>2, <1>3, <1>4 DEF q

LEMMA LastOption ==
  ASSUME NEW S, NEW n \in Nat, \A m \in S : m \in Nat /\ m < n
  PROVE  Last(S \cup {n}, Before) = n
<1> DEFINE G(x) == \A y \in S \cup {n} : x = y \/ Before(y, x)
<1>1. G(n)
  BY DEF Before
<1>2. ASSUME NEW x \in S PROVE ~G(x)
  BY DEF Before
<1>3. Last(S \cup {n}, Before) = CHOOSE x \in S \cup {n} : G(x)
  BY DEF Last
<1> HIDE DEF G
<1>. QED
  BY <1>1, <1>2, <1>3

\* Options are positions with OptionAt.
LEMMA OptionElement ==
  ASSUME Len(argv) \in Nat
  PROVE  /\ Options \subseteq Nat \ {0}
         /\ \A n \in Nat \ {0} : n \in Options <=> n <= Len(argv) /\ OptionAt[n]
  BY DEF Options

\* An argument that is not a --config with a file adds no line.
LEMMA NothingRead ==
  ASSUME Len(argv) \in Nat, NEW k, NEW a \in Nat, NEW b \in Nat, a <= b,
         \A n \in Options : a <= n /\ n < b => ~LoadsFile(n)
  PROVE  ReadFiles(k, <<b, 1>>) = ReadFiles(k, <<a, 1>>)
<1>1. ASSUME NEW p \in IniSettings(k)
      PROVE  LineBefore(p, <<b, 1>>) <=> LineBefore(p, <<a, 1>>)
  <2>1. /\ p[1] \in Options /\ p[1] \in Nat \ {0} /\ p[2] \in Nat \ {0}
        /\ LoadsFile(p[1])
    BY IniElement
  <2>2. ~(a <= p[1] /\ p[1] < b)
    BY <2>1
  <2>. QED
    BY <2>1, <2>2 DEF LineBefore
<1>. QED
  BY <1>1 DEF ReadFiles

-----------------------------------------------------------------------------
(* The first pass.                                                         *)

\* The hypotheses of the step lemmas.
Reading == ParseInv /\ Unambiguous /\ parser \in {"configs", "file", "options", "ok"}
Read == PositionInv /\ ValuesInv /\ NumbersInv

LEMMA ReadingParts ==
  ASSUME Reading
  PROVE  /\ Len(argv) \in Nat /\ i \in Nat \ {0} /\ line \in Nat \ {0}
         /\ DOMAIN cfg = Fields /\ CfgFits /\ PositionInv /\ NumbersInv
         /\ parser = "configs" =>
              \A k \in Fields : {cfg[k]} = FromFiles(ReadFiles(k, <<i, 1>>), k)
         /\ parser = "file" =>
              \A k \in Fields : {cfg[k]} = FromFiles(ReadFiles(k, <<i - 2, line>>), k)
         /\ parser = "options" =>
              \A k \in Fields : {cfg[k]} = FromOptions(ReadOptions(k), k)
<1>1. /\ Len(argv) \in Nat /\ i \in Nat \ {0} /\ line \in Nat \ {0}
      /\ DOMAIN cfg = Fields /\ CfgFits
  BY CfgTyped DEF Reading, ParseInv, CfgFits
<1>2. PositionInv /\ NumbersInv /\ ValuesInv
  BY DEF Reading, ParseInv
<1>. QED
  BY <1>1, <1>2 DEF ValuesInv

LEMMA ConfigsRead ==
  ASSUME parser' = "configs", argv' = argv, DOMAIN cfg' = Fields,
         OptionAt[i'] \/ ValueAt(i'),
         \A k \in Fields : {cfg'[k]} = FromFiles(ReadFiles(k, <<i', 1>>), k)
  PROVE  Read'
<1>1. PositionInv'
  BY SameArguments DEF PositionInv
<1>2. ASSUME NEW k \in Fields
      PROVE  FromFiles(ReadFiles(k, <<i, 1>>), k)' = FromFiles(ReadFiles(k, <<i', 1>>), k)
  <2>1. ReadFiles(k, <<i, 1>>)' = ReadFiles(k, <<i', 1>>)
    BY SameArguments DEF ReadFiles
  <2>. QED
    BY <2>1, SameArguments DEF FromFiles
<1>3. ValuesInv'
  BY <1>2 DEF ValuesInv
<1>4. NumbersInv'
  BY DEF NumbersInv
<1>. QED
  BY <1>1, <1>3, <1>4 DEF Read

\* An argument that is neither --help nor --config.
LEMMA PassOverStep ==
  ASSUME Reading, pass_over, DOMAIN cfg' = Fields
  PROVE  Read'
<1>1. /\ Len(argv) \in Nat /\ i \in Nat \ {0} /\ DOMAIN cfg = Fields /\ PositionInv
      /\ parser = "configs" /\ parser' = "configs" /\ i <= Len(argv) /\ i' = i + 1
      /\ argv' = argv /\ cfg' = cfg /\ argv[i] # "--config"
      /\ \A k \in Fields : {cfg[k]} = FromFiles(ReadFiles(k, <<i, 1>>), k)
  BY ReadingParts DEF pass_over
<1>2. OptionAt[i'] \/ ValueAt(i')
  <2>1. i' \in Nat /\ i' > 1 /\ i' - 1 = i
    BY <1>1
  <2>2. CASE OptionAt[i] /\ ~TakesValue(i)
    BY <1>1, <2>2, OptionSteps
  <2>3. CASE OptionAt[i] /\ TakesValue(i)
    BY <1>1, <2>1, <2>3 DEF ValueAt
  <2>4. CASE ValueAt(i)
    <3>1. i > 1 /\ OptionAt[i - 1] /\ TakesValue(i - 1)
      BY <2>4 DEF ValueAt
    <3>2. i - 1 \in Nat \ {0} /\ (i - 1) + 2 = i'
      BY <1>1, <3>1
    <3>. QED
      BY <3>1, <3>2, OptionSteps
  <2>. QED
    BY <1>1, <2>2, <2>3, <2>4 DEF PositionInv
<1>3. ASSUME NEW k \in Fields PROVE ReadFiles(k, <<i', 1>>) = ReadFiles(k, <<i, 1>>)
  <2>1. i \in Nat /\ i' \in Nat /\ i <= i'
    BY <1>1
  <2>2. \A n \in Options : i <= n /\ n < i' => ~LoadsFile(n)
    <3>1. ASSUME NEW n \in Options, i <= n, n < i' PROVE n = i
      BY <1>1, <3>1, OptionElement
    <3>. QED
      BY <1>1, <3>1 DEF LoadsFile
  <2>. QED
    BY <1>1, <2>1, <2>2, NothingRead
<1>. QED
  BY <1>1, <1>2, <1>3, ConfigsRead

LEMMA FileRead ==
  ASSUME parser' = "file", argv' = argv, DOMAIN cfg' = Fields,
         NEW n, i' - 2 = n, i' - 1 = n + 1, i' > 2, i' - 1 <= Len(argv),
         OptionAt[n], argv[n] = "--config",
         file' = argv[n + 1], file' # NoFile, file' \in DOMAIN Files,
         section' = SectionAt(Files[file'], line'),
         \A k \in Fields : {cfg'[k]} = FromFiles(ReadFiles(k, <<n, line'>>), k)
  PROVE  Read'
<1>1. PositionInv'
  BY SameArguments DEF PositionInv
<1>2. ASSUME NEW k \in Fields
      PROVE  FromFiles(ReadFiles(k, <<i - 2, line>>), k)' = FromFiles(ReadFiles(k, <<n, line'>>), k)
  <2>1. ReadFiles(k, <<i - 2, line>>)' = ReadFiles(k, <<n, line'>>)
    BY SameArguments DEF ReadFiles
  <2>. QED
    BY <2>1, SameArguments DEF FromFiles
<1>3. ValuesInv'
  BY <1>2 DEF ValuesInv
<1>4. NumbersInv'
  BY DEF NumbersInv
<1>. QED
  BY <1>1, <1>3, <1>4 DEF Read

\* --config: the file named next is opened, or nothing is read.
LEMMA FindConfigStep ==
  ASSUME Reading, find_config, parser' # "error", DOMAIN cfg' = Fields
  PROVE  Read'
<1>1. /\ Len(argv) \in Nat /\ i \in Nat \ {0} /\ DOMAIN cfg = Fields /\ PositionInv
      /\ parser = "configs" /\ i < Len(argv) /\ argv[i] = "--config"
      /\ argv' = argv /\ cfg' = cfg
      /\ \A k \in Fields : {cfg[k]} = FromFiles(ReadFiles(k, <<i, 1>>), k)
  BY ReadingParts DEF find_config
<1>2. OptionAt[i]
  <2>1. ASSUME ValueAt(i) PROVE FALSE
    <3>1. i > 1 /\ OptionAt[i - 1] /\ TakesValue(i - 1)
      BY <2>1 DEF ValueAt
    <3>2. i - 1 \in Nat \ {0} /\ i - 1 <= Len(argv) /\ i - 1 < Len(argv) /\ (i - 1) + 1 = i
      BY <1>1, <3>1
    <3>3. i - 1 \in Options
      BY <1>1, <3>1, <3>2, OptionElement
    <3>4. argv[(i - 1) + 1] \notin Dashed \cup {"-h"}
      BY <3>1, <3>2, <3>3 DEF Reading, Unambiguous
    <3>. QED
      BY <1>1, <3>2, <3>4 DEF Dashed, Known
  <2>. QED
    BY <1>1, <2>1 DEF PositionInv
<1>3. TakesValue(i) /\ OptionAt[i + 2] /\ ~OptionAt[i + 1]
  <2>1. TakesValue(i)
    BY <1>1 DEF TakesValue
  <2>. QED
    BY <1>1, <1>2, <2>1, OptionSteps
<1>4. CASE argv[i + 1] = NoFile /\ i' = i + 2 /\ parser' = parser
  <2>1. i \in Nat /\ i' \in Nat /\ i <= i'
    BY <1>1, <1>4
  <2>2. ASSUME NEW n \in Options, i <= n, n < i' PROVE ~LoadsFile(n)
    <3>1. n \in Nat \ {0} /\ OptionAt[n]
      BY <1>1, OptionElement
    <3>2. n = i \/ n = i + 1
      BY <1>1, <1>4, <2>2, <3>1
    <3>. QED
      BY <1>3, <1>4, <3>1, <3>2 DEF LoadsFile
  <2>3. ASSUME NEW k \in Fields PROVE ReadFiles(k, <<i', 1>>) = ReadFiles(k, <<i, 1>>)
    BY <1>1, <2>1, <2>2, NothingRead
  <2>. QED
    BY <1>1, <1>3, <1>4, <2>3, ConfigsRead
<1>5. CASE /\ argv[i + 1] # NoFile /\ argv[i + 1] \in DOMAIN Files /\ parser' = "file"
           /\ file' = argv[i + 1] /\ line' = 1 /\ section' = Global /\ i' = i + 2
  <2>1. i' > 2 /\ i' - 2 = i /\ i' - 1 = i + 1 /\ i' - 1 <= Len(argv)
    BY <1>1, <1>5
  <2>2. section' = SectionAt(Files[file'], line')
    <3>1. 1..(line' - 1) = {}
      BY <1>5
    <3>. QED
      BY <1>5, <3>1 DEF SectionAt
  <2>. QED
    BY <1>1, <1>2, <1>5, <2>1, <2>2, FileRead
<1>6. maybe_load_config(argv[i + 1])
  BY <1>1 DEF find_config
<1>. QED
  BY <1>4, <1>5, <1>6 DEF maybe_load_config, cfg_load_file_opens

\* The section a line is in, from the one before it.
LEMMA SectionNext ==
  ASSUME NEW lines, NEW n \in Nat \ {0}
  PROVE  SectionAt(lines, n + 1) =
           IF lines[n].kind = "section" THEN lines[n].name ELSE SectionAt(lines, n)
<1> DEFINE H(k) == {h \in 1..(k - 1) : lines[h].kind = "section"}
<1>0. /\ SectionAt(lines, n) = IF H(n) = {} THEN Global
              ELSE lines[CHOOSE h \in H(n) : \A g \in H(n) : g <= h].name
      /\ SectionAt(lines, n + 1) = IF H(n + 1) = {} THEN Global
              ELSE lines[CHOOSE h \in H(n + 1) : \A g \in H(n + 1) : g <= h].name
  BY DEF SectionAt
<1>1. CASE lines[n].kind = "section"
  <2>1. n \in H(n + 1) /\ \A g \in H(n + 1) : g <= n /\ g \in Nat
    BY <1>1
  <2>2. (CHOOSE h \in H(n + 1) : \A g \in H(n + 1) : g <= h) = n
    <3> DEFINE S == H(n + 1)
    <3>1. \A h \in S : (\A g \in S : g <= h) => h = n
      BY <2>1
    <3> HIDE DEF S
    <3>. QED
      BY <2>1, <3>1 DEF S
  <2> HIDE DEF H
  <2>. QED
    BY <1>0, <1>1, <2>1, <2>2
<1>2. CASE lines[n].kind # "section"
  <2>1. H(n + 1) = H(n)
    BY <1>2
  <2> HIDE DEF H
  <2>. QED
    BY <1>0, <1>2, <2>1
<1>. QED
  BY <1>1, <1>2

\* What the line that is read next gives a field.
LEMMA LineValue ==
  ASSUME NEW n, NEW m \in Nat \ {0}, NEW k
  PROVE  LET lines == Files[argv[n + 1]]
             s == handle_section_key(SectionAt(lines, m), lines[m].key, lines[m].text)
         IN IniValue(n, m, k) =
              IF lines[m].kind = "set" /\ s # Invalid /\ s[1] = k THEN {s[2]} ELSE {}
<1> DEFINE lines == Files[argv[n + 1]]
           H == {h \in 1..m : lines[h].kind = "section"}
           H2 == {h \in 1..(m - 1) : lines[h].kind = "section"}
<1>1. CASE lines[m].kind = "set"
  <2>1. H = H2
    BY <1>1
  <2>. QED
    BY <1>1, <2>1, Zenon DEF IniValue, SectionAt
<1>2. CASE lines[m].kind # "set"
  BY <1>2 DEF IniValue
<1>. QED
  BY <1>1, <1>2

\* One line of a file.
LEMMA LoadLineStep ==
  ASSUME Reading, load_line, DOMAIN cfg' = Fields
  PROVE  Read'
<1> DEFINE n == i - 2
           lines == Files[file]
           l == lines[line]
           s == handle_section_key(section, l.key, l.text)
<1>1. /\ Len(argv) \in Nat /\ i \in Nat \ {0} /\ line \in Nat \ {0}
      /\ DOMAIN cfg = Fields /\ CfgFits
      /\ parser = "file" /\ parser' = "file" /\ line <= Len(lines) /\ line' = line + 1
      /\ argv' = argv /\ i' = i /\ file' = file
      /\ \A k \in Fields : {cfg[k]} = FromFiles(ReadFiles(k, <<n, line>>), k)
  BY ReadingParts DEF load_line
<1>2. /\ i > 2 /\ OptionAt[n] /\ argv[n] = "--config" /\ i - 1 <= Len(argv)
      /\ file = argv[i - 1] /\ file # NoFile /\ file \in DOMAIN Files
      /\ section = SectionAt(lines, line)
  BY <1>1, ReadingParts DEF PositionInv
<1>3. n \in Nat \ {0} /\ n + 1 = i - 1 /\ n < Len(argv) /\ n <= Len(argv)
  BY <1>1, <1>2
<1>4. file = argv[n + 1]
  BY <1>2, <1>3
<1>5. n \in Options /\ LoadsFile(n)
  BY <1>1, <1>2, <1>3, <1>4, OptionElement DEF LoadsFile
<1>6. Len(lines) \in Nat
  BY <1>2, ConfigAssumption
<1>7. section' = SectionAt(lines, line + 1)
  <2>1. section' = IF l.kind = "section" THEN l.name ELSE section
    BY DEF load_line
  <2>2. SectionAt(lines, line + 1) = IF l.kind = "section" THEN l.name ELSE SectionAt(lines, line)
    BY <1>1, SectionNext
  <2>. QED
    BY <1>2, <2>1, <2>2
<1>8. ASSUME NEW k \in Fields
      PROVE  /\ IniValue(n, line, k) =
                  IF l.kind = "set" /\ s # Invalid /\ s[1] = k THEN {s[2]} ELSE {}
             /\ cfg'[k] = IF l.kind = "set" /\ s # Invalid /\ s[1] = k THEN s[2] ELSE cfg[k]
  <2>1. IniValue(n, line, k) = IF l.kind = "set" /\ s # Invalid /\ s[1] = k THEN {s[2]} ELSE {}
    <3> DEFINE L == Files[argv[n + 1]]
               t == handle_section_key(SectionAt(L, line), L[line].key, L[line].text)
    <3>1. IniValue(n, line, k) = IF L[line].kind = "set" /\ t # Invalid /\ t[1] = k
                                 THEN {t[2]} ELSE {}
      <4> HIDE DEF n
      <4>. QED
        BY <1>1, LineValue
    <3>2. L = lines
      BY <1>4
    <3>3. t = s
      BY <1>2, <3>2
    <3> HIDE DEF t, s, L, lines
    <3>. QED
      BY <3>1, <3>2, <3>3
  <2>2. FitsSetting(s)
    BY LineFits
  <2>3. cfg' = IF l.kind = "set" THEN Apply(s) ELSE cfg
    BY DEF load_line
  <2>4. cfg'[k] = IF l.kind = "set" /\ s # Invalid /\ s[1] = k THEN s[2] ELSE cfg[k]
    <3> HIDE DEF s, l
    <3>1. CASE l.kind = "set"
      BY <1>1, <2>2, <2>3, <3>1, ApplyFits
    <3>2. CASE l.kind # "set"
      BY <2>3, <3>2
    <3>. QED
      BY <3>1, <3>2
  <2>. QED
    BY <2>1, <2>4
<1>9. ASSUME NEW k \in Fields
      PROVE  ReadFiles(k, <<n, line + 1>>) =
               IF IniValue(n, line, k) = {} THEN ReadFiles(k, <<n, line>>)
               ELSE ReadFiles(k, <<n, line>>) \cup {<<n, line>>}
  <2>1. ASSUME NEW p \in IniSettings(k)
        PROVE  LineBefore(p, <<n, line + 1>>) <=> LineBefore(p, <<n, line>>) \/ p = <<n, line>>
    <3>1. p = <<p[1], p[2]>> /\ p[1] \in Nat /\ p[2] \in Nat
      BY IniElement
    <3> DEFINE a == p[1]
               b == p[2]
    <3> HIDE DEF a, b, n
    <3>2. p = <<a, b>> /\ a \in Nat /\ b \in Nat
      BY <3>1 DEF a, b
    <3>3. p = <<n, line>> <=> a = n /\ b = line
      BY <3>2
    <3>4. /\ LineBefore(p, <<n, line + 1>>) <=> a < n \/ (a = n /\ b < line + 1)
          /\ LineBefore(p, <<n, line>>) <=> a < n \/ (a = n /\ b < line)
      BY DEF LineBefore, a, b
    <3>. QED
      BY <1>1, <3>2, <3>3, <3>4
  <2>2. <<n, line>> \in IniSettings(k) <=> IniValue(n, line, k) # {}
    <3>1. line \in 1..Len(Files[argv[n + 1]])
      BY <1>1, <1>4, <1>6
    <3>2. IniValue(n, line, k) # {} => <<n, line>> \in IniSettings(k)
      BY <1>5, <3>1, IniMember
    <3>3. <<n, line>>[1] = n /\ <<n, line>>[2] = line
      OBVIOUS
    <3>4. <<n, line>> \in IniSettings(k) => IniValue(n, line, k) # {}
      <4> HIDE DEF n
      <4>. QED
        BY <3>3, IniElement
    <3>. QED
      BY <3>2, <3>4
  <2> HIDE DEF n
  <2>. QED
    BY <2>1, <2>2 DEF ReadFiles
<1>10. ASSUME NEW k \in Fields
       PROVE  {cfg'[k]} = FromFiles(ReadFiles(k, <<n, line'>>), k)
  <2>1. CASE IniValue(n, line, k) = {}
    <3>1. cfg'[k] = cfg[k]
      BY <1>8, <2>1
    <3>. QED
      BY <1>1, <1>9, <2>1, <3>1
  <2>2. CASE IniValue(n, line, k) # {}
    <3> DEFINE S == ReadFiles(k, <<n, line>>)
    <3>1. \A p \in S : p[1] \in Nat /\ p[2] \in Nat /\ LineBefore(p, <<n, line>>)
      BY IniElement DEF ReadFiles
    <3>2. ReadFiles(k, <<n, line'>>) = S \cup {<<n, line>>}
      BY <1>1, <1>9, <2>2
    <3> HIDE DEF S
    <3>3. Last(S \cup {<<n, line>>}, LineBefore) = <<n, line>>
      BY <1>1, <1>3, <3>1, LastLine
    <3>4. FromFiles(S \cup {<<n, line>>}, k) = IniValue(n, line, k)
      BY <3>3 DEF FromFiles
    <3>5. IniValue(n, line, k) = {cfg'[k]}
      BY <1>8, <2>2
    <3>. QED
      BY <3>2, <3>4, <3>5
  <2>. QED
    BY <2>1, <2>2
<1> HIDE DEF n, lines
<1>11. i' - 2 = n /\ i' - 1 = n + 1 /\ i' > 2 /\ i' - 1 <= Len(argv)
  BY <1>1, <1>2, <1>3 DEF n
<1>12. section' = SectionAt(Files[file'], line')
  BY <1>1, <1>7 DEF lines
<1>. QED
  BY <1>1, <1>2, <1>4, <1>10, <1>11, <1>12, FileRead

\* The end of a file.
LEMMA LoadDoneStep ==
  ASSUME Reading, load_done, DOMAIN cfg' = Fields
  PROVE  Read'
<1> DEFINE n == i - 2
<1>1. /\ Len(argv) \in Nat /\ i \in Nat \ {0} /\ line \in Nat \ {0}
      /\ DOMAIN cfg = Fields
      /\ parser = "file" /\ parser' = "configs" /\ line > Len(Files[file])
      /\ argv' = argv /\ i' = i /\ cfg' = cfg
      /\ \A k \in Fields : {cfg[k]} = FromFiles(ReadFiles(k, <<n, line>>), k)
  BY ReadingParts DEF load_done
<1>2. /\ i > 2 /\ OptionAt[n] /\ argv[n] = "--config"
      /\ file = argv[i - 1] /\ file \in DOMAIN Files
  BY <1>1, ReadingParts DEF PositionInv
<1>3. n \in Nat \ {0} /\ n + 1 = i - 1 /\ n + 2 = i
  BY <1>1, <1>2
<1>4. file = argv[n + 1] /\ Len(Files[file]) \in Nat
  BY <1>2, <1>3, ConfigAssumption
<1>5. OptionAt[i] /\ ~OptionAt[n + 1]
  <2>1. TakesValue(n)
    BY <1>2 DEF TakesValue
  <2>. QED
    BY <1>2, <1>3, <2>1, OptionSteps
<1>6. ASSUME NEW k \in Fields PROVE ReadFiles(k, <<i, 1>>) = ReadFiles(k, <<n, line>>)
  <2>1. ASSUME NEW p \in IniSettings(k)
        PROVE  LineBefore(p, <<i, 1>>) <=> LineBefore(p, <<n, line>>)
    <3> DEFINE a == p[1]
               b == p[2]
    <3>1. /\ a \in Options /\ a \in Nat \ {0} /\ b \in Nat \ {0}
          /\ b \in 1..Len(Files[argv[a + 1]])
      BY IniElement
    <3>2. a # n + 1
      BY <1>1, <1>5, <3>1, OptionElement
    <3>3. a = n => b < line
      BY <1>1, <1>4, <3>1
    <3>4. /\ LineBefore(p, <<i, 1>>) <=> a < i \/ (a = i /\ b < 1)
          /\ LineBefore(p, <<n, line>>) <=> a < n \/ (a = n /\ b < line)
      BY DEF LineBefore
    <3> HIDE DEF a, b, n
    <3>. QED
      BY <1>1, <1>3, <3>1, <3>2, <3>3, <3>4
  <2>. QED
    BY <2>1 DEF ReadFiles
<1> HIDE DEF n
<1>. QED
  BY <1>1, <1>5, <1>6, ConfigsRead

-----------------------------------------------------------------------------
(* The second pass.                                                        *)

\* The second pass with more options behind it.
LEMMA OptionsRead ==
  ASSUME parser' = "options", argv' = argv, DOMAIN cfg' = Fields, OptionAt[i'],
         \A k \in Fields :
           {cfg'[k]} = FromOptions({n \in Options : n < i' /\ CliValue(n, k) # {}}, k),
         \A n \in Options : argv[n] \in DOMAIN IntOptions /\ n < i' =>
                              argv[n + 1] \in DOMAIN Numbers
  PROVE  Read'
<1>1. PositionInv'
  BY SameArguments DEF PositionInv
<1>2. ASSUME NEW k \in Fields
      PROVE  FromOptions(ReadOptions(k), k)'
               = FromOptions({n \in Options : n < i' /\ CliValue(n, k) # {}}, k)
  <2>1. ReadOptions(k)' = {n \in Options : n < i' /\ CliValue(n, k) # {}}
    BY SameArguments DEF ReadOptions
  <2>. QED
    BY <2>1, SameArguments DEF FromOptions
<1>3. ValuesInv'
  BY <1>2 DEF ValuesInv
<1>4. NumbersInv'
  BY SameArguments DEF NumbersInv
<1>. QED
  BY <1>1, <1>3, <1>4 DEF Read

\* The second pass begins with what the files have left in cfg.
LEMMA FirstPassDoneStep ==
  ASSUME Reading, first_pass_done, DOMAIN cfg' = Fields
  PROVE  Read'
<1>1. /\ Len(argv) \in Nat /\ i \in Nat \ {0} /\ DOMAIN cfg = Fields
      /\ parser = "configs" /\ parser' = "options" /\ i > Len(argv) /\ i' = 1
      /\ argv' = argv /\ cfg' = cfg
      /\ \A k \in Fields : {cfg[k]} = FromFiles(ReadFiles(k, <<i, 1>>), k)
  BY ReadingParts DEF first_pass_done
<1>2. OptionAt[i']
  BY <1>1, OptionAtEquation
<1>3. \A n \in Options : ~(n < i')
  BY <1>1, OptionElement
<1>4. ASSUME NEW k \in Fields
      PROVE  {cfg'[k]} = FromOptions({n \in Options : n < i' /\ CliValue(n, k) # {}}, k)
  <2>1. {n \in Options : n < i' /\ CliValue(n, k) # {}} = {}
    BY <1>3
  <2>2. ReadFiles(k, <<i, 1>>) = IniSettings(k)
    <3>1. ASSUME NEW p \in IniSettings(k) PROVE LineBefore(p, <<i, 1>>)
      <4>1. p[1] \in Nat \ {0} /\ p[1] < Len(argv)
        BY IniElement DEF LoadsFile
      <4>2. p[1] < i
        BY <1>1, <4>1
      <4>. QED
        BY <4>2 DEF LineBefore
    <3>. QED
      BY <3>1 DEF ReadFiles
  <2>. QED
    BY <1>1, <2>1, <2>2 DEF FromOptions
<1>. QED
  BY <1>1, <1>2, <1>3, <1>4, OptionsRead

\* An option that sets the fields CliValue says, and no other.
LEMMA TakeStep ==
  ASSUME Reading, parser = "options", i <= Len(argv), DOMAIN cfg' = Fields,
         NEW w \in {1, 2}, w = IF TakesValue(i) THEN 2 ELSE 1, Take(w),
         \A k \in Fields : IF CliValue(i, k) = {} THEN cfg'[k] = cfg[k]
                                                  ELSE CliValue(i, k) = {cfg'[k]},
         argv[i] \in DOMAIN IntOptions => argv[i + 1] \in DOMAIN Numbers
  PROVE  Read'
<1>1. /\ Len(argv) \in Nat /\ i \in Nat \ {0} /\ DOMAIN cfg = Fields /\ NumbersInv
      /\ parser' = "options" /\ i' = i + w /\ argv' = argv /\ OptionAt[i]
      /\ \A k \in Fields : {cfg[k]} = FromOptions(ReadOptions(k), k)
  BY ReadingParts DEF Take, PositionInv
<1>2. OptionAt[i'] /\ (w = 2 => ~OptionAt[i + 1])
  BY <1>1, OptionSteps
<1>3. i \in Options
  BY <1>1, OptionElement
<1>4. ASSUME NEW n \in Options PROVE n < i' <=> n < i \/ n = i
  <2>1. n \in Nat \ {0} /\ OptionAt[n]
    BY <1>1, OptionElement
  <2>2. w = 2 => n # i + 1
    BY <1>2, <2>1
  <2>. QED
    BY <1>1, <2>1, <2>2
<1>5. \A n \in Options : argv[n] \in DOMAIN IntOptions /\ n < i' => argv[n + 1] \in DOMAIN Numbers
  BY <1>1, <1>4 DEF NumbersInv
<1>6. ASSUME NEW k \in Fields
      PROVE  {cfg'[k]} = FromOptions({n \in Options : n < i' /\ CliValue(n, k) # {}}, k)
  <2> DEFINE S == ReadOptions(k)
             S2 == {n \in Options : n < i' /\ CliValue(n, k) # {}}
  <2>1. CASE CliValue(i, k) = {}
    <3>1. S2 = S
      BY <1>4, <2>1 DEF ReadOptions
    <3>2. cfg'[k] = cfg[k]
      BY <2>1
    <3>. QED
      BY <1>1, <3>1, <3>2
  <2>2. CASE CliValue(i, k) # {}
    <3>1. S2 = S \cup {i}
      BY <1>3, <1>4, <2>2 DEF ReadOptions
    <3>2. \A n \in S : n \in Nat /\ n < i
      BY <1>1, OptionElement DEF ReadOptions
    <3> HIDE DEF S, S2
    <3>3. Last(S \cup {i}, Before) = i
      BY <1>1, <3>2, LastOption
    <3>4. FromOptions(S \cup {i}, k) = CliValue(i, k)
      BY <3>3 DEF FromOptions
    <3>5. CliValue(i, k) = {cfg'[k]}
      BY <2>2
    <3>6. FromOptions(S2, k) = {cfg'[k]}
      BY <3>1, <3>4, <3>5
    <3>. QED
      BY <3>6 DEF S2
  <2>. QED
    BY <2>1, <2>2
<1>. QED
  BY <1>1, <1>2, <1>5, <1>6, OptionsRead

\* What each option sets.
LEMMA CliValues ==
  ASSUME NEW n, NEW k
  PROVE  /\ argv[n] \in DOMAIN TextOptions =>
              CliValue(n, k) = IF k = TextOptions[argv[n]] THEN {argv[n + 1]} ELSE {}
         /\ argv[n] \in DOMAIN IntOptions =>
              CliValue(n, k) = IF k = IntOptions[argv[n]]
                               THEN {parse_int(k, argv[n + 1])[2]} ELSE {}
         /\ argv[n] = "--record-mode" =>
              CliValue(n, k) = IF k = "record_mode"
                               THEN {cfg_parse_record_mode(argv[n + 1])[2]} ELSE {}
         /\ argv[n] = "--record-video" =>
              CliValue(n, k) = IF k = "record_enable" THEN {1}
                               ELSE IF k = "record_path" /\ TakesValue(n) THEN {argv[n + 1]}
                               ELSE {}
         /\ argv[n] = "--no-record-video" =>
              CliValue(n, k) = IF k = "record_enable" THEN {0} ELSE {}
         /\ argv[n] = "--gst-log" => CliValue(n, k) = IF k = "gst_log" THEN {1} ELSE {}
         /\ argv[n] \in {"--verbose", "--config"} => CliValue(n, k) = {}
<1>1. argv[n] \in DOMAIN TextOptions =>
        CliValue(n, k) = IF k = TextOptions[argv[n]] THEN {argv[n + 1]} ELSE {}
  BY TextTable, IntTable DEF CliValue
<1>2. argv[n] \in DOMAIN IntOptions =>
        CliValue(n, k) = IF k = IntOptions[argv[n]]
                         THEN {parse_int(k, argv[n + 1])[2]} ELSE {}
  BY TextTable, IntTable DEF CliValue
<1>3. argv[n] = "--record-mode" =>
        CliValue(n, k) = IF k = "record_mode"
                         THEN {cfg_parse_record_mode(argv[n + 1])[2]} ELSE {}
  BY TextTable, IntTable DEF CliValue
<1>4. argv[n] = "--record-video" =>
        CliValue(n, k) = IF k = "record_enable" THEN {1}
                         ELSE IF k = "record_path" /\ TakesValue(n) THEN {argv[n + 1]}
                         ELSE {}
  BY TextTable, IntTable DEF CliValue
<1>5. /\ argv[n] = "--no-record-video" =>
           CliValue(n, k) = IF k = "record_enable" THEN {0} ELSE {}
      /\ argv[n] = "--gst-log" => CliValue(n, k) = IF k = "gst_log" THEN {1} ELSE {}
      /\ argv[n] \in {"--verbose", "--config"} => CliValue(n, k) = {}
  BY TextTable, IntTable DEF CliValue
<1>. QED
  BY <1>1, <1>2, <1>3, <1>4, <1>5

\* Which options take a value.
LEMMA ValueTakers ==
  ASSUME NEW n
  PROVE  /\ argv[n] \in DOMAIN TextOptions \/ argv[n] \in DOMAIN IntOptions
              \/ argv[n] \in {"--record-mode", "--config"} => TakesValue(n)
         /\ argv[n] = "--record-video" =>
              (TakesValue(n) <=> n < Len(argv) /\ argv[n + 1] \notin Dashed)
         /\ argv[n] \in {"--no-record-video", "--gst-log", "--verbose"} => ~TakesValue(n)
  BY TextTable, IntTable DEF TakesValue

\* An option with a value.
LEMMA ValuedStep ==
  ASSUME Reading, parser = "options", i <= Len(argv), DOMAIN cfg' = Fields, TakesValue(i),
         NEW s, FitsSetting(s), s # Invalid, cfg' = Apply(s), Take(2),
         \A k \in Fields : CliValue(i, k) = IF s[1] = k THEN {s[2]} ELSE {},
         argv[i] \in DOMAIN IntOptions => argv[i + 1] \in DOMAIN Numbers
  PROVE  Read'
<1>1. \A k \in Fields : cfg'[k] = IF s[1] = k THEN s[2] ELSE cfg[k]
  BY ReadingParts, ApplyFits
<1>2. \A k \in Fields : IF CliValue(i, k) = {} THEN cfg'[k] = cfg[k]
                                               ELSE CliValue(i, k) = {cfg'[k]}
  BY <1>1
<1>. QED
  BY <1>2, TakeStep

\* Every option of the second pass.
LEMMA OptionStep ==
  ASSUME Reading, DOMAIN cfg' = Fields, parser' # "error",
         \/ skip_config \/ text_option \/ int_option \/ record_mode_option
         \/ record_video_option \/ no_record_option \/ flag_option \/ unknown_option
  PROVE  Read'
<1>1. parser = "options" /\ i <= Len(argv) /\ DOMAIN cfg = Fields
      /\ i \in Nat /\ Len(argv) \in Nat
  BY ReadingParts DEF skip_config, text_option, int_option, record_mode_option,
     record_video_option, no_record_option, flag_option, unknown_option, AtOption
<1>2. ~Fail
  BY DEF Fail
<1>3. CASE skip_config
  <2>1. argv[i] = "--config" /\ Take(2) /\ cfg' = cfg
    BY <1>3 DEF skip_config, AtOption
  <2>2. argv[i] \notin DOMAIN IntOptions
    BY <2>1, IntTable
  <2>. QED
    BY <1>1, <2>1, <2>2, CliValues, ValueTakers, TakeStep
<1>4. CASE text_option
  <2> DEFINE f == TextOptions[argv[i]]
             s == Setting(f, argv[i + 1])
  <2>1. argv[i] \in DOMAIN TextOptions /\ cfg' = Apply(s) /\ Take(2)
    BY <1>2, <1>4 DEF text_option, AtOption, Valued
  <2>2. f \in TextFields /\ argv[i] \notin DOMAIN IntOptions
    BY <2>1, TextTable, IntTable DEF TextFields
  <2>3. s # Invalid /\ s[1] = f /\ s[2] = argv[i + 1]
    BY SettingParts
  <2> HIDE DEF s
  <2>4. FitsSetting(s)
    BY <2>2, <2>3 DEF FitsSetting, Fits, Fields, TextFields, IntFields, BoolFields
  <2>5. \A k \in Fields : CliValue(i, k) = IF s[1] = k THEN {s[2]} ELSE {}
    BY <2>1, <2>3, CliValues
  <2>. QED
    BY <1>1, <2>1, <2>2, <2>3, <2>4, <2>5, ValueTakers, ValuedStep
<1>5. CASE int_option
  <2> DEFINE f == IntOptions[argv[i]]
             s == parse_int(f, argv[i + 1])
  <2>1. argv[i] \in DOMAIN IntOptions /\ s # Invalid /\ cfg' = Apply(s) /\ Take(2)
    BY <1>2, <1>5 DEF int_option, AtOption, Valued
  <2>2. f \in IntFields
    BY <2>1, IntTableRange
  <2>3. argv[i + 1] \in DOMAIN Numbers /\ s[1] = f
    BY <2>1, SettingParts DEF parse_int
  <2>4. FitsSetting(s)
    BY <2>2, ParsedFit
  <2>5. ASSUME NEW k \in Fields PROVE CliValue(i, k) = IF s[1] = k THEN {s[2]} ELSE {}
    BY <2>1, <2>3, CliValues
  <2> HIDE DEF s
  <2>. QED
    BY <1>1, <2>1, <2>3, <2>4, <2>5, ValueTakers, ValuedStep
<1>6. CASE record_mode_option
  <2> DEFINE s == cfg_parse_record_mode(argv[i + 1])
  <2>1. argv[i] = "--record-mode" /\ s # Invalid /\ cfg' = Apply(s) /\ Take(2)
    BY <1>2, <1>6 DEF record_mode_option, AtOption, Valued
  <2>2. s[1] = "record_mode"
    BY <2>1, SettingParts DEF cfg_parse_record_mode
  <2>3. FitsSetting(s) /\ argv[i] \notin DOMAIN IntOptions
    BY <2>1, ParsedFit, IntTable
  <2>4. ASSUME NEW k \in Fields PROVE CliValue(i, k) = IF s[1] = k THEN {s[2]} ELSE {}
    BY <2>1, <2>2, CliValues
  <2> HIDE DEF s
  <2>. QED
    BY <1>1, <2>1, <2>3, <2>4, ValueTakers, ValuedStep
<1>7. CASE record_video_option
  <2>1. argv[i] = "--record-video" /\ argv[i] \notin DOMAIN IntOptions
    BY <1>7, IntTable DEF record_video_option, AtOption
  <2>2. CASE TakesValue(i)
    <3>1. Take(2) /\ cfg' = [cfg EXCEPT !.record_enable = 1, !.record_path = argv[i + 1]]
      BY <1>7, <2>1, <2>2, ValueTakers DEF record_video_option
    <3>2. \A k \in Fields : cfg'[k] = IF k = "record_enable" THEN 1
                                      ELSE IF k = "record_path" THEN argv[i + 1] ELSE cfg[k]
      BY <1>1, <3>1
    <3>3. \A k \in Fields : IF CliValue(i, k) = {} THEN cfg'[k] = cfg[k]
                                                   ELSE CliValue(i, k) = {cfg'[k]}
      BY <2>1, <2>2, <3>2, CliValues
    <3>. QED
      BY <1>1, <2>1, <2>2, <3>1, <3>3, TakeStep
  <2>3. CASE ~TakesValue(i)
    <3>1. Take(1) /\ cfg' = [cfg EXCEPT !.record_enable = 1]
      BY <1>7, <2>1, <2>3, ValueTakers DEF record_video_option
    <3>2. \A k \in Fields : cfg'[k] = IF k = "record_enable" THEN 1 ELSE cfg[k]
      BY <1>1, <3>1
    <3>3. \A k \in Fields : IF CliValue(i, k) = {} THEN cfg'[k] = cfg[k]
                                                   ELSE CliValue(i, k) = {cfg'[k]}
      BY <2>1, <2>3, <3>2, CliValues
    <3>. QED
      BY <1>1, <2>1, <2>3, <3>1, <3>3, TakeStep
  <2>. QED
    BY <2>2, <2>3
<1>8. CASE no_record_option
  <2>1. /\ argv[i] = "--no-record-video" /\ argv[i] \notin DOMAIN IntOptions
        /\ Take(1) /\ cfg' = [cfg EXCEPT !.record_enable = 0]
    BY <1>8, IntTable DEF no_record_option, AtOption
  <2>2. \A k \in Fields : cfg'[k] = IF k = "record_enable" THEN 0 ELSE cfg[k]
    BY <1>1, <2>1
  <2>3. \A k \in Fields : IF CliValue(i, k) = {} THEN cfg'[k] = cfg[k]
                                                 ELSE CliValue(i, k) = {cfg'[k]}
    BY <2>1, <2>2, CliValues, Zenon
  <2>. QED
    BY <1>1, <2>1, <2>3, ValueTakers, TakeStep
<1>9. CASE flag_option
  <2>1. /\ argv[i] \in {"--gst-log", "--verbose"} /\ argv[i] \notin DOMAIN IntOptions
        /\ Take(1)
        /\ cfg' = IF argv[i] = "--gst-log" THEN [cfg EXCEPT !.gst_log = 1] ELSE cfg
    BY <1>9, IntTable DEF flag_option, AtOption
  <2>2. \A k \in Fields : cfg'[k] = IF argv[i] = "--gst-log" /\ k = "gst_log" THEN 1 ELSE cfg[k]
    BY <1>1, <2>1
  <2>3. \A k \in Fields : IF CliValue(i, k) = {} THEN cfg'[k] = cfg[k]
                                                 ELSE CliValue(i, k) = {cfg'[k]}
    BY <2>1, <2>2, CliValues
  <2>. QED
    BY <1>1, <2>1, <2>3, ValueTakers, TakeStep
<1>10. CASE unknown_option
  BY <1>2, <1>10 DEF unknown_option
<1>. QED
  BY <1>3, <1>4, <1>5, <1>6, <1>7, <1>8, <1>9, <1>10

\* Among finitely many positions one is the last.
LEMMA GreatestBelow ==
  ASSUME NEW n \in Nat, NEW S, S \subseteq 1..n, S # {}
  PROVE  \E x \in S : \A y \in S : x = y \/ y < x
<1> DEFINE D == {n - x : x \in S}
<1>1. D \subseteq Nat /\ D # {}
  <2>1. \A x \in S : n - x \in Nat
    OBVIOUS
  <2>2. PICK x \in S : TRUE
    OBVIOUS
  <2>3. n - x \in D
    OBVIOUS
  <2>. QED
    BY <2>1, <2>3
<1>2. PICK d \in D : \A e \in D : d <= e
  <2> HIDE DEF D
  <2>. QED
    BY <1>1, LeastNat
<1>3. PICK x \in S : d = n - x
  OBVIOUS
<1>4. ASSUME NEW y \in S PROVE x = y \/ y < x
  <2>1. d <= n - y /\ x \in Nat /\ y \in Nat
    BY <1>2
  <2>. QED
    BY <1>3, <2>1
<1>. QED
  BY <1>4

\* The end of the command line.
LEMMA SecondPassDoneStep ==
  ASSUME Reading, second_pass_done, DOMAIN cfg' = Fields
  PROVE  Read'
<1>1. /\ Len(argv) \in Nat /\ i \in Nat \ {0} /\ DOMAIN cfg = Fields /\ NumbersInv
      /\ parser = "options" /\ parser' = "ok" /\ i > Len(argv)
      /\ argv' = argv /\ cfg' = cfg
      /\ \A k \in Fields : {cfg[k]} = FromOptions(ReadOptions(k), k)
  BY ReadingParts DEF second_pass_done
<1>2. \A n \in Options : n < i
  BY <1>1, OptionElement DEF Options
<1>3. ASSUME NEW k \in Fields PROVE {cfg'[k]} = Wanted(k)'
  <2>1. ReadOptions(k) = CliSettings(k)
    BY <1>2 DEF ReadOptions, CliSettings
  <2>2. Wanted(k)' = Wanted(k)
    BY <1>1, SameArguments
  <2>. QED
    BY <1>1, <2>1, <2>2 DEF Wanted
<1>4. ValuesInv'
  BY <1>1, <1>3 DEF ValuesInv
<1>5. PositionInv'
  BY <1>1 DEF PositionInv
<1>6. NumbersInv'
  BY <1>1, <1>2, SameArguments DEF NumbersInv
<1>. QED
  BY <1>4, <1>5, <1>6 DEF Read

-----------------------------------------------------------------------------
\* parse_cli begins in ParseInv.
LEMMA ParseInvInit ==
  ASSUME ParseInit
  PROVE  ParseInv
<1>1. /\ parser = "configs" /\ Len(argv) \in Nat /\ i = 1 /\ file = NoFile /\ line = 1
      /\ cfg = cfg_defaults
  BY ConfigAssumption DEF ParseInit
<1>2. CfgFits
  BY <1>1, DefaultsFit DEF CfgFits
<1>3. ParseTypeOK
  BY <1>1, <1>2, CfgTyped
<1>4. PositionInv
  BY <1>1, OptionAtEquation DEF PositionInv
<1>5. ASSUME NEW k \in DOMAIN cfg PROVE {cfg[k]} = FromFiles(ReadFiles(k, <<i, 1>>), k)
  <2>1. ReadFiles(k, <<i, 1>>) = {}
    <3>1. ASSUME NEW p \in IniSettings(k) PROVE ~LineBefore(p, <<i, 1>>)
      <4>1. p[1] \in Nat \ {0} /\ p[2] \in Nat \ {0}
        BY IniElement
      <4>. QED
        BY <1>1, <4>1 DEF LineBefore
    <3>. QED
      BY <3>1 DEF ReadFiles
  <2>. QED
    BY <1>1, <2>1 DEF FromFiles
<1>6. ValuesInv
  BY <1>1, <1>5 DEF ValuesInv
<1>7. NumbersInv
  BY <1>1 DEF NumbersInv
<1>. QED
  BY <1>3, <1>4, <1>6, <1>7 DEF ParseInv

\* Every step of parse_cli keeps ParseInv.
LEMMA ParseInvStep ==
  ASSUME ParseInv, ParseNext
  PROVE  ParseInv'
<1>1. ParseTypeOK' /\ argv' = argv
  BY ParseTypeStep, ArgumentsKept DEF ParseInv
<1>2. DOMAIN cfg' = Fields
  BY <1>1, DefaultsFit DEF ParseTypeOK
<1>3. SUFFICES ASSUME Unambiguous', parser' \in {"configs", "file", "options", "ok"}
               PROVE  Read'
  BY <1>1 DEF ParseInv, Read
<1>4. Unambiguous
  BY <1>1, <1>3, SameArguments
<1>5. Reading
  <2>1. parser \in {"configs", "file", "options", "ok"}
    BY DEF ParseNext, load_line, load_done, find_help, find_config, pass_over,
       first_pass_done, skip_config, text_option, int_option, record_mode_option,
       record_video_option, no_record_option, flag_option, unknown_option,
       second_pass_done, AtOption
  <2>. QED
    BY <1>4, <2>1 DEF Reading
<1>6. parser' # "error" /\ parser' # "help"
  BY <1>3
<1>7. ~find_help
  BY <1>6 DEF find_help
<1>. QED
  BY <1>2, <1>5, <1>6, <1>7, LoadLineStep, LoadDoneStep, PassOverStep, FindConfigStep,
     FirstPassDoneStep, OptionStep, SecondPassDoneStep DEF ParseNext
=============================================================================
