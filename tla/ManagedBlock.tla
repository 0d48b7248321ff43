---------------------------- MODULE ManagedBlock ----------------------------
(***************************************************************************)
(* The block Guard keeps in a Codex Home's `.env` among lines of other     *)
(* people: which files it dares to edit, how it recognises its own block,  *)
(* what it writes and what it takes back (crates/cpg-domain/src/dotenv.rs, *)
(* config.rs, proxy.rs, and the `.env` half of cpg-engine's                *)
(* config_store.rs, whose interleavings ConfigStore models).               *)
(*                                                                         *)
(* A file is a sequence of lines.  A line is told by what the parser sees  *)
(* in it; a NO_PROXY value by the pieces between its commas, since an      *)
(* entry may hold commas itself.  A byte order mark before the first line  *)
(* and a carriage return before a newline belong to no line.               *)
(***************************************************************************)
EXTENDS Naturals, FiniteSets, Sequences, SequencesExt

CONSTANTS
  Endpoints,   \* proxy URLs of valid configurations
  Default,     \* the one of Config::default
  Foreign,     \* a proxy URL Guard never generates
  NoValue,     \* the value of a line without one
  MaxEntries,  \* 32 exclusions
  MaxLength,   \* of at most 255 bytes
  Lists,       \* the exclusions a configuration may name: sequences of entries
  Values,      \* NO_PROXY values found in a file: sequences of pieces
  MaxEdits     \* bound on steps of other programs

VARIABLES
  env,     \* the `.env`: whether it exists, its lines, whether the last one ends
  config,  \* the usable configuration
  edits    \* steps of other programs so far

------------------------------------------------------------------------------
(* Exclusions.                                                             *)

\* "quote" holds one unpaired quotation mark, "slash" ends with a backslash,
\* "spaced" has white space at both ends.
Length == [loopback |-> 1, word |-> 1, quote |-> 1, slash |-> 1, spaced |-> 1, long |-> 4, empty |-> 0]
Pieces == DOMAIN Length

ASSUME ManagedBlockAssumption ==
  /\ Default \in Endpoints /\ Foreign \notin Endpoints /\ NoValue \notin Endpoints \cup {Foreign}
  /\ {MaxEntries, MaxLength, MaxEdits} \subseteq Nat
  /\ \A value \in Values : value \in Seq(Pieces) /\ value # <<>>
  /\ \A list \in Lists : list \in Seq(Seq(Pieces) \ {<<>>}) /\ list # <<>>
  /\ <<<<"loopback">>>> \in Lists

TextLength(pieces) == FoldLeft(LAMBDA n, p : n + Length[p], Len(pieces) - 1, pieces)

\* Config::validate on one entry.
ValidEntry(entry) ==
  /\ TextLength(entry) \in 1..MaxLength
  /\ Head(entry) # "spaced" /\ Last(entry) # "spaced"

\* Config::validate: port, host and scheme hold of every endpoint in Endpoints.
ValidConfig(c) ==
  /\ Len(c.no_proxy) \in 1..MaxEntries
  /\ \A i \in DOMAIN c.no_proxy : ValidEntry(c.no_proxy[i])

NoProxyValue(c) == FlattenSeq(c.no_proxy)

\* The mutant plans with every exclusion the schema admits.
CanPlanAnything(c) == ValidConfig(c)

\* proxy_plan and bypass_entry: only loopback names have a Chromium spelling.
CanPlan(c) == ValidConfig(c) /\ \A i \in DOMAIN c.no_proxy : c.no_proxy[i] = <<"loopback">>

\* generated_no_proxy: the fewest entries that reach each boundary.
GeneratedNoProxy(value) ==
  LET Reaches(i, k) == ValidEntry(SubSeq(value, i + 1, k))
      fewest[k \in 0..Len(value)] ==
        IF k = 0 THEN 0
        ELSE Min({MaxEntries + 1} \cup
                 {fewest[i] + 1 : i \in {h \in 0..(k - 1) : fewest[h] < MaxEntries /\ Reaches(h, k)}})
  IN fewest[Len(value)] <= MaxEntries

------------------------------------------------------------------------------
(* Lines.                                                                  *)

Keys == {"HTTP_PROXY", "HTTPS_PROXY", "NO_PROXY"}
Line(kind) == [kind |-> kind, value |-> NoValue]
Entry(key, value) == [kind |-> key, value |-> value]

\* OTHER marks a block of another version, PROXY spells a proxy key another
\* way, TEXT assigns something else, OPEN leaves a quotation or a line open.
Lines ==
  {Line(kind) : kind \in {"BEGIN", "END", "OTHER", "PROXY", "TEXT", "OPEN"}}
    \cup {Entry(key, url) : key \in {"HTTP_PROXY", "HTTPS_PROXY"}, url \in Endpoints \cup {Foreign}}
    \cup {Entry("NO_PROXY", value) : value \in Values}

\* unsafe_env_line, of one line: an unpaired quotation mark opens or closes, and
\* a backslash escapes the comma after it, or the end of the line.
UnsafeEnvLine(line) ==
  \/ line.kind = "OPEN"
  \/ /\ line.kind = "NO_PROXY"
     /\ \/ Cardinality({i \in DOMAIN line.value : line.value[i] = "quote"}) % 2 = 1
        \/ Last(line.value) = "slash"

Fresh == [ok |-> TRUE, at |-> 0, begin |-> 0, end |-> 0, inside |-> FALSE,
          values |-> [key \in {} |-> NoValue], conflict |-> FALSE]

With(values, line) ==
  [key \in DOMAIN values \cup {line.kind} |-> IF key = line.kind THEN line.value ELSE values[key]]

\* One turn of parse_env.
ParseLine(seen, line) ==
  LET at == seen.at + 1
      invalid == [seen EXCEPT !.at = at, !.ok = FALSE]
  IN CASE line.kind = "BEGIN" ->
            IF seen.begin # 0 \/ seen.end # 0 THEN invalid
            ELSE [seen EXCEPT !.at = at, !.begin = at, !.inside = TRUE]
       [] line.kind = "END" ->
            IF ~seen.inside \/ seen.end # 0 THEN invalid
            ELSE [seen EXCEPT !.at = at, !.end = at, !.inside = FALSE]
       [] line.kind = "OTHER" -> invalid
       [] line.kind \in Keys /\ seen.inside ->
            IF line.kind \in DOMAIN seen.values THEN invalid
            ELSE [seen EXCEPT !.at = at, !.values = With(@, line)]
       [] line.kind \in {"TEXT", "PROXY"} /\ seen.inside -> invalid
       [] OTHER -> [seen EXCEPT !.at = at, !.conflict = @ \/ line.kind \in Keys \cup {"PROXY"}]

\* The mutant counts the keys only.
CompleteKeys(seen) == seen.begin # 0 => DOMAIN seen.values = Keys

Complete(seen) ==
  /\ ~seen.inside /\ (seen.begin # 0 <=> seen.end # 0)
  /\ seen.begin # 0 => DOMAIN seen.values = Keys

ValidateManagedValues(values) ==
  /\ values["HTTP_PROXY"] = values["HTTPS_PROXY"]
  /\ GeneratedNoProxy(values["NO_PROXY"])
  /\ values["HTTP_PROXY"] \in Endpoints

\* What the loop of parse_env has seen when it reaches the end.
Scan(lines) ==
  LET seen[i \in 0..Len(lines)] == IF i = 0 THEN Fresh ELSE ParseLine(seen[i - 1], lines[i])
  IN seen[Len(lines)]

\* parse_env: "unsupported", "invalid", or the file as it was recognised.
ParseEnv(lines) ==
  LET seen == Scan(lines)
      state == IF \E i \in DOMAIN lines : UnsafeEnvLine(lines[i]) THEN "unsupported"
               ELSE IF ~seen.ok \/ ~Complete(seen) THEN "invalid"
               ELSE IF seen.begin = 0 THEN "none"
               ELSE IF ~ValidateManagedValues(seen.values) THEN "invalid"
               ELSE "block"
  IN [state |-> state, begin |-> seen.begin, end |-> seen.end, values |-> seen.values,
      conflict |-> seen.conflict]

Readable(parsed) == parsed.state \in {"none", "block"}

------------------------------------------------------------------------------
(* What Guard writes.                                                      *)

Block(c) ==
  <<Line("BEGIN"), Entry("HTTP_PROXY", c.endpoint), Entry("HTTPS_PROXY", c.endpoint),
    Entry("NO_PROXY", NoProxyValue(c)), Line("END")>>

CurrentValues(parsed, c) ==
  /\ parsed.state = "block"
  /\ parsed.values = [key \in Keys |-> IF key = "NO_PROXY" THEN NoProxyValue(c) ELSE c.endpoint]

\* prepare_updated_bytes and revoke_updated_bytes.
Prepared(lines, parsed, c) ==
  IF parsed.state = "block"
    THEN SubSeq(lines, 1, parsed.begin - 1) \o Block(c) \o SubSeq(lines, parsed.end + 1, Len(lines))
    ELSE lines \o Block(c)

\* The mutant leaves the end marker behind.
RevokedShort(lines, parsed) == SubSeq(lines, 1, parsed.begin - 1) \o SubSeq(lines, parsed.end, Len(lines))

Revoked(lines, parsed) == SubSeq(lines, 1, parsed.begin - 1) \o SubSeq(lines, parsed.end + 1, Len(lines))

\* inspect_proxy_env.
Inspect(file, c) ==
  LET parsed == ParseEnv(file.lines)
  IN IF ~c.managed THEN "not_authorized"
     ELSE IF ~Readable(parsed) THEN parsed.state
     ELSE IF parsed.conflict THEN "conflict"
     ELSE IF parsed.state = "none" THEN "pending"
     ELSE IF CurrentValues(parsed, c) THEN "current" ELSE "stale"

NoFile == [exists |-> FALSE, lines |-> <<>>, ended |-> TRUE]

\* prepare_proxy_env succeeds: the file as it is left.  Only the last line can
\* lack its newline, and keeps lacking it when it stands after the block.
CanPrepare(c) ==
  LET parsed == ParseEnv(env.lines) IN ValidConfig(c) /\ Readable(parsed) /\ ~parsed.conflict

PrepareProxyEnv(c) ==
  LET parsed == ParseEnv(env.lines)
      last == parsed.state = "none" \/ parsed.end = Len(env.lines)
  IN env' = IF CurrentValues(parsed, c) THEN env
            ELSE [exists |-> TRUE, lines |-> Prepared(env.lines, parsed, c), ended |-> last \/ env.ended]

\* revoke_proxy_env: refused on a file it cannot read; a file that held nothing
\* else is deleted.
RevokeProxyEnv ==
  LET parsed == ParseEnv(env.lines)
      rest == Revoked(env.lines, parsed)
      last == parsed.end = Len(env.lines)
  IN /\ Readable(parsed)
     /\ env' = IF parsed.state = "none" THEN env
               ELSE IF rest = <<>> THEN NoFile
               ELSE [exists |-> TRUE, lines |-> rest, ended |-> last \/ env.ended]

------------------------------------------------------------------------------
(* The user, other programs and a revocation.                              *)

Configs == [endpoint : Endpoints, no_proxy : Lists, managed : BOOLEAN]

BlockInit ==
  /\ env = NoFile /\ edits = 0
  /\ config = [endpoint |-> Default, no_proxy |-> <<<<"loopback">>>>, managed |-> TRUE]

Other == edits < MaxEdits /\ edits' = edits + 1

\* Another program adds, drops or alters a line or the final newline, or pastes
\* the file behind itself.
EditEnv ==
  /\ Other /\ UNCHANGED config
  /\ \/ \E i \in 1..(Len(env.lines) + 1), line \in Lines :
          env' = [env EXCEPT !.exists = TRUE, !.lines = InsertAt(@, i, line)]
     \/ \E i \in DOMAIN env.lines :
          env' = [env EXCEPT !.lines = RemoveAt(@, i)]
     \/ \E i \in DOMAIN env.lines, line \in Lines :
          /\ line # env.lines[i]
          /\ env' = [env EXCEPT !.lines = ReplaceAt(@, i, line)]
     \/ env.lines # <<>> /\ env' = [env EXCEPT !.ended = ~@]
     \/ Len(env.lines) \in 1..6 /\ env' = [env EXCEPT !.lines = @ \o @]

\* Another endpoint or other exclusions, within the schema.
Configure ==
  /\ Other /\ UNCHANGED env
  /\ config' \in {c \in Configs : ValidConfig(c) /\ c.managed = config.managed} \ {config}

\* update_consent takes the block back before it saves the refusal.
Revoke ==
  /\ config.managed /\ RevokeProxyEnv
  /\ config' = [config EXCEPT !.managed = FALSE]
  /\ UNCHANGED edits

Consent ==
  /\ ~config.managed /\ config' = [config EXCEPT !.managed = TRUE]
  /\ UNCHANGED <<env, edits>>

BlockTypeOK ==
  /\ env.exists \in BOOLEAN /\ env.ended \in BOOLEAN
  /\ env.lines \in Seq(Lines \cup UNION {Range(Block(c)) : c \in Configs})
  /\ config \in Configs /\ edits \in 0..MaxEdits
=============================================================================
