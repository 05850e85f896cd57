---------------------------- MODULE CompletionProofs ----------------------------
(***************************************************************************)
(* What turns and calls share without a lock, for any number of them: the    *)
(* row of a tenant and the token file.  And the text of a completion, for    *)
(* any text and any room of the channel.                                     *)
(***************************************************************************)
EXTENDS Completion, SequenceTheorems, TLAPS

(* The row *)

RowTyped ==
    /\ row = [f \in Fields |-> row[f]] /\ atomic = [f \in Fields |-> atomic[f]]
    /\ setter = [s \in Setters |-> setter[s]] /\ draft = [s \in Setters |-> draft[s]]

\* What a call has read is what the row has, but for contested fields.
DraftIsRow ==
    \A s \in Setters : setter[s] = "patch" =>
        \A f \in Fields : draft[s][f] # row[f] => f \in contested

RowInv == RowTyped /\ DraftIsRow /\ LossIsContested

LEMMA RowInit == Init => RowInv
  BY DEF Init, ConfigInit, NoRow, Fields, RowInv, RowTyped, DraftIsRow, LossIsContested

\* A call that writes: a field it does not patch keeps its value, or was contested.
LEMMA UpsertKeeps ==
    ASSUME RowInv, NEW s \in Setters, UpsertRow(s)
    PROVE  RowInv'
  <1>1. /\ setter[s] = "patch" /\ setter' = [setter EXCEPT ![s] = "over"]
        /\ draft' = [draft EXCEPT ![s] = NoRow]
        /\ contested' = contested \cup ContestedBy(s)
    BY DEF UpsertRow, Upserts, SetterGoes
  <1>2. \A f \in Fields : /\ f \in DOMAIN Patch[s] => row'[f] = atomic'[f]
                          /\ f \notin DOMAIN Patch[s] =>
                               row'[f] = draft[s][f] /\ atomic'[f] = atomic[f]
    BY DEF UpsertRow, Upserts, Patched
  <1>3. RowTyped'
    BY <1>1 DEF RowInv, RowTyped, UpsertRow, Upserts, Patched
  <1>4. DraftIsRow'
    <2> SUFFICES ASSUME NEW o \in Setters, setter'[o] = "patch", NEW f \in Fields,
                        draft'[o][f] # row'[f]
                 PROVE  f \in contested'
      BY DEF DraftIsRow
    <2>1. o # s /\ setter[o] = "patch" /\ draft'[o] = draft[o]
      BY <1>1 DEF RowInv, RowTyped
    <2>2. CASE f \in DOMAIN Patch[s]
      BY <1>1, <2>1, <2>2 DEF ContestedBy
    <2>3. CASE f \notin DOMAIN Patch[s]
      BY <1>1, <1>2, <2>1, <2>3 DEF RowInv, DraftIsRow
    <2> QED
      BY <2>2, <2>3
  <1>5. LossIsContested'
    BY <1>1, <1>2 DEF RowInv, DraftIsRow, LossIsContested
  <1> QED
    BY <1>3, <1>4, <1>5 DEF RowInv

\* Any other step leaves the row, and begins or ends calls.
LEMMA RowStays ==
    ASSUME RowInv, UNCHANGED <<row, atomic, contested>>, RowTyped',
           \A s \in Setters : setter'[s] = "patch" =>
               draft'[s] = row \/ (setter[s] = "patch" /\ draft'[s] = draft[s])
    PROVE  RowInv'
  BY DEF RowInv, DraftIsRow, LossIsContested

LEMMA RowKept == RowInv /\ [Next]_vars => RowInv'
  <1> SUFFICES ASSUME RowInv, [Next]_vars PROVE RowInv' OBVIOUS
  <1>1. ASSUME NEW s \in Setters, SetCall(s)
        PROVE  RowInv'
    <2>1. CASE GetRow(s)
      BY <2>1, RowStays DEF GetRow, SetterGoes, RowInv, RowTyped
    <2>2. CASE PatchRefused(s) \/ SetFails(s)
      BY <2>2, RowStays DEF PatchRefused, SetFails, SetterGoes, RowInv, RowTyped
    <2> QED
      BY <1>1, <2>1, <2>2, UpsertKeeps DEF SetCall, SetStep
  <1>2. CASE Ends
    BY <1>2, RowStays DEF Ends, RowInv, RowTyped
  <1>3. CASE UNCHANGED configVars
    BY <1>3, RowStays DEF configVars, RowInv, RowTyped
  <1>4. (\E t \in Turns : Route(t) \/ Streams(t) \/ CompletionFails(t) \/ Authorization(t)
                          \/ Reads(t) \/ Collects(t))
        \/ Outside \/ UNCHANGED vars => UNCHANGED configVars
    BY DEF Route, Streams, CompletionFails, Authorization, Reads, Collects, Outside, vars
  <1> QED
    BY <1>1, <1>2, <1>3, <1>4 DEF Next

\* No patch of the configuration is lost, for any calls and patches, but one that
\* was made while another call stood between its read and its write.
THEOREM PatchesKept == Spec => []LossIsContested
  <1>1. RowInv => LossIsContested
    BY DEF RowInv
  <1> QED
    BY RowInit, RowKept, <1>1, PTL DEF Spec

-----------------------------------------------------------------------------
(* The token file *)

Credentials == {Only("api_key")} \cup Tokens

TokensTyped ==
    /\ auth \in [Turns -> {"none", "load", "post", "refresh", "truncate", "write", "streams", "failed"}]
    /\ credential \in [Turns -> Credentials]
    /\ file \in Files
    /\ newest \in 1..MaxGrants /\ epoch \in 0..MaxExpiries

\* The turn could still use the newest refresh token.
Holds(t) ==
    auth[t] \in {"post", "refresh", "truncate", "write"} /\ credential[t].refresh = newest

\* While a turn writes, it alone has the newest token: nobody can refresh, and what
\* others load is older.
WriterHolds ==
    \A t \in Turns : Writing(t) =>
        /\ credential[t].kind = "tokens" /\ credential[t].refresh = newest
        /\ file.refresh < newest
        /\ \A u \in Turns \ {t} : ~Holds(u)

NothingNewer ==
    /\ file.refresh <= newest
    /\ \A t \in Turns : credential[t].refresh <= newest

\* The second half of NewestTokenKept.
Somewhere ==
    FirstFile = FirstTokens /\ ~lost =>
        \/ file.kind = "tokens" /\ file.refresh = newest
        \/ \E t \in Turns : Writing(t)

TokenInv == TokensTyped /\ WriterHolds /\ NothingNewer /\ Somewhere

\* The fields of what is posted and stored.
LEMMA TokenFields ==
    /\ Only("api_key").kind = "api_key" /\ Only("api_key").refresh = 0
    /\ Only("broken").kind = "broken" /\ Only("broken").refresh = 0
    /\ \A c \in Credentials : c \in Files /\ c.refresh \in Nat
    /\ \A c \in Files : /\ c.refresh \in Nat
                        /\ c.kind = "tokens" => c \in Credentials
    /\ Only("broken") \in Files
  BY CodexAssumption DEF Only, Credentials, Files, Tokens

LEMMA TokenInit == Init => TokenInv
  <1> SUFFICES ASSUME Init PROVE TokenInv OBVIOUS
  <1>1. TokensTyped
    <2>1. FirstFile \in Files
      BY CodexAssumption DEF FirstTokens, Files, Tokens
    <2> QED
      BY <2>1, CodexAssumption DEF Init, CodexInit, TokensTyped, Credentials
  <1>2. WriterHolds /\ Somewhere
    BY DEF Init, CodexInit, WriterHolds, Somewhere, Writing, FirstTokens
  <1>3. NothingNewer
    <2>1. FirstFile.refresh <= 1
      BY CodexAssumption DEF FirstTokens, Only
    <2> QED
      BY <2>1, TokenFields DEF Init, CodexInit, NothingNewer
  <1> QED
    BY <1>1, <1>2, <1>3 DEF TokenInv

\* A step of one turn that stays out of the writing, and gives it nothing new.
LEMMA TurnKeeps ==
    ASSUME TokenInv, NEW t \in Turns, TokensTyped',
           UNCHANGED <<file, newest>>, lost => lost',
           \A u \in Turns \ {t} : auth'[u] = auth[u] /\ credential'[u] = credential[u],
           ~Writing(t)', Writing(t) => lost',
           credential'[t].refresh <= newest,
           Holds(t)' => file.refresh = newest \/ Holds(t)
    PROVE  TokenInv'
  <1>1. WriterHolds'
    BY TokenFields DEF TokenInv, TokensTyped, WriterHolds, Writing, Holds
  <1>2. NothingNewer'
    BY DEF TokenInv, NothingNewer
  <1>3. Somewhere'
    BY DEF TokenInv, Somewhere, Writing
  <1> QED
    BY <1>1, <1>2, <1>3 DEF TokenInv

\* A turn comes to its credentials.
Enters(t) ==
    AuthGoes(t, "none", "load") /\ UNCHANGED <<credential, file, serviceVars, lost>>

LEMMA LoadKeeps ==
    ASSUME TokenInv, NEW t \in Turns,
           \/ LoadKey(t) \/ LoadTokens(t) \/ LoadFails(t) \/ Posted(t) \/ PostRefused(t)
           \/ RefreshRefused(t) \/ RequestFails(t) \/ Enters(t)
    PROVE  TokenInv'
  <1> USE DEF TokenInv
  <1>1. /\ UNCHANGED <<file, newest, epoch, lost>> /\ ~Writing(t)
        /\ ~Writing(t)' /\ \A u \in Turns \ {t} : auth'[u] = auth[u]
        /\ auth' \in [Turns -> {"none", "load", "post", "refresh", "truncate", "write", "streams", "failed"}]
    BY DEF LoadKey, LoadTokens, LoadFails, PostsWith, Posted, PostRefused, RefreshRefused,
       RequestFails, Enters, AuthGoes, serviceVars, Writing, TokensTyped
  <1>2. CASE UNCHANGED credential /\ (auth'[t] \in {"none", "load", "streams", "failed"} \/ auth[t] = "post")
    <2>1. TokensTyped'
      BY <1>1, <1>2 DEF TokensTyped
    <2>2. Holds(t)' => Holds(t)
      BY <1>1, <1>2 DEF Holds
    <2> QED
      BY <1>1, <1>2, <2>1, <2>2, TurnKeeps DEF NothingNewer
  <1>3. ASSUME NEW c \in Credentials, c = file \/ c = Only("api_key"),
               credential' = [credential EXCEPT ![t] = c]
        PROVE  TokenInv'
    <2>1. TokensTyped' /\ credential'[t] = c
          /\ \A u \in Turns \ {t} : credential'[u] = credential[u]
      BY <1>1, <1>3 DEF TokensTyped
    <2>2. c.refresh <= newest
      BY <1>3, TokenFields DEF TokensTyped, NothingNewer
    <2>3. Holds(t)' => file.refresh = newest
      BY <1>1, <1>3, <2>1, TokenFields DEF Holds, TokensTyped
    <2> QED
      BY <1>1, <2>1, <2>2, <2>3, TurnKeeps
  <1>4. CASE LoadKey(t) \/ Posted(t)
    <2>1. Only("api_key") \in Credentials
      BY DEF Credentials
    <2> QED
      BY <1>3, <1>4, <2>1 DEF LoadKey, PostsWith, Posted
  <1>5. CASE LoadTokens(t)
    BY <1>3, <1>5, TokenFields DEF LoadTokens, PostsWith, TokensTyped
  <1>6. CASE LoadFails(t) \/ PostRefused(t) \/ RefreshRefused(t) \/ RequestFails(t)
             \/ Enters(t)
    BY <1>2, <1>6 DEF Enters, LoadFails, PostRefused, RefreshRefused, RequestFails, AuthGoes, TokensTyped
  <1> QED
    BY <1>4, <1>5, <1>6

\* A turn that refreshes spends the newest token, so nobody was writing.
LEMMA NobodyWrites ==
    ASSUME TokenInv, NEW t \in Turns, auth[t] = "refresh", credential[t].refresh = newest
    PROVE  \A u \in Turns : ~Writing(u)
  BY DEF TokenInv, WriterHolds, Writing, Holds

LEMMA RefreshKeeps ==
    ASSUME TokenInv, NEW t \in Turns, Refresh(t)
    PROVE  TokenInv'
  <1>1. /\ auth[t] = "refresh" /\ auth' = [auth EXCEPT ![t] = "truncate"]
        /\ credential[t].refresh = newest /\ newest' = newest + 1 /\ newest < MaxGrants
        /\ credential' = [credential EXCEPT ![t] = Granted]
        /\ UNCHANGED <<file, epoch, lost>>
    BY DEF Refresh, RefreshTo, AuthGoes
  <1>2. newest \in Nat /\ newest' \in 1..MaxGrants /\ newest < newest'
    BY <1>1, CodexAssumption DEF TokenInv, TokensTyped
  <1>3. Granted \in Credentials /\ Granted.kind = "tokens" /\ Granted.refresh = newest'
    BY <1>1, <1>2 DEF TokenInv, TokensTyped, Granted, Credentials, Tokens
  <1>4. TokensTyped'
    BY <1>1, <1>2, <1>3 DEF TokenInv, TokensTyped
  <1>5. file.refresh \in Nat /\ \A u \in Turns : credential[u].refresh \in Nat
    BY TokenFields DEF TokenInv, TokensTyped
  <1>6. NothingNewer' /\ file'.refresh < newest'
        /\ \A u \in Turns \ {t} : credential'[u].refresh < newest'
    BY <1>1, <1>2, <1>3, <1>5 DEF TokenInv, TokensTyped, NothingNewer
  <1>7. Writing(t)' /\ \A u \in Turns \ {t} : ~Writing(u)'
    BY <1>1, NobodyWrites DEF TokenInv, TokensTyped, Writing
  <1>8. WriterHolds'
    BY <1>1, <1>2, <1>3, <1>5, <1>6, <1>7 DEF TokenInv, TokensTyped, WriterHolds, Holds
  <1>9. Somewhere'
    BY <1>7 DEF Somewhere
  <1> QED
    BY <1>4, <1>6, <1>8, <1>9 DEF TokenInv

LEMMA RefreshLostKeeps ==
    ASSUME TokenInv, NEW t \in Turns, RefreshLost(t)
    PROVE  TokenInv'
  <1>1. /\ auth[t] = "refresh" /\ auth' = [auth EXCEPT ![t] = "failed"]
        /\ credential[t].refresh = newest /\ newest' = newest + 1 /\ newest < MaxGrants
        /\ lost' /\ UNCHANGED <<credential, file, epoch>>
    BY DEF RefreshLost, AuthGoes
  <1>2. TokensTyped'
    BY <1>1, CodexAssumption DEF TokenInv, TokensTyped
  <1>3. \A u \in Turns : ~Writing(u)'
    BY <1>1, NobodyWrites DEF TokenInv, TokensTyped, Writing
  <1>4. newest \in Nat /\ file.refresh \in Nat /\ \A u \in Turns : credential[u].refresh \in Nat
    BY TokenFields DEF TokenInv, TokensTyped
  <1>5. NothingNewer'
    BY <1>1, <1>4 DEF TokenInv, NothingNewer
  <1> QED
    BY <1>1, <1>2, <1>3, <1>5 DEF TokenInv, WriterHolds, Somewhere

\* The file is broken while the turn writes it, and then has the newest token.
LEMMA WriteKeeps ==
    ASSUME TokenInv, NEW t \in Turns, Truncate(t) \/ Write(t) \/ WriteFails(t)
    PROVE  TokenInv'
  <1>1. /\ Writing(t) /\ UNCHANGED <<credential, newest, epoch>>
        /\ \A u \in Turns \ {t} : auth'[u] = auth[u] /\ ~Writing(u) /\ ~Writing(u)'
        /\ auth'[t] \in {"write", "post", "failed"}
        /\ auth' \in [Turns -> {"none", "load", "post", "refresh", "truncate", "write", "streams", "failed"}]
    <2>1. /\ Writing(t) /\ UNCHANGED <<credential, newest, epoch>>
          /\ \E to \in {"write", "post", "failed"} : auth' = [auth EXCEPT ![t] = to]
      BY DEF Truncate, Write, WriteFails, AuthGoes, serviceVars, Writing
    <2>2. \A u \in Turns \ {t} : ~Writing(u)
      BY <2>1 DEF TokenInv, WriterHolds, Writing, Holds
    <2> QED
      BY <2>1, <2>2 DEF TokenInv, TokensTyped, Writing
  <1>2. /\ credential[t].kind = "tokens" /\ credential[t].refresh = newest
        /\ file.refresh < newest /\ \A u \in Turns \ {t} : ~Holds(u)
    BY <1>1 DEF TokenInv, WriterHolds
  <1>3. newest \in Nat /\ newest > 0
    BY DEF TokenInv, TokensTyped
  <1>4. CASE Truncate(t)
    <2>1. file' = Only("broken") /\ auth'[t] = "write" /\ lost' = lost
      BY <1>4 DEF Truncate, AuthGoes, TokenInv, TokensTyped
    <2>2. TokensTyped'
      BY <1>1, <2>1, TokenFields DEF TokenInv, TokensTyped
    <2>3. WriterHolds' /\ NothingNewer'
      BY <1>1, <1>2, <1>3, <2>1, TokenFields
         DEF TokenInv, TokensTyped, WriterHolds, NothingNewer, Writing, Holds
    <2>4. Somewhere'
      BY <2>1 DEF Somewhere, Writing
    <2> QED
      BY <2>2, <2>3, <2>4 DEF TokenInv
  <1>5. CASE Write(t)
    <2>1. file' = credential[t] /\ auth'[t] = "post" /\ lost' = lost
      BY <1>5 DEF Write, AuthGoes, TokenInv, TokensTyped
    <2>2. TokensTyped'
      BY <1>1, <2>1, TokenFields DEF TokenInv, TokensTyped
    <2>3. \A u \in Turns : ~Writing(u)'
      BY <1>1, <2>1 DEF Writing
    <2>4. NothingNewer' /\ Somewhere'
      BY <1>1, <1>2, <1>3, <2>1 DEF TokenInv, NothingNewer, Somewhere
    <2> QED
      BY <2>2, <2>3, <2>4 DEF TokenInv, WriterHolds
  <1>6. CASE WriteFails(t)
    <2>1. lost' /\ file' = file /\ auth'[t] = "failed"
      BY <1>1, <1>2, <1>6 DEF WriteFails, Loses, AuthGoes, TokenInv, TokensTyped
    <2>2. TokensTyped'
      BY <1>1, <2>1 DEF TokenInv, TokensTyped
    <2>3. ~Writing(t)' /\ ~Holds(t)'
      BY <2>1 DEF Writing, Holds
    <2> QED
      BY <1>1, <2>1, <2>2, <2>3, TurnKeeps DEF TokenInv, NothingNewer
  <1> QED
    BY <1>4, <1>5, <1>6

LEMMA LogInKeeps ==
    ASSUME TokenInv, LogIn
    PROVE  TokenInv'
  <1>1. /\ newest' = newest + 1 /\ newest < MaxGrants /\ file' = Granted
        /\ UNCHANGED <<auth, credential, epoch>>
        /\ \A t \in Turns : ~Writing(t) /\ ~Writing(t)'
    BY DEF LogIn, turnVars, Authorizing, Writing
  <1>2. newest \in Nat /\ newest' \in 1..MaxGrants
    BY <1>1, CodexAssumption DEF TokenInv, TokensTyped
  <1>3. Granted \in Files /\ Granted.kind = "tokens" /\ Granted.refresh = newest'
    BY <1>1, <1>2 DEF TokenInv, TokensTyped, Granted, Files, Tokens
  <1>4. TokensTyped'
    BY <1>1, <1>2, <1>3 DEF TokenInv, TokensTyped
  <1>5. NothingNewer'
    <2>1. \A t \in Turns : credential[t].refresh \in Nat
      BY TokenFields DEF TokenInv, TokensTyped
    <2> QED
      BY <1>1, <1>2, <1>3, <2>1 DEF TokenInv, NothingNewer
  <1> QED
    BY <1>1, <1>3, <1>4, <1>5 DEF TokenInv, WriterHolds, Somewhere

\* With the host end the turns, and with one that writes the newest token is lost.
LEMMA EndsKeeps ==
    ASSUME TokenInv, Ends
    PROVE  TokenInv'
  <1>1. /\ auth' = [t \in Turns |-> IF Authorizing(t) THEN "failed" ELSE auth[t]]
        /\ lost' = (lost \/ \E t \in Turns : Loses(t))
        /\ UNCHANGED <<credential, file, newest, epoch>>
    BY DEF Ends, HostEnds, serviceVars
  <1>2. TokensTyped' /\ NothingNewer'
    BY <1>1 DEF TokenInv, TokensTyped, NothingNewer
  <1>3. \A t \in Turns : ~Writing(t)'
    BY <1>1 DEF Writing, Authorizing
  <1>4. (\E t \in Turns : Writing(t)) \/ lost => lost'
    BY <1>1 DEF TokenInv, WriterHolds, Loses
  <1> QED
    BY <1>1, <1>2, <1>3, <1>4 DEF TokenInv, WriterHolds, Somewhere

LEMMA TokenKept == TokenInv /\ [Next]_vars => TokenInv'
  <1> SUFFICES ASSUME TokenInv, [Next]_vars PROVE TokenInv' OBVIOUS
  <1>1. ASSUME UNCHANGED <<auth, credential, file, newest, lost>>, epoch' \in 0..MaxExpiries
        PROVE  TokenInv'
    <2>1. TokensTyped' /\ NothingNewer'
      BY <1>1 DEF TokenInv, TokensTyped, NothingNewer
    <2> QED
      BY <1>1, <2>1 DEF TokenInv, WriterHolds, Somewhere, Writing, Holds
  <1>2. CASE UNCHANGED codexVars
    BY <1>1, <1>2 DEF codexVars, turnVars, serviceVars, TokenInv, TokensTyped
  <1>3. ASSUME NEW t \in Turns, Authorize(t) \/ AuthFails(t) \/ Enters(t)
        PROVE  TokenInv'
    BY <1>3, LoadKeeps, RefreshKeeps, RefreshLostKeeps, WriteKeeps DEF Authorize, AuthFails
  <1>4. ASSUME NEW t \in Turns, Route(t)
        PROVE  TokenInv'
    BY <1>2, <1>3, <1>4 DEF Route, Enters
  <1>5. ASSUME NEW t \in Turns, Streams(t) \/ CompletionFails(t) \/ Reads(t) \/ Collects(t)
        PROVE  TokenInv'
    BY <1>1, <1>5 DEF Streams, CompletionFails, Reads, Collects, codexVars, turnVars,
       serviceVars, TokenInv, TokensTyped
  <1>6. ASSUME NEW s \in Setters, SetCall(s)
        PROVE  TokenInv'
    BY <1>1, <1>6 DEF SetCall, codexVars, turnVars, serviceVars, TokenInv, TokensTyped
  <1>7. CASE Outside
    <2>1. CASE Expire
      <3>1. epoch' \in 0..MaxExpiries
        BY <2>1, CodexAssumption DEF Expire, TokenInv, TokensTyped
      <3> QED
        BY <1>1, <2>1, <3>1 DEF Expire, turnVars
    <2>2. CASE Bar
      BY <1>1, <2>2 DEF Bar, turnVars, TokenInv, TokensTyped
    <2> QED
      BY <1>3, <1>7, <2>1, <2>2, LogInKeeps DEF Outside
  <1>8. CASE UNCHANGED vars
    BY <1>2, <1>8 DEF vars
  <1> QED
    BY <1>3, <1>4, <1>5, <1>6, <1>7, <1>8, EndsKeeps DEF Next, Authorization

\* However turns load, refresh and write the token file at once, one writes at a
\* time, and the newest refresh token is in the file or with the turn that writes
\* it, until a failure costs it: for any number of turns and tokens.
THEOREM TokenNotLost == Spec => []NewestTokenKept
  <1>1. TokenInv => NewestTokenKept
    BY DEF TokenInv, WriterHolds, Somewhere, NewestTokenKept, Writing, Holds
  <1> QED
    BY TokenInit, TokenKept, <1>1, PTL DEF Spec

-----------------------------------------------------------------------------
(* The text *)

Parts == {Text[i] : i \in DOMAIN Text}
TextLen == Len(Text)

\* The parts from the one after the first to the last.
Piece(first, last) == SubSeq(Text, first + 1, last)
DeltasFrom(k) == SubSeq(Deltas, k + 1, TextLen)

WholeDelta == [Whole EXCEPT !.type = "delta"]
Items == {Delta(part) : part \in Parts} \cup {Whole, Other, EndMark, WholeDelta}

\* What the provider still sends when it has been read up to the part k, and whether
\* text was emitted, which makes the whole text at the end superfluous.
Left(f, emitted, k) ==
    \/ f = DeltasFrom(k) \o <<Whole>> /\ (emitted <=> k > 0)
    \/ f = DeltasFrom(k)
    \/ f = <<Other>> \o Deltas /\ k = 0
    \/ f = <<Whole, Whole, EndMark>> /\ k = 0 /\ ~emitted
    \/ f = <<Whole, EndMark>> /\ k = TextLen /\ (emitted <=> k > 0)
    \/ f = <<EndMark>> /\ k = TextLen
    \/ f = <<WholeDelta>> /\ k = 0

\* The pieces in the channel follow each other from one part to another.
Joins(seq, first, last) ==
    \E cut \in [0..Len(seq) -> 0..TextLen] :
        /\ cut[0] = first /\ cut[Len(seq)] = last
        /\ \A i \in 1..Len(seq) : cut[i - 1] <= cut[i] /\ seq[i] = Piece(cut[i - 1], cut[i])

Collected(t, last) ==
    \E m \in 0..TextLen : text[t] = Piece(0, m) /\ Joins(events[t], m, last)

NotOpen(t) ==
    /\ reader[t] = "none" /\ result[t] = "none" /\ whole[t] = FALSE /\ events[t] = <<>>
    /\ done[t] = <<>> /\ waits[t] = Channels /\ text[t] = <<>>

Reading(t) ==
    /\ reader[t] = "reads" /\ result[t] = "none" /\ done[t] = <<>> /\ waits[t] = Channels
    /\ whole[t] \in BOOLEAN
    /\ \E k \in 0..TextLen : Left(feed[t], whole[t], k) /\ Collected(t, k)

Failing(t) ==
    /\ reader[t] \in {"said", "closed"} /\ result[t] = "none"
    /\ done[t] = <<"error">> /\ "done" \in waits[t]

Ending(t) ==
    /\ reader[t] \in {"said", "closed"}
    /\ \/ done[t] = <<"ok">> /\ "done" \in waits[t]
       \/ done[t] = <<>> /\ "done" \notin waits[t]
    /\ waits[t] \subseteq Channels /\ result[t] = IF waits[t] = {} THEN "ok" ELSE "none"
    /\ "events" \notin waits[t] => events[t] = <<>>
    /\ Collected(t, TextLen)

StreamTyped ==
    /\ feed = [t \in Turns |-> feed[t]] /\ reader = [t \in Turns |-> reader[t]]
    /\ whole = [t \in Turns |-> whole[t]] /\ events = [t \in Turns |-> events[t]]
    /\ done = [t \in Turns |-> done[t]] /\ waits = [t \in Turns |-> waits[t]]
    /\ text = [t \in Turns |-> text[t]] /\ result = [t \in Turns |-> result[t]]
    /\ route = [t \in Turns |-> route[t]]
    /\ feed \in [Turns -> Seq(Items)] /\ events \in [Turns -> Seq(Seq(Parts))]

StreamOf(t) ==
    /\ route[t] = "none" => reader[t] = "none"
    /\ \/ result[t] = "error"
       \/ NotOpen(t) \/ Reading(t) \/ Failing(t) \/ Ending(t)

StreamInv == StreamTyped /\ \A t \in Turns : StreamOf(t)

LEMMA TextIsSeq == Text \in Seq(Parts) /\ TextLen \in Nat /\ \A i \in 1..TextLen : Text[i] \in Parts
  <1>1. Text \in Seq(Parts)
    BY StreamAssumption DEF Parts
  <1> QED
    BY <1>1, LenProperties, ElementOfSeq DEF TextLen

\* What stands before a sequence is its head.
LEMMA Cons ==
    ASSUME NEW S, NEW s \in Seq(S), NEW e \in S
    PROVE  /\ <<e>> \o s \in Seq(S) /\ <<e>> \o s # <<>>
           /\ Head(<<e>> \o s) = e /\ Tail(<<e>> \o s) = s
  <1> DEFINE all == <<e>> \o s
             n == Len(s)
  <1>1. /\ all \in Seq(S) /\ n \in Nat /\ Len(all) = 1 + n
        /\ \A i \in 1..1 + n : all[i] = IF i <= 1 THEN e ELSE s[i - 1]
    <2>1. <<e>> \in Seq(S) /\ Len(<<e>>) = 1 /\ <<e>>[1] = e
      OBVIOUS
    <2>2. /\ all \in Seq(S) /\ Len(all) = Len(<<e>>) + n /\ n \in Nat
          /\ \A i \in 1..Len(<<e>>) + n : all[i] = IF i <= Len(<<e>>) THEN <<e>>[i] ELSE s[i - Len(<<e>>)]
      BY <2>1, ConcatProperties, LenProperties
    <2> HIDE DEF all, n
    <2> QED
      BY <2>1, <2>2
  <1> HIDE DEF all
  <1>2. all # <<>>
    BY <1>1, EmptySeq
  <1>3. Head(all) = e
    <2>1. 1 \in 1..1 + n
      BY <1>1
    <2>2. all[1] = e
      BY <1>1, <2>1
    <2> QED
      BY <1>1, <1>2, <2>2
  <1>4. Tail(all) = s
    <2>1. /\ Tail(all) \in Seq(S) /\ Len(Tail(all)) = Len(all) - 1
          /\ \A i \in 1..Len(Tail(all)) : Tail(all)[i] = all[i + 1]
      BY <1>1, <1>2, HeadTailProperties
    <2> DEFINE rest == Tail(all)
    <2> HIDE DEF rest
    <2>2. rest \in Seq(S) /\ Len(rest) = n /\ \A i \in 1..n : rest[i] = all[i + 1]
      BY <1>1, <2>1 DEF rest
    <2>3. ASSUME NEW i \in 1..n PROVE rest[i] = s[i]
      <3>1. i + 1 \in 1..1 + n /\ ~(i + 1 <= 1) /\ (i + 1) - 1 = i
        BY <1>1
      <3> QED
        BY <1>1, <2>2, <3>1
    <2>4. rest = s
      BY <2>2, <2>3, SeqEqual DEF n
    <2> QED
      BY <2>4 DEF rest
  <1> QED
    BY <1>1, <1>2, <1>3, <1>4 DEF all

LEMMA ItemFacts ==
    /\ Whole \in Items /\ Other \in Items /\ EndMark \in Items /\ WholeDelta \in Items
    /\ Whole.type = "whole" /\ WholeDelta.type = "delta" /\ Other.type = "other"
    /\ Whole.text = Text /\ WholeDelta.text = Text /\ Other.text = <<>>
    /\ Whole # EndMark /\ WholeDelta # EndMark /\ Other # EndMark
    /\ \A part \in Parts :
         Delta(part) \in Items /\ Delta(part).type = "delta" /\ Delta(part).text = <<part>>
         /\ Delta(part) # EndMark
    /\ \A e \in Items : e.text \in Seq(Parts)
  <1>1. \A part \in Parts : <<part>> \in Seq(Parts)
    OBVIOUS
  <1>2. /\ Whole \in Items /\ Other \in Items /\ EndMark \in Items /\ WholeDelta \in Items
        /\ \A part \in Parts : Delta(part) \in Items
    BY DEF Items
  <1>3. /\ Whole.type = "whole" /\ WholeDelta.type = "delta" /\ Other.type = "other"
        /\ EndMark.type = "end"
        /\ \A part \in Parts : Delta(part).type = "delta"
    BY DEF Whole, Other, EndMark, WholeDelta, Delta
  <1>4. /\ Whole.text = Text /\ WholeDelta.text = Text /\ Other.text = <<>>
        /\ EndMark.text = <<>>
        /\ \A part \in Parts : Delta(part).text = <<part>>
    BY DEF Whole, Other, EndMark, WholeDelta, Delta
  <1>5. \A e \in Items : e.text \in Seq(Parts)
    <2> SUFFICES ASSUME NEW e \in Items PROVE e.text \in Seq(Parts)
      OBVIOUS
    <2>1. Text \in Seq(Parts) /\ <<>> \in Seq(Parts)
      BY TextIsSeq
    <2>2. CASE e \in {Whole, Other, EndMark, WholeDelta}
      BY <1>4, <2>1, <2>2
    <2>3. CASE e \in {Delta(part) : part \in Parts}
      BY <1>1, <1>4, <2>3
    <2> QED
      BY <2>2, <2>3 DEF Items
  <1> QED
    BY <1>2, <1>3, <1>4, <1>5

LEMMA PieceFacts ==
    ASSUME NEW m \in 0..TextLen, NEW k \in 0..TextLen, m <= k
    PROVE  /\ Piece(m, k) \in Seq(Parts) /\ (Piece(m, k) = <<>> <=> m = k)
           /\ Piece(0, m) \o Piece(m, k) = Piece(0, k)
           /\ Piece(0, TextLen) = Text
           /\ k < TextLen => Piece(k, k + 1) = <<Text[k + 1]>>
  <1>1. /\ TextLen \in Nat /\ m \in Int /\ k \in Int /\ m + 1 \in Int
        /\ Text \in Seq(Parts) /\ \A i \in m + 1..k : Text[i] \in Parts
    BY TextIsSeq
  <1>2. Piece(m, k) \in Seq(Parts) /\ Len(Piece(m, k)) = k - m
    <2>1. Piece(m, k) \in Seq(Parts)
          /\ Len(Piece(m, k)) = IF m + 1 <= k THEN k - (m + 1) + 1 ELSE 0
      BY <1>1, SubSeqProperties DEF Piece
    <2> QED
      BY <1>1, <2>1
  <1>3. Piece(m, k) = <<>> <=> m = k
    BY <1>1, <1>2, EmptySeq
  <1>4. Piece(0, m) \o Piece(m, k) = Piece(0, k)
    <2>1. 1 \in 1..Len(Text) + 1 /\ m \in 1 - 1..Len(Text) /\ k \in m..Len(Text)
      BY <1>1 DEF TextLen
    <2>2. SubSeq(Text, 1, m) \o SubSeq(Text, m + 1, k) = SubSeq(Text, 1, k)
      BY <1>1, <2>1, ConcatAdjacentSubSeq
    <2> QED
      BY <2>2 DEF Piece
  <1>5. Piece(0, TextLen) = Text
    BY <1>1, SubSeqFull DEF Piece, TextLen
  <1>6. k < TextLen => Piece(k, k + 1) = <<Text[k + 1]>>
    <2> SUFFICES ASSUME k < TextLen PROVE Piece(k, k + 1) = <<Text[k + 1]>>
      OBVIOUS
    <2>1. k + 1 \in 1..Len(Text) /\ k + 1 \in k + 1..Len(Text)
      BY <1>1 DEF TextLen
    <2>2. SubSeq(Text, k + 1, k + 1) = <<Text[k + 1]>> \o SubSeq(Text, k + 1 + 1, k + 1)
      BY <1>1, <2>1, SubSeqRecursiveFirst
    <2>3. SubSeq(Text, k + 1 + 1, k + 1) = <<>>
      BY <1>1, SubSeqEmpty
    <2>4. <<Text[k + 1]>> \in Seq(Parts)
      BY <1>1, <2>1, TextIsSeq DEF TextLen
    <2>5. <<Text[k + 1]>> \o <<>> = <<Text[k + 1]>>
      BY <2>4, ConcatEmptySeq
    <2> QED
      BY <2>2, <2>3, <2>5 DEF Piece
  <1> QED
    BY <1>2, <1>3, <1>4, <1>5, <1>6

\* The deltas that are left after the part k.
LEMMA DeltasFacts ==
    ASSUME NEW k \in 0..TextLen
    PROVE  /\ DeltasFrom(k) \in Seq(Items) /\ DeltasFrom(0) = Deltas
           /\ k = TextLen => DeltasFrom(k) = <<>>
           /\ k < TextLen => DeltasFrom(k) = <<Delta(Text[k + 1])>> \o DeltasFrom(k + 1)
  <1>1. /\ TextLen \in Nat /\ Deltas \in Seq(Items) /\ Len(Deltas) = TextLen
        /\ \A i \in 1..TextLen : Deltas[i] = Delta(Text[i])
    <2>1. \A i \in 1..TextLen : Delta(Text[i]) \in Items
      BY TextIsSeq, ItemFacts
    <2>2. Deltas = [i \in 1..TextLen |-> Delta(Text[i])]
      BY DEF Deltas, TextLen
    <2> QED
      BY <2>1, <2>2, TextIsSeq
  <1>2. DeltasFrom(k) \in Seq(Items)
    <2>1. k + 1 \in Int /\ TextLen \in Int /\ \A i \in k + 1..TextLen : Deltas[i] \in Items
      BY <1>1, ElementOfSeq
    <2> QED
      BY <2>1, SubSeqProperties DEF DeltasFrom
  <1>3. DeltasFrom(0) = Deltas
    BY <1>1, SubSeqFull DEF DeltasFrom
  <1>4. k = TextLen => DeltasFrom(k) = <<>>
    BY <1>1, SubSeqEmpty DEF DeltasFrom
  <1>5. k < TextLen => DeltasFrom(k) = <<Delta(Text[k + 1])>> \o DeltasFrom(k + 1)
    <2> SUFFICES ASSUME k < TextLen
                 PROVE  DeltasFrom(k) = <<Delta(Text[k + 1])>> \o DeltasFrom(k + 1)
      OBVIOUS
    <2>1. k + 1 \in 1..Len(Deltas) /\ TextLen \in k + 1..Len(Deltas)
      BY <1>1
    <2>2. SubSeq(Deltas, k + 1, TextLen) = <<Deltas[k + 1]>> \o SubSeq(Deltas, k + 1 + 1, TextLen)
      BY <1>1, <2>1, SubSeqRecursiveFirst
    <2> QED
      BY <1>1, <2>1, <2>2 DEF DeltasFrom
  <1> QED
    BY <1>2, <1>3, <1>4, <1>5

\* What an event of the provider emits, as Emits says.
Emission(f, emitted) == IF Head(f).type = "whole" /\ emitted THEN <<>> ELSE Head(f).text

\* An event that is read emits the next piece of the text, or nothing.
LEMMA ReadsOn ==
    ASSUME NEW f \in Seq(Items), NEW emitted \in BOOLEAN, NEW k \in 0..TextLen,
           Left(f, emitted, k), f # <<>>, Head(f) # EndMark
    PROVE  \E n \in k..TextLen :
               /\ Emission(f, emitted) = Piece(k, n)
               /\ Left(Tail(f), emitted \/ Emission(f, emitted) # <<>>, n)
  <1> DEFINE e == Emission(f, emitted)
             after == emitted \/ e # <<>>
  <1>0. TextLen \in Nat /\ k \in Nat /\ k <= TextLen /\ k \in k..TextLen /\ TextLen \in k..TextLen
        /\ TextLen \in 0..TextLen
    BY TextIsSeq
  <1>1. /\ Piece(k, k) = <<>> /\ Piece(0, TextLen) = Text
        /\ Text = <<>> <=> TextLen = 0
        /\ DeltasFrom(TextLen) = <<>>
    <2>1. Piece(k, k) = <<>>
      BY <1>0, PieceFacts
    <2>2. 0 \in 0..TextLen /\ 0 <= TextLen
      BY <1>0
    <2>3. Piece(0, TextLen) = Text /\ (Piece(0, TextLen) = <<>> <=> 0 = TextLen)
      BY <1>0, <2>2, PieceFacts
    <2> QED
      BY <1>0, <2>1, <2>3, DeltasFacts
  \* A delta is next.
  <1>2. ASSUME NEW rest \in Seq(Items), k < TextLen, f = <<Delta(Text[k + 1])>> \o rest
        PROVE  /\ e = Piece(k, k + 1) /\ after /\ Tail(f) = rest
               /\ k + 1 \in k..TextLen /\ k + 1 > 0
    <2>1. k + 1 \in 1..TextLen
      BY <1>0, <1>2
    <2>2. Delta(Text[k + 1]) \in Items /\ Delta(Text[k + 1]).type = "delta"
          /\ Delta(Text[k + 1]).text = <<Text[k + 1]>>
      BY <2>1, TextIsSeq, ItemFacts
    <2>3. Head(f) = Delta(Text[k + 1]) /\ Tail(f) = rest
      BY <1>2, <2>2, Cons
    <2>4. e = <<Text[k + 1]>>
      BY <2>2, <2>3 DEF Emission
    <2>5. Piece(k, k + 1) = <<Text[k + 1]>>
      BY <1>0, <1>2, PieceFacts
    <2> QED
      BY <1>0, <2>1, <2>3, <2>4, <2>5
  \* The whole text is next, and nothing or all of it is new.
  <1>3. ASSUME NEW rest \in Seq(Items), f = <<Whole>> \o rest,
               emitted => k = TextLen, ~emitted => k = 0
        PROVE  /\ e = Piece(k, TextLen) /\ Tail(f) = rest
               /\ ~emitted => (after <=> TextLen > 0)
    <2>1. Head(f) = Whole /\ Tail(f) = rest
      BY <1>3, Cons, ItemFacts
    <2>2. e = IF emitted THEN <<>> ELSE Text
      BY <2>1, ItemFacts DEF Emission
    <2>3. CASE emitted
      BY <1>0, <1>1, <1>3, <2>1, <2>2, <2>3
    <2>4. CASE ~emitted
      BY <1>0, <1>1, <1>3, <2>1, <2>2, <2>4
    <2> QED
      BY <2>3, <2>4
  <1> HIDE DEF e, after
  <1>4. CASE f = DeltasFrom(k) \o <<Whole>> /\ (emitted <=> k > 0)
    <2>1. <<Whole>> \in Seq(Items)
      BY ItemFacts
    <2>2. CASE k < TextLen
      <3> DEFINE d == <<Delta(Text[k + 1])>>
                 rest == DeltasFrom(k + 1)
      <3>1. k + 1 \in 0..TextLen /\ k + 1 \in 1..TextLen
        BY <1>0, <2>2
      <3>2. DeltasFrom(k) = d \o rest /\ rest \in Seq(Items) /\ d \in Seq(Items)
        <4>1. Delta(Text[k + 1]) \in Items
          BY <3>1, TextIsSeq, ItemFacts
        <4>2. DeltasFrom(k) = d \o rest
          BY <2>2, DeltasFacts
        <4>3. rest \in Seq(Items)
          BY <3>1, DeltasFacts
        <4>4. d \in Seq(Items)
          BY <4>1
        <4> QED
          BY <4>2, <4>3, <4>4
      <3> HIDE DEF d, rest
      <3>3. f = d \o (rest \o <<Whole>>) /\ rest \o <<Whole>> \in Seq(Items)
        <4> DEFINE w == <<Whole>>
        <4>1. w \in Seq(Items) /\ f = (d \o rest) \o w
          BY <1>4, <2>1, <3>2
        <4> HIDE DEF w
        <4>2. (d \o rest) \o w = d \o (rest \o w)
          BY <3>2, <4>1, ConcatAssociative
        <4>3. rest \o w \in Seq(Items)
          BY <3>2, <4>1, ConcatProperties
        <4> QED
          BY <4>1, <4>2, <4>3 DEF w
      <3>4. /\ e = Piece(k, k + 1) /\ after /\ Tail(f) = rest \o <<Whole>>
            /\ k + 1 \in k..TextLen /\ k + 1 > 0
        BY <1>2, <2>2, <3>3 DEF d
      <3>5. Left(Tail(f), after, k + 1)
        BY <3>4 DEF Left, rest
      <3> QED
        BY <3>4, <3>5 DEF e, after
    <2>3. CASE k = TextLen
      <3>1. f = <<Whole>> \o <<>> /\ <<>> \in Seq(Items)
        BY <1>1, <1>4, <2>1, <2>3, ConcatEmptySeq
      <3>2. e = Piece(k, TextLen) /\ Tail(f) = <<>>
        <4>1. (emitted => k = TextLen) /\ (~emitted => k = 0)
          BY <1>0, <1>4, <2>3
        <4> QED
          BY <1>3, <3>1, <4>1
      <3>3. Left(Tail(f), after, TextLen)
        BY <1>1, <3>2 DEF Left
      <3> QED
        BY <1>0, <3>2, <3>3 DEF e, after
    <2> QED
      BY <1>0, <2>2, <2>3
  <1>5. CASE f = DeltasFrom(k)
    <2>1. k < TextLen
      BY <1>0, <1>1, <1>5
    <2>2. k + 1 \in 0..TextLen
      BY <1>0, <2>1
    <2>3. f = <<Delta(Text[k + 1])>> \o DeltasFrom(k + 1) /\ DeltasFrom(k + 1) \in Seq(Items)
      BY <1>5, <2>1, <2>2, DeltasFacts
    <2>4. e = Piece(k, k + 1) /\ Tail(f) = DeltasFrom(k + 1) /\ k + 1 \in k..TextLen
      BY <1>2, <2>1, <2>3
    <2>5. Left(Tail(f), after, k + 1)
      BY <2>4 DEF Left
    <2> QED
      BY <2>4, <2>5 DEF e, after
  <1>6. CASE f = <<Other>> \o Deltas /\ k = 0
    <2>1. Deltas \in Seq(Items) /\ Deltas = DeltasFrom(k)
      BY <1>6, DeltasFacts
    <2>2. Head(f) = Other /\ Tail(f) = DeltasFrom(k)
      BY <1>6, <2>1, Cons, ItemFacts
    <2>3. e = Piece(k, k)
      BY <1>1, <2>2, ItemFacts DEF e, Emission
    <2>4. Left(Tail(f), after, k)
      BY <2>2 DEF Left
    <2> QED
      BY <1>0, <2>3, <2>4 DEF e, after
  <1>7. CASE f = <<Whole, Whole, EndMark>> /\ k = 0 /\ ~emitted
    <2>1. f = <<Whole>> \o <<Whole, EndMark>> /\ <<Whole, EndMark>> \in Seq(Items)
      BY <1>7, ItemFacts
    <2>2. e = Piece(k, TextLen) /\ Tail(f) = <<Whole, EndMark>> /\ (after <=> TextLen > 0)
      BY <1>3, <1>7, <2>1
    <2>3. Left(Tail(f), after, TextLen)
      BY <2>2 DEF Left
    <2> QED
      BY <1>0, <2>2, <2>3 DEF e, after
  <1>8. CASE f = <<Whole, EndMark>> /\ k = TextLen /\ (emitted <=> k > 0)
    <2>1. f = <<Whole>> \o <<EndMark>> /\ <<EndMark>> \in Seq(Items)
      BY <1>8, ItemFacts
    <2>2. e = Piece(k, TextLen) /\ Tail(f) = <<EndMark>>
      <3>1. (emitted => k = TextLen) /\ (~emitted => k = 0)
        BY <1>0, <1>8
      <3> QED
        BY <1>3, <2>1, <3>1
    <2>3. Left(Tail(f), after, TextLen)
      BY <2>2 DEF Left
    <2> QED
      BY <1>0, <2>2, <2>3 DEF e, after
  <1>9. CASE f = <<EndMark>>
    BY <1>9
  <1>10. CASE f = <<WholeDelta>> /\ k = 0
    <2>1. Head(f) = WholeDelta /\ Tail(f) = <<>>
      BY <1>10
    <2>2. e = Piece(k, TextLen)
      BY <1>1, <1>10, <2>1, ItemFacts DEF e, Emission
    <2>3. Left(Tail(f), after, TextLen)
      BY <1>1, <2>1 DEF Left
    <2> QED
      BY <1>0, <2>2, <2>3 DEF e, after
  <1> QED
    BY <1>4, <1>5, <1>6, <1>7, <1>8, <1>9, <1>10 DEF Left

\* A stream that has nothing left, or only the mark, was read to the last part.
LEMMA EndsBehind ==
    ASSUME NEW f, NEW emitted, NEW k \in 0..TextLen, Left(f, emitted, k),
           f # <<>> => Head(f) = EndMark
    PROVE  k = TextLen
  <1>1. TextLen \in Nat
    BY TextIsSeq
  <1>2. Whole # EndMark /\ WholeDelta # EndMark /\ Other # EndMark
        /\ <<Whole>> \in Seq(Items)
    BY ItemFacts
  <1>3. ASSUME k < TextLen
        PROVE  f # DeltasFrom(k) /\ f # DeltasFrom(k) \o <<Whole>>
    <2> DEFINE d == Delta(Text[k + 1])
               rest == DeltasFrom(k + 1)
    <2>1. k + 1 \in 0..TextLen /\ k + 1 \in 1..TextLen
      BY <1>1, <1>3
    <2>2. d \in Items /\ d # EndMark
      BY <2>1, TextIsSeq, ItemFacts
    <2>3. DeltasFrom(k) = <<d>> \o rest
      BY <1>3, DeltasFacts
    <2>4. rest \in Seq(Items)
      BY <2>1, DeltasFacts
    <2> HIDE DEF d, rest
    <2>5. rest \o <<Whole>> \in Seq(Items) /\ <<d>> \in Seq(Items)
      BY <1>2, <2>2, <2>4, ConcatProperties
    <2>6. DeltasFrom(k) \o <<Whole>> = <<d>> \o (rest \o <<Whole>>)
      BY <1>2, <2>3, <2>4, <2>5, ConcatAssociative
    <2>7. DeltasFrom(k) # <<>> /\ Head(DeltasFrom(k)) = d
      BY <2>2, <2>3, <2>4, Cons
    <2>8. DeltasFrom(k) \o <<Whole>> # <<>> /\ Head(DeltasFrom(k) \o <<Whole>>) = d
      BY <2>2, <2>5, <2>6, Cons
    <2> QED
      BY <2>2, <2>7, <2>8
  <1>4. f # <<Other>> \o Deltas
    <2>1. 0 \in 0..TextLen
      BY <1>1
    <2>2. Deltas \in Seq(Items)
      BY <2>1, DeltasFacts
    <2> QED
      BY <1>2, <2>2, Cons, ItemFacts
  <1>5. f # <<Whole, Whole, EndMark>> /\ f # <<WholeDelta>>
    BY <1>2
  <1>6. k # TextLen => k < TextLen
    BY <1>1
  <1> QED
    BY <1>3, <1>4, <1>5, <1>6, Zenon DEF Left

\* Pieces that join are still joined when one is added or the first is taken.
LEMMA JoinsFacts ==
    /\ \A m \in 0..TextLen : Joins(<<>>, m, m)
    /\ \A m, k \in 0..TextLen : Joins(<<>>, m, k) => m = k
  <1>1. ASSUME NEW m \in 0..TextLen PROVE Joins(<<>>, m, m)
    <2> DEFINE cut == [i \in 0..0 |-> m]
    <2>1. cut \in [0..Len(<<>>) -> 0..TextLen] /\ cut[0] = m /\ cut[Len(<<>>)] = m
          /\ \A i \in 1..Len(<<>>) : FALSE
      OBVIOUS
    <2> QED
      BY <2>1 DEF Joins
  <1>2. ASSUME NEW m \in 0..TextLen, NEW k \in 0..TextLen, Joins(<<>>, m, k) PROVE m = k
    BY <1>2 DEF Joins
  <1> QED
    BY <1>1, <1>2

LEMMA JoinsAppend ==
    ASSUME NEW S, NEW seq \in Seq(S), NEW m \in 0..TextLen, NEW k \in 0..TextLen,
           NEW n \in 0..TextLen, k <= n, Joins(seq, m, k), Piece(k, n) \in S
    PROVE  Joins(Append(seq, Piece(k, n)), m, n)
  <1> DEFINE new == Append(seq, Piece(k, n))
             len == Len(seq)
  <1>1. PICK cut \in [0..len -> 0..TextLen] :
          /\ cut[0] = m /\ cut[len] = k
          /\ \A i \in 1..len : cut[i - 1] <= cut[i] /\ seq[i] = Piece(cut[i - 1], cut[i])
    BY DEF Joins
  <1>2. /\ Len(new) = len + 1 /\ len \in Nat
        /\ \A i \in 1..len : new[i] = seq[i]
        /\ new[len + 1] = Piece(k, n)
    BY AppendProperties, LenProperties
  <1> HIDE DEF new, len
  <1> DEFINE more == [i \in 0..len + 1 |-> IF i = len + 1 THEN n ELSE cut[i]]
  <1>3. more \in [0..len + 1 -> 0..TextLen] /\ more[0] = m /\ more[len + 1] = n
    BY <1>1, <1>2
  <1>4. ASSUME NEW i \in 1..len + 1
        PROVE  more[i - 1] <= more[i] /\ new[i] = Piece(more[i - 1], more[i])
    <2>1. CASE i = len + 1
      <3>1. more[i - 1] = k /\ more[i] = n
        BY <1>1, <1>2, <2>1
      <3> QED
        BY <1>2, <2>1, <3>1
    <2>2. CASE i # len + 1
      <3>1. i \in 1..len /\ more[i - 1] = cut[i - 1] /\ more[i] = cut[i]
        BY <1>2, <2>2
      <3> QED
        BY <1>1, <1>2, <3>1
    <2> QED
      BY <2>1, <2>2
  <1> HIDE DEF more
  <1> QED
    BY <1>2, <1>3, <1>4 DEF Joins, new

LEMMA JoinsTail ==
    ASSUME NEW S, NEW seq \in Seq(S), seq # <<>>, NEW m \in 0..TextLen, NEW k \in 0..TextLen,
           Joins(seq, m, k)
    PROVE  \E n \in 0..TextLen :
               m <= n /\ Head(seq) = Piece(m, n) /\ Joins(Tail(seq), n, k)
  <1> DEFINE rest == Tail(seq)
             len == Len(seq)
  <1>1. PICK cut \in [0..len -> 0..TextLen] :
          /\ cut[0] = m /\ cut[len] = k
          /\ \A i \in 1..len : cut[i - 1] <= cut[i] /\ seq[i] = Piece(cut[i - 1], cut[i])
    BY DEF Joins
  <1>2. /\ Len(rest) = len - 1 /\ len \in Nat /\ len >= 1
        /\ \A i \in 1..len - 1 : rest[i] = seq[i + 1]
        /\ Head(seq) = seq[1]
    BY HeadTailProperties, LenProperties, EmptySeq
  <1> HIDE DEF rest, len
  <1> DEFINE less == [i \in 0..len - 1 |-> cut[i + 1]]
  <1>3. /\ less \in [0..len - 1 -> 0..TextLen] /\ less[0] = cut[1] /\ less[len - 1] = k
        /\ cut[1] \in 0..TextLen
    BY <1>1, <1>2
  <1>4. ASSUME NEW i \in 1..len - 1
        PROVE  less[i - 1] <= less[i] /\ rest[i] = Piece(less[i - 1], less[i])
    <2>1. i + 1 \in 1..len /\ less[i - 1] = cut[i] /\ less[i] = cut[i + 1] /\ (i + 1) - 1 = i
      BY <1>2
    <2>2. cut[(i + 1) - 1] <= cut[i + 1] /\ seq[i + 1] = Piece(cut[(i + 1) - 1], cut[i + 1])
      BY <1>1, <2>1
    <2> QED
      BY <1>2, <2>1, <2>2
  <1>5. m <= cut[1] /\ Head(seq) = Piece(m, cut[1])
    <2>1. 1 \in 1..len /\ 1 - 1 = 0
      BY <1>2
    <2> QED
      BY <1>1, <1>2, <2>1
  <1> HIDE DEF less
  <1>6. Joins(rest, cut[1], k)
    BY <1>2, <1>3, <1>4 DEF Joins
  <1> QED
    BY <1>3, <1>5, <1>6 DEF rest

-----------------------------------------------------------------------------
(* The goroutines of a stream *)

LEMMA StreamStart == Init => StreamInv
  <1> SUFFICES ASSUME Init PROVE StreamInv
    OBVIOUS
  <1>1. StreamTyped
    <2>1. \A S : <<>> \in Seq(S)
      BY EmptySeq
    <2> QED
      BY <2>1 DEF Init, StreamInit, StreamTyped
  <1>2. ASSUME NEW t \in Turns PROVE StreamOf(t)
    BY DEF Init, StreamInit, StreamOf, NotOpen
  <1> QED
    BY <1>1, <1>2 DEF StreamInv

\* A step of one turn leaves the streams of the others.
LEMMA OthersStay ==
    ASSUME StreamInv, NEW t \in Turns, StreamTyped', StreamOf(t)',
           \A u \in Turns \ {t} :
               /\ feed'[u] = feed[u] /\ reader'[u] = reader[u] /\ whole'[u] = whole[u]
               /\ events'[u] = events[u] /\ done'[u] = done[u] /\ waits'[u] = waits[u]
               /\ text'[u] = text[u] /\ result'[u] = result[u] /\ route'[u] = route[u]
    PROVE  StreamInv'
  <1> SUFFICES ASSUME NEW u \in Turns \ {t} PROVE StreamOf(u)'
    BY DEF StreamInv
  <1>1. StreamOf(u)
    BY DEF StreamInv
  <1>2. NotOpen(u) => NotOpen(u)'
    BY DEF NotOpen
  <1>3. \A k : Collected(u, k) => Collected(u, k)'
    BY DEF Collected
  <1>4. Reading(u) => Reading(u)'
    BY <1>3 DEF Reading
  <1>5. Failing(u) => Failing(u)'
    BY DEF Failing
  <1>6. Ending(u) => Ending(u)'
    BY <1>3 DEF Ending
  <1> QED
    BY <1>1, <1>2, <1>4, <1>5, <1>6 DEF StreamOf

\* The stream of a provider begins at the first part.
LEMMA OpenKeeps ==
    ASSUME StreamInv, NEW t \in Turns, route[t] \in Providers, result[t] = "none",
           Open(t, route[t]), UNCHANGED route
    PROVE  StreamInv'
  <1>1. PICK f \in Feeds(route[t]) : feed' = [feed EXCEPT ![t] = f]
    BY DEF Open
  <1>2. /\ reader[t] = "none" /\ reader' = [reader EXCEPT ![t] = "reads"]
        /\ UNCHANGED <<whole, events, done, waits, text, result>>
    BY DEF Open, ReaderGoes
  <1>3. 0 \in 0..TextLen /\ TextLen \in Nat
    BY TextIsSeq
  <1>4. Left(f, FALSE, 0) /\ f \in Seq(Items)
    <2>1. <<Whole>> \in Seq(Items) /\ <<Other>> \in Seq(Items) /\ <<WholeDelta>> \in Seq(Items)
          /\ <<Whole, Whole, EndMark>> \in Seq(Items)
      BY ItemFacts
    <2>2. Deltas \in Seq(Items) /\ DeltasFrom(0) = Deltas
      BY <1>3, DeltasFacts
    <2>3. Deltas \o <<Whole>> \in Seq(Items) /\ <<Other>> \o Deltas \in Seq(Items)
      BY <2>1, <2>2, ConcatProperties
    <2>4. \/ f = Deltas \o <<Whole>> \/ f = <<Whole, Whole, EndMark>>
          \/ f = <<Other>> \o Deltas \/ f = <<WholeDelta>>
      BY DEF Feeds, Providers, WholeDelta
    <2>5. f \in Seq(Items)
      BY <2>1, <2>3, <2>4
    <2>6. CASE f = Deltas \o <<Whole>>
      <3>1. FALSE <=> 0 > 0
        OBVIOUS
      <3> QED
        BY <2>2, <2>5, <2>6, <3>1, Zenon DEF Left
    <2>7. CASE f # Deltas \o <<Whole>>
      BY <2>4, <2>5, <2>7, Zenon DEF Left
    <2> QED
      BY <2>6, <2>7
  <1>5. NotOpen(t)
    BY <1>2 DEF StreamInv, StreamOf, NotOpen, Reading, Failing, Ending
  <1>6. StreamTyped'
    BY <1>1, <1>2, <1>4 DEF StreamInv, StreamTyped
  <1>7. feed'[t] = f /\ reader'[t] = "reads"
    BY <1>1, <1>2 DEF StreamInv, StreamTyped
  <1>8. Collected(t, 0)'
    <2>1. Piece(0, 0) = <<>> /\ Joins(<<>>, 0, 0)
      BY <1>3, PieceFacts, JoinsFacts
    <2> QED
      BY <1>2, <1>3, <1>5, <2>1 DEF Collected, NotOpen
  <1>9. Reading(t)'
    BY <1>2, <1>3, <1>4, <1>5, <1>7, <1>8 DEF Reading, NotOpen
  <1>10. StreamOf(t)'
    BY <1>9, <1>2 DEF StreamOf, Providers
  <1> QED
    BY <1>1, <1>2, <1>6, <1>10, OthersStay DEF StreamInv, StreamTyped

LEMMA ReadKeeps ==
    ASSUME StreamInv, NEW t \in Turns, ReadEvent(t), UNCHANGED route
    PROVE  StreamInv'
  <1> DEFINE f == feed[t]
             e == Emits(t)
  <1>1. /\ reader[t] = "reads" /\ f # <<>> /\ Head(f) # EndMark
        /\ feed' = [feed EXCEPT ![t] = Tail(f)]
        /\ whole' = [whole EXCEPT ![t] = whole[t] \/ e # <<>>]
        /\ e = <<>> => events' = events
        /\ e # <<>> => events' = [events EXCEPT ![t] = Append(events[t], e)]
        /\ UNCHANGED <<reader, done, waits, text, result, route>>
    BY DEF ReadEvent
  <1>2. f \in Seq(Items) /\ events[t] \in Seq(Seq(Parts)) /\ e = Emission(f, whole[t])
    BY DEF StreamInv, StreamTyped, Emits, Emission
  <1>3. Head(f) \in Items /\ Tail(f) \in Seq(Items)
    BY <1>1, <1>2, HeadTailProperties
  <1>4. e \in Seq(Parts)
    BY <1>2, <1>3, ItemFacts, EmptySeq DEF Emission
  <1> HIDE DEF e, f
  <1>5. Append(events[t], e) \in Seq(Seq(Parts))
    BY <1>2, <1>4, AppendProperties
  <1>6. StreamTyped'
    BY <1>1, <1>3, <1>5 DEF StreamInv, StreamTyped
  <1>7. /\ feed'[t] = Tail(f) /\ whole'[t] = (whole[t] \/ e # <<>>)
        /\ events'[t] = IF e = <<>> THEN events[t] ELSE Append(events[t], e)
    BY <1>1 DEF StreamInv, StreamTyped
  <1>8. ASSUME Reading(t) PROVE Reading(t)'
    <2>1. PICK k \in 0..TextLen : Left(f, whole[t], k) /\ Collected(t, k)
      BY <1>8 DEF Reading, f
    <2>2. PICK n \in k..TextLen :
            e = Piece(k, n) /\ Left(Tail(f), whole[t] \/ e # <<>>, n)
      <3>1. whole[t] \in BOOLEAN
        BY <1>8 DEF Reading
      <3> QED
        BY <1>1, <1>2, <2>1, <3>1, ReadsOn
    <2>3. n \in 0..TextLen /\ k <= n
      BY TextIsSeq
    <2>4. PICK m \in 0..TextLen : text[t] = Piece(0, m) /\ Joins(events[t], m, k)
      BY <2>1 DEF Collected
    <2>5. Joins(events'[t], m, n)
      <3>1. CASE e = <<>>
        <4>1. k = n
          BY <2>2, <2>3, <3>1, PieceFacts
        <4> QED
          BY <1>7, <2>4, <3>1, <4>1
      <3>2. CASE e # <<>>
        BY <1>2, <1>4, <1>7, <2>2, <2>3, <2>4, <3>2, JoinsAppend
      <3> QED
        BY <3>1, <3>2
    <2>6. Collected(t, n)'
      BY <1>1, <2>4, <2>5 DEF Collected
    <2>7. Left(feed'[t], whole'[t], n)
      BY <1>7, <2>2
    <2> QED
      BY <1>1, <1>7, <1>8, <2>3, <2>6, <2>7 DEF Reading
  <1>9. StreamOf(t)'
    <2>1. StreamOf(t)
      BY DEF StreamInv
    <2>2. result[t] = "error" \/ Reading(t)
      BY <1>1, <2>1 DEF StreamOf, NotOpen, Failing, Ending
    <2> QED
      BY <1>1, <1>8, <2>1, <2>2 DEF StreamOf
  <1> QED
    BY <1>1, <1>6, <1>9, OthersStay DEF StreamInv, StreamTyped

\* The reader says how the stream ended: well only behind the last part.
LEMMA SaysKeeps ==
    ASSUME StreamInv, NEW t \in Turns, ReadEnd(t) \/ Breaks(t), UNCHANGED route
    PROVE  StreamInv'
  <1>1. PICK ending \in {"ok", "error"} :
          Says(t, ending) /\ (ending = "ok" /\ feed[t] # <<>> => Head(feed[t]) = EndMark)
    BY DEF ReadEnd, Breaks
  <1>2. /\ reader[t] = "reads" /\ reader' = [reader EXCEPT ![t] = "said"]
        /\ done' = [done EXCEPT ![t] = <<ending>>]
        /\ feed' = [feed EXCEPT ![t] = <<>>] /\ whole' = [whole EXCEPT ![t] = FALSE]
        /\ UNCHANGED <<events, waits, text, result, route>>
    BY <1>1 DEF Says, ReaderGoes
  <1>3. StreamTyped'
    BY <1>2, EmptySeq DEF StreamInv, StreamTyped
  <1>4. reader'[t] = "said" /\ done'[t] = <<ending>>
    BY <1>2 DEF StreamInv, StreamTyped
  <1>5. StreamOf(t)
    BY DEF StreamInv
  <1>6. result[t] = "error" \/ Reading(t)
    BY <1>2, <1>5 DEF StreamOf, NotOpen, Failing, Ending
  <1>7. Reading(t) /\ ending = "error" => Failing(t)'
    BY <1>2, <1>4 DEF Reading, Failing, Channels
  <1>8. ASSUME Reading(t), ending = "ok" PROVE Ending(t)'
    <2>1. PICK k \in 0..TextLen : Left(feed[t], whole[t], k) /\ Collected(t, k)
      BY <1>8 DEF Reading
    <2>2. k = TextLen
      BY <1>1, <1>8, <2>1, EndsBehind DEF StreamInv, StreamTyped
    <2>3. Collected(t, TextLen)'
      BY <1>2, <2>1, <2>2 DEF Collected
    <2> QED
      BY <1>2, <1>4, <1>8, <2>3 DEF Reading, Ending, Channels
  <1>9. StreamOf(t)'
    BY <1>2, <1>4, <1>5, <1>6, <1>7, <1>8 DEF StreamOf
  <1> QED
    BY <1>2, <1>3, <1>9, OthersStay DEF StreamInv, StreamTyped

LEMMA CloseKeeps ==
    ASSUME StreamInv, NEW t \in Turns, CloseChannels(t), UNCHANGED route
    PROVE  StreamInv'
  <1>1. /\ reader[t] = "said" /\ reader' = [reader EXCEPT ![t] = "closed"]
        /\ UNCHANGED <<feed, whole, events, done, waits, text, result, route>>
    BY DEF CloseChannels, ReaderGoes
  <1>2. StreamTyped' /\ reader'[t] = "closed"
    BY <1>1 DEF StreamInv, StreamTyped
  <1>3. StreamOf(t) /\ \A k : Collected(t, k) => Collected(t, k)'
    BY <1>1 DEF StreamInv, Collected
  <1>4. StreamOf(t)'
    BY <1>1, <1>2, <1>3 DEF StreamOf, NotOpen, Reading, Failing, Ending
  <1> QED
    BY <1>1, <1>2, <1>4, OthersStay DEF StreamInv, StreamTyped

\* A piece goes from the channel to the text.
LEMMA CollectKeeps ==
    ASSUME StreamInv, NEW t \in Turns, CollectEvent(t), UNCHANGED route
    PROVE  StreamInv'
  <1>1. /\ result[t] = "none" /\ "events" \in waits[t] /\ events[t] # <<>>
        /\ text' = [text EXCEPT ![t] = text[t] \o Head(events[t])]
        /\ events' = [events EXCEPT ![t] = Tail(events[t])]
        /\ UNCHANGED <<feed, reader, whole, done, waits, result, route>>
    BY DEF CollectEvent, Collecting
  <1>2. Tail(events[t]) \in Seq(Seq(Parts)) /\ events[t] \in Seq(Seq(Parts))
    BY <1>1, HeadTailProperties DEF StreamInv, StreamTyped
  <1>3. StreamTyped'
    BY <1>1, <1>2 DEF StreamInv, StreamTyped
  <1>4. text'[t] = text[t] \o Head(events[t]) /\ events'[t] = Tail(events[t])
    BY <1>1 DEF StreamInv, StreamTyped
  <1>5. ASSUME NEW k \in 0..TextLen, Collected(t, k) PROVE Collected(t, k)'
    <2>1. PICK m \in 0..TextLen : text[t] = Piece(0, m) /\ Joins(events[t], m, k)
      BY <1>5 DEF Collected
    <2>2. PICK n \in 0..TextLen :
            m <= n /\ Head(events[t]) = Piece(m, n) /\ Joins(Tail(events[t]), n, k)
      BY <1>1, <1>2, <2>1, JoinsTail
    <2>3. text'[t] = Piece(0, n)
      <3>1. Piece(0, m) \o Piece(m, n) = Piece(0, n)
        BY <2>1, <2>2, PieceFacts
      <3> QED
        BY <1>4, <2>1, <2>2, <3>1
    <2> QED
      BY <1>4, <2>2, <2>3 DEF Collected
  <1>6. StreamOf(t)
    BY DEF StreamInv
  <1>7. TextLen \in 0..TextLen
    BY TextIsSeq
  <1>8. StreamOf(t)'
    <2>1. ~NotOpen(t)
      BY <1>1 DEF NotOpen
    <2>2. Reading(t) => Reading(t)'
      BY <1>1, <1>5 DEF Reading
    <2>3. Failing(t) => Failing(t)'
      BY <1>1 DEF Failing
    <2>4. Ending(t) => Ending(t)'
      BY <1>1, <1>5, <1>7 DEF Ending
    <2> QED
      BY <1>1, <1>6, <2>1, <2>2, <2>3, <2>4 DEF StreamOf
  <1> QED
    BY <1>1, <1>3, <1>8, OthersStay DEF StreamInv, StreamTyped

\* The collector turns from the closed channel of events.
LEMMA ClosedKeeps ==
    ASSUME StreamInv, NEW t \in Turns, EventsClosed(t), UNCHANGED route
    PROVE  StreamInv'
  <1>1. /\ result[t] = "none" /\ events[t] = <<>> /\ reader[t] = "closed"
        /\ waits' = [waits EXCEPT ![t] = waits[t] \ {"events"}]
        /\ result' = [result EXCEPT ![t] = IF waits'[t] = {} THEN "ok" ELSE result[t]]
        /\ UNCHANGED <<feed, reader, whole, events, done, text, route>>
    BY DEF EventsClosed, Collecting, StopsWaiting
  <1>2. StreamTyped'
    BY <1>1 DEF StreamInv, StreamTyped
  <1>3. /\ waits'[t] = waits[t] \ {"events"}
        /\ result'[t] = IF waits'[t] = {} THEN "ok" ELSE "none"
    BY <1>1 DEF StreamInv, StreamTyped
  <1>4. StreamOf(t) /\ \A k : Collected(t, k) => Collected(t, k)'
    BY <1>1 DEF StreamInv, Collected
  <1>5. Failing(t) => Failing(t)'
    <2>1. "done" \in waits[t] => "done" \in waits'[t] /\ waits'[t] # {}
      BY <1>3
    <2> QED
      BY <1>1, <1>3, <2>1 DEF Failing
  <1>6. Ending(t) => Ending(t)'
    <2>1. "done" \in waits'[t] <=> "done" \in waits[t]
      BY <1>3
    <2>2. waits[t] \subseteq Channels => waits'[t] \subseteq Channels
      BY <1>3
    <2> QED
      BY <1>1, <1>3, <1>4, <2>1, <2>2 DEF Ending
  <1>7. StreamOf(t)'
    BY <1>1, <1>4, <1>5, <1>6 DEF StreamOf, NotOpen, Reading
  <1> QED
    BY <1>1, <1>2, <1>7, OthersStay DEF StreamInv, StreamTyped

\* It learns how the stream ended, and goes on with the events when it ended well.
LEMMA DoneKeeps ==
    ASSUME StreamInv, NEW t \in Turns, CollectDone(t), UNCHANGED route
    PROVE  StreamInv'
  <1>1. /\ result[t] = "none" /\ "done" \in waits[t] /\ done[t] # <<>>
        /\ done' = [done EXCEPT ![t] = <<>>]
        /\ UNCHANGED <<feed, reader, whole, events, text, route>>
    BY DEF CollectDone, CollectDoneAnd, Collecting
  <1>2. StreamOf(t) /\ \A k : Collected(t, k) => Collected(t, k)'
    BY <1>1 DEF StreamInv, Collected
  <1>3. done'[t] = <<>>
    BY <1>1 DEF StreamInv, StreamTyped
  <1>4. CASE Head(done[t]) = "ok"
    <2>1. /\ waits' = [waits EXCEPT ![t] = waits[t] \ {"done"}]
          /\ result' = [result EXCEPT ![t] = IF waits'[t] = {} THEN "ok" ELSE result[t]]
      BY <1>4 DEF CollectDone, CollectDoneAnd, StopsWaiting
    <2>2. StreamTyped'
      BY <1>1, <2>1 DEF StreamInv, StreamTyped
    <2>3. /\ waits'[t] = waits[t] \ {"done"}
          /\ result'[t] = IF waits'[t] = {} THEN "ok" ELSE "none"
      BY <1>1, <2>1 DEF StreamInv, StreamTyped
    <2>4. Ending(t)
      <3>1. done[t] # <<"error">>
        BY <1>4
      <3> QED
        BY <1>1, <1>2, <3>1 DEF StreamOf, NotOpen, Reading, Failing
    <2>5. Ending(t)'
      <3>1. "done" \notin waits'[t] /\ ("events" \in waits'[t] <=> "events" \in waits[t])
        BY <2>3
      <3>2. waits'[t] \subseteq Channels
        BY <2>3, <2>4 DEF Ending
      <3> QED
        BY <1>1, <1>2, <1>3, <2>3, <2>4, <3>1, <3>2 DEF Ending
    <2>6. StreamOf(t)'
      BY <1>1, <1>2, <2>5 DEF StreamOf
    <2> QED
      BY <1>1, <2>1, <2>2, <2>6, OthersStay DEF StreamInv, StreamTyped
  <1>5. CASE Head(done[t]) # "ok"
    <2>1. result' = [result EXCEPT ![t] = "error"] /\ waits' = waits
      BY <1>5 DEF CollectDone, CollectDoneAnd
    <2>2. StreamTyped'
      BY <1>1, <2>1 DEF StreamInv, StreamTyped
    <2>3. StreamOf(t)'
      <3>1. result'[t] = "error"
        BY <2>1 DEF StreamInv, StreamTyped
      <3> QED
        BY <1>1, <1>2, <3>1 DEF StreamOf
    <2> QED
      BY <1>1, <2>1, <2>2, <2>3, OthersStay DEF StreamInv, StreamTyped
  <1> QED
    BY <1>4, <1>5

\* A completion fails without a stream, or a turn is sent on its way.
LEMMA NoStreamKeeps ==
    ASSUME StreamInv, NEW t \in Turns, NoStream(t) \/ UNCHANGED streamVars,
           UNCHANGED route
           \/ \E p : route[t] = "none" /\ route' = [route EXCEPT ![t] = p]
    PROVE  StreamInv'
  <1>1. /\ UNCHANGED <<feed, reader, whole, events, done, waits, text>>
        /\ \/ UNCHANGED result
           \/ result' = [result EXCEPT ![t] = "error"]
    BY DEF NoStream, streamVars
  <1>2. StreamTyped'
    BY <1>1 DEF StreamInv, StreamTyped
  <1>3. StreamOf(t) /\ \A k : Collected(t, k) => Collected(t, k)'
    BY <1>1 DEF StreamInv, Collected
  <1>4. route'[t] = "none" => reader'[t] = "none"
    BY <1>1, <1>3 DEF StreamOf, StreamInv, StreamTyped
  <1>5. result'[t] = "error" \/ UNCHANGED <<result>>
    BY <1>1 DEF StreamInv, StreamTyped
  <1>6. StreamOf(t)'
    BY <1>1, <1>3, <1>4, <1>5 DEF StreamOf, NotOpen, Reading, Failing, Ending
  <1> QED
    BY <1>1, <1>2, <1>6, OthersStay DEF StreamInv, StreamTyped

\* The end of the host fails what has not ended.
LEMMA EndsStreams == StreamInv /\ Ends => StreamInv'
  <1> SUFFICES ASSUME StreamInv, Ends PROVE StreamInv'
    OBVIOUS
  <1>1. /\ reader' = [t \in Turns |-> IF route[t] = "none" THEN "none" ELSE "closed"]
        /\ result' = [t \in Turns |-> IF route[t] # "none" /\ result[t] = "none"
                                      THEN "error" ELSE result[t]]
        /\ UNCHANGED <<feed, whole, events, done, waits, text, route>>
    BY DEF Ends
  <1>2. StreamTyped'
    BY <1>1 DEF StreamInv, StreamTyped
  <1>3. ASSUME NEW t \in Turns PROVE StreamOf(t)'
    <2>1. StreamOf(t) /\ \A k : Collected(t, k) => Collected(t, k)'
      BY <1>1 DEF StreamInv, Collected
    <2>2. CASE route[t] = "none"
      <3>1. reader[t] = "none" /\ reader'[t] = "none" /\ result'[t] = result[t]
        BY <1>1, <2>1, <2>2 DEF StreamOf
      <3> QED
        BY <1>1, <2>1, <3>1 DEF StreamOf, NotOpen, Reading, Failing, Ending
    <2>3. CASE route[t] # "none"
      <3>1. /\ reader'[t] = "closed" /\ route'[t] # "none"
            /\ result'[t] = IF result[t] = "none" THEN "error" ELSE result[t]
        BY <1>1, <2>3
      <3>2. Ending(t) /\ result[t] # "none" => Ending(t)'
        BY <1>1, <2>1, <3>1 DEF Ending
      <3> QED
        BY <2>1, <3>1, <3>2 DEF StreamOf, NotOpen, Reading, Failing
    <2> QED
      BY <2>2, <2>3
  <1> QED
    BY <1>2, <1>3 DEF StreamInv

LEMMA StreamKept == StreamInv /\ [Next]_vars => StreamInv'
  <1> SUFFICES ASSUME StreamInv, [Next]_vars PROVE StreamInv'
    OBVIOUS
  <1>1. ASSUME NEW t \in Turns, Route(t) PROVE StreamInv'
    BY <1>1, NoStreamKeeps DEF Route
  <1>2. ASSUME NEW t \in Turns, Streams(t) PROVE StreamInv'
    BY <1>2, OpenKeeps DEF Streams
  <1>3. ASSUME NEW t \in Turns, CompletionFails(t) PROVE StreamInv'
    BY <1>3, NoStreamKeeps DEF CompletionFails
  <1>4. ASSUME NEW t \in Turns, Reads(t) PROVE StreamInv'
    BY <1>4, ReadKeeps, SaysKeeps, CloseKeeps DEF Reads, ReadStream
  <1>5. ASSUME NEW t \in Turns, Collects(t) PROVE StreamInv'
    BY <1>5, CollectKeeps, ClosedKeeps, DoneKeeps DEF Collects, Collect
  <1>6. CASE UNCHANGED <<streamVars, route>>
    <2>1. StreamTyped'
      BY <1>6 DEF streamVars, StreamInv, StreamTyped
    <2>2. ASSUME NEW t \in Turns PROVE StreamOf(t)'
      BY <1>6, NoStreamKeeps DEF StreamInv
    <2> QED
      BY <2>1, <2>2 DEF StreamInv
  <1>7. CASE (\E s \in Setters : SetCall(s)) \/ (\E t \in Turns : Authorization(t)) \/ Outside
             \/ UNCHANGED vars
    BY <1>6, <1>7 DEF SetCall, Authorization, Outside, vars
  <1> QED
    BY <1>1, <1>2, <1>3, <1>4, <1>5, <1>7, EndsStreams DEF Next

\* CollectStreamText and the readers of the streams: a completion that ends well has
\* the text of its provider, all of it and once, for any text, any room of the
\* channel and however the goroutines alternate.
THEOREM TextArrives == Spec => []TextIsWhole
  <1>1. StreamInv => TextIsWhole
    <2> SUFFICES ASSUME StreamInv, NEW t \in Turns, result[t] = "ok" PROVE text[t] = Text
      BY DEF TextIsWhole
    <2>1. StreamOf(t)
      BY DEF StreamInv
    <2>2. Ending(t) /\ waits[t] = {}
      BY <2>1 DEF StreamOf, NotOpen, Reading, Failing, Ending
    <2>3. events[t] = <<>> /\ Collected(t, TextLen)
      BY <2>2 DEF Ending
    <2>4. PICK m \in 0..TextLen : text[t] = Piece(0, m) /\ Joins(<<>>, m, TextLen)
      BY <2>3 DEF Collected
    <2>5. TextLen \in 0..TextLen /\ 0 \in 0..TextLen /\ 0 <= TextLen
      BY TextIsSeq
    <2>6. m = TextLen
      BY <2>4, <2>5, JoinsFacts
    <2>7. Piece(0, TextLen) = Text
      BY <2>5, PieceFacts
    <2> QED
      BY <2>4, <2>6, <2>7
  <1> QED
    BY StreamStart, StreamKept, <1>1, PTL DEF Spec
=============================================================================
