-------------------------- MODULE DupProcessProofs --------------------------
(***************************************************************************)
(* mod_dup for any directives in any order, any locations, destinations,   *)
(* requests and number of threads. DirectivesInv is what the directives    *)
(* leave behind (FiltersServed); the threads never change it. WorkInv says *)
(* what a thread holds at each step of runOne. On both rest CountInv (the  *)
(* counts and the stat lines), PatternInv (the shared string mMatch),      *)
(* ExactInv (which destinations were tried, and how often each was sent    *)
(* to) and CallInv (what was sent). The last part is about text: what      *)
(* keySubstitute writes, parseArgs reads back.                             *)
(***************************************************************************)
EXTENDS DupProcess, TLAPS, WellFoundedInduction, FiniteSetTheorems, SequenceTheorems

-----------------------------------------------------------------------------
(* The inductive invariant: the type that the next filter will take is not *)
(* above the highest one, and the rules are sequences.                     *)

Types == 0 .. 3

Destinations == Range(DestOrder)
Scopes == Range(stringToEnum)

ConfOK(x) ==
    /\ DOMAIN x = DOMAIN DupConf /\ x.type \in Types /\ x.highest \in Types /\ x.type <= x.highest
    /\ x.currentApplicationScope \in Scopes
    /\ x.currentDupDestination \in Destinations \cup {NoDestination}

IsList(s) == s \in Seq(Range(s))

FilterOK(f, dest, highest) ==
    /\ f.dest = dest /\ f.dupType \in Types /\ f.dupType <= highest
    /\ f.type \in FilterTypes /\ f.scope \in Scopes

\* A filter has a field if and only if it is a key filter.
Sorted(commands) ==
    /\ \A f \in Range(commands.mFilters) : "field" \in DOMAIN f
    /\ \A f \in Range(commands.mRawFilters) : "field" \notin DOMAIN f

\* What a key substitution puts in is a text.
SubsOK(commands) ==
    /\ IsList(commands.mSubstitutions)
    /\ \A sub \in Range(commands.mSubstitutions) : IsList(sub.replacement)

CommandsOK(commands, dest, highest) ==
    /\ DOMAIN commands = DOMAIN NewCommands
    /\ dest \in Destinations /\ commands.mDuplicationPercentage \in Nat /\ SubsOK(commands)
    /\ IsList(commands.mFilters) /\ IsList(commands.mRawFilters) /\ Sorted(commands)
    /\ \A f \in Filters(commands) : FilterOK(f, dest, highest)

\* What is left of the scenario's directives.
TodoInv == scenario \in Scenarios /\ todo \in Seq(Range(scenario.directives))

DirectivesInv ==
    /\ DOMAIN conf = Locations /\ DOMAIN mCommands = Locations
    /\ \A l \in Locations : ConfOK(conf[l])
    /\ \A l \in Locations : \A dest \in DOMAIN mCommands[l] :
        CommandsOK(mCommands[l][dest], dest, conf[l].highest)

-----------------------------------------------------------------------------
(* Lists of rules.                                                         *)

LEMMA AppendRule ==
    ASSUME NEW s, IsList(s), NEW f
    PROVE  IsList(Append(s, f)) /\ Range(Append(s, f)) = Range(s) \cup {f}
<1>1. s \in Seq(Range(s) \cup {f})
  BY DEF IsList
<1>2. /\ Append(s, f) \in Seq(Range(s) \cup {f})
      /\ Len(Append(s, f)) = Len(s) + 1
      /\ \A i \in 1 .. Len(s) : Append(s, f)[i] = s[i]
      /\ Append(s, f)[Len(s) + 1] = f
  BY <1>1
<1>3. DOMAIN Append(s, f) = 1 .. Len(s) + 1 /\ DOMAIN s = 1 .. Len(s) /\ Len(s) \in Nat
  BY <1>1, <1>2
<1>4. Range(Append(s, f)) = Range(s) \cup {f}
  BY <1>2, <1>3 DEF Range
<1> QED BY <1>2, <1>4 DEF IsList

\* mCommands[&conf][destination], found or created, is in order.
LEMMA CommandsOfOK ==
    ASSUME DirectivesInv, d.loc \in Locations, NEW dest \in Destinations
    PROVE  CommandsOK(CommandsOf(dest), dest, c.highest)
<1>1. CASE dest \in DOMAIN mCommands[d.loc]
  BY <1>1 DEF DirectivesInv, CommandsOf, c
<1>2. CASE dest \notin DOMAIN mCommands[d.loc]
  <2>1. CommandsOf(dest) = NewCommands
    BY <1>2 DEF CommandsOf
  <2>2. /\ NewCommands.mFilters = <<>> /\ NewCommands.mRawFilters = <<>>
        /\ NewCommands.mDuplicationPercentage \in Nat /\ NewCommands.mSubstitutions = <<>>
    BY DEF NewCommands
  <2>3. IsList(<<>>) /\ Range(<<>>) = {}
    BY DEF IsList, Range
  <2> QED BY <2>1, <2>2, <2>3 DEF CommandsOK, SubsOK, Filters, Sorted
<1> QED BY <1>1, <1>2

-----------------------------------------------------------------------------
(* The directives.                                                         *)

LEMMA DirectiveTaken ==
    ASSUME TodoInv, todo # <<>>
    PROVE  DirectiveOK(d)
<1>1. d \in Range(scenario.directives)
  BY DEF TodoInv, d
<1> QED BY <1>1, DupProcessAssumption DEF TodoInv

\* What all directives have in common.
LEMMA DirectiveRead ==
    ASSUME ReadDirective
    PROVE  /\ phase = "config" /\ phase' \in {"config", "refused"}
           /\ todo # <<>> /\ todo' = Tail(todo)
           /\ UNCHANGED <<scenario, workVars>>
<1> DEFINE Read == /\ phase = "config" /\ phase' \in {"config", "refused"}
                   /\ todo # <<>> /\ todo' = Tail(todo)
                   /\ UNCHANGED <<scenario, workVars>>
<1>1. ASSUME NEW name, NEW accepted, Directive(name, accepted) PROVE Read
  BY <1>1 DEF Directive
<1>2. ASSUME NEW name, NEW accepted, NEW commands, Rule(name, accepted, commands) PROVE Read
  BY <1>1, <1>2 DEF Rule
<1>3. ASSUME NEW name, NEW accepted, NEW new, SetServer(name, accepted, new) PROVE Read
  BY <1>1, <1>3 DEF SetServer
<1> HIDE DEF Read
<1>4. setActive => Read
  BY <1>1 DEF setActive
<1>5. setSynchronous => Read
  BY <1>1 DEF setSynchronous
<1>6. setDuplicationType => Read
  BY <1>1 DEF setDuplicationType
<1>7. setApplicationScope => Read
  BY <1>1 DEF setApplicationScope
<1>8. setErrorLogBodyMatch => Read
  BY <1>1 DEF setErrorLogBodyMatch
<1>9. setDestination => Read
  BY DEF setDestination, Directive, Read
<1>10. addFilter => Read
  BY <1>2 DEF addFilter
<1>11. addRawFilter => Read
  BY <1>2 DEF addRawFilter
<1>12. addSubstitution => Read
  BY <1>2 DEF addSubstitution
<1>13. addRawSubstitution => Read
  BY <1>2 DEF addRawSubstitution
<1>14. setName => Read
  BY <1>3 DEF setName
<1>15. setUrlCodec => Read
  BY <1>3 DEF setUrlCodec
<1>16. setTimeout => Read
  BY <1>3 DEF setTimeout
<1>17. setThreads => Read
  BY <1>3 DEF setThreads
<1>18. setQueue => Read
  BY <1>3 DEF setQueue
<1> QED
  BY <1>4, <1>5, <1>6, <1>7, <1>8, <1>9, <1>10, <1>11, <1>12, <1>13, <1>14, <1>15, <1>16, <1>17, <1>18 DEF ReadDirective, Read

LEMMA SameConf ==
    ASSUME DirectivesInv, UNCHANGED <<conf, mCommands>>
    PROVE  DirectivesInv'
BY DEF DirectivesInv

\* A directive that sets something of the location, and lowers no type.
LEMMA ConfStep ==
    ASSUME DirectivesInv, NEW accepted \in BOOLEAN, NEW x, SetConf(accepted, x), UNCHANGED mCommands,
           accepted /\ d.loc \in Locations => ConfOK(x) /\ c.highest <= x.highest
    PROVE  DirectivesInv'
<1>1. CASE ~accepted \/ d.loc \notin Locations
  <2>1. DOMAIN conf' = Locations /\ \A l \in Locations : conf'[l] = conf[l]
    BY <1>1 DEF SetConf, DirectivesInv
  <2> QED BY <2>1 DEF DirectivesInv
<1>2. CASE accepted /\ d.loc \in Locations
  <2>1. /\ DOMAIN conf' = Locations /\ conf'[d.loc] = x
        /\ \A l \in Locations : l # d.loc => conf'[l] = conf[l]
    BY <1>2 DEF SetConf, DirectivesInv
  <2>2. \A l \in Locations : ConfOK(conf'[l]) /\ conf[l].highest \in Types
                             /\ conf'[l].highest \in Types /\ conf[l].highest <= conf'[l].highest
    BY <1>2, <2>1 DEF DirectivesInv, ConfOK, Types, c
  <2>3. ASSUME NEW l \in Locations, NEW dest \in DOMAIN mCommands[l]
        PROVE  CommandsOK(mCommands[l][dest], dest, conf'[l].highest)
    <3>1. CommandsOK(mCommands[l][dest], dest, conf[l].highest)
      BY <2>3 DEF DirectivesInv
    <3>2. ASSUME NEW f \in Filters(mCommands[l][dest]) PROVE FilterOK(f, dest, conf'[l].highest)
      <4>1. f.dest = dest /\ f.dupType \in Types /\ f.dupType <= conf[l].highest
            /\ f.type \in FilterTypes /\ f.scope \in Scopes
        BY <3>1, <3>2 DEF CommandsOK, FilterOK
      <4> QED BY <2>2, <2>3, <4>1 DEF FilterOK, Types
    <3> QED BY <3>1, <3>2 DEF CommandsOK
  <2> QED BY <2>1, <2>2, <2>3 DEF DirectivesInv
<1> QED BY <1>1, <1>2

\* A directive that sets the rules of a destination, and no type.
LEMMA CommandsStep ==
    ASSUME DirectivesInv, NEW accepted \in BOOLEAN, NEW x, SetConf(accepted, x),
           NEW dest, NEW commands, SetCommands(accepted, dest, commands),
           accepted /\ d.loc \in Locations =>
                ConfOK(x) /\ x.highest = c.highest /\ CommandsOK(commands, dest, c.highest)
    PROVE  DirectivesInv'
<1>1. CASE ~accepted \/ d.loc \notin Locations
  <2>1. /\ DOMAIN conf' = Locations /\ \A l \in Locations : conf'[l] = conf[l]
        /\ DOMAIN mCommands' = Locations /\ \A l \in Locations : mCommands'[l] = mCommands[l]
    BY <1>1 DEF SetConf, SetCommands, DirectivesInv
  <2> QED BY <2>1 DEF DirectivesInv
<1>2. CASE accepted /\ d.loc \in Locations
  <2>1. /\ DOMAIN conf' = Locations /\ conf'[d.loc] = x
        /\ \A l \in Locations : l # d.loc => conf'[l] = conf[l]
    BY <1>2 DEF SetConf, DirectivesInv
  <2>2. /\ DOMAIN mCommands' = Locations /\ mCommands'[d.loc] = Assigned(mCommands[d.loc], dest, commands)
        /\ \A l \in Locations : l # d.loc => mCommands'[l] = mCommands[l]
    BY <1>2 DEF SetCommands, DirectivesInv
  <2>3. \A l \in Locations : ConfOK(conf'[l]) /\ conf'[l].highest = conf[l].highest
    BY <1>2, <2>1 DEF DirectivesInv, c
  <2>4. /\ DOMAIN mCommands'[d.loc] = DOMAIN mCommands[d.loc] \cup {dest}
        /\ mCommands'[d.loc][dest] = commands
        /\ \A other \in DOMAIN mCommands[d.loc] :
            other # dest => mCommands'[d.loc][other] = mCommands[d.loc][other]
    BY <2>2 DEF Assigned
  <2>5. \A other \in DOMAIN mCommands'[d.loc] :
            CommandsOK(mCommands'[d.loc][other], other, conf'[d.loc].highest)
    BY <1>2, <2>3, <2>4 DEF DirectivesInv, c
  <2>6. \A l \in Locations : \A other \in DOMAIN mCommands'[l] :
            CommandsOK(mCommands'[l][other], other, conf'[l].highest)
    BY <2>2, <2>3, <2>5 DEF DirectivesInv
  <2> QED BY <2>1, <2>2, <2>3, <2>6 DEF DirectivesInv
<1> QED BY <1>1, <1>2

LEMMA ActivatedOK ==
    ASSUME DirectivesInv, d.loc \in Locations
    PROVE  /\ ConfOK(c) /\ ConfOK(Activated)
           /\ Activated.type = c.type /\ Activated.highest = c.highest
BY DEF DirectivesInv, ConfOK, Activated, c, DupConf

LEMMA setDuplicationTypeStep ==
    ASSUME DirectivesInv, setDuplicationType
    PROVE  DirectivesInv'
<1> DEFINE accepted == scenario.rewrite /\ d.type \in DOMAIN DuplicationType
           dt == DuplicationType[d.type]
           x == [Activated EXCEPT !.type = dt, !.highest = IF dt > @ THEN dt ELSE @]
<1>1. SetConf(accepted, x) /\ UNCHANGED mCommands /\ accepted \in BOOLEAN
  BY DEF setDuplicationType
<1>2. ASSUME accepted, d.loc \in Locations PROVE ConfOK(x) /\ c.highest <= x.highest
  <2>1. dt \in Types
    BY <1>2 DEF DuplicationType, Types
  <2>2. ConfOK(Activated) /\ Activated.highest = c.highest
    BY <1>2, ActivatedOK
  <2> HIDE DEF dt
  <2>3. x.type = dt /\ x.highest = (IF dt > Activated.highest THEN dt ELSE Activated.highest)
        /\ DOMAIN x = DOMAIN Activated
    BY <2>2 DEF ConfOK, DupConf
  <2> QED BY <2>1, <2>2, <2>3 DEF ConfOK, Types
<1> HIDE DEF accepted, x
<1> QED BY <1>1, <1>2, ConfStep

\* The other directives of a location that set no rules.
LEMMA LocationStep ==
    ASSUME DirectivesInv, setActive \/ setSynchronous \/ setApplicationScope
    PROVE  DirectivesInv'
<1>1. CASE setActive
  <2>1. SetConf(scenario.rewrite = TRUE, Activated) /\ UNCHANGED mCommands
    BY <1>1 DEF setActive, SetConf
  <2>2. d.loc \in Locations => ConfOK(Activated) /\ c.highest <= Activated.highest
    BY ActivatedOK DEF ConfOK, Types
  <2> QED BY <2>1, <2>2, ConfStep
<1>2. CASE setSynchronous
  <2> DEFINE x == [c EXCEPT !.synchronous = TRUE]
  <2>1. SetConf(TRUE, x) /\ UNCHANGED mCommands
    BY <1>2 DEF setSynchronous
  <2>2. d.loc \in Locations => ConfOK(x) /\ c.highest <= x.highest
    BY ActivatedOK DEF ConfOK, Types, DupConf
  <2> HIDE DEF x
  <2> QED BY <2>1, <2>2, ConfStep
<1>3. CASE setApplicationScope
  <2> DEFINE accepted == scenario.rewrite /\ d.scope \in DOMAIN stringToEnum
             x == [Activated EXCEPT !.currentApplicationScope = stringToEnum[d.scope]]
  <2>1. SetConf(accepted, x) /\ UNCHANGED mCommands /\ accepted \in BOOLEAN
    BY <1>3 DEF setApplicationScope
  <2>2. ASSUME accepted, d.loc \in Locations PROVE ConfOK(x) /\ c.highest <= x.highest
    <3>1. stringToEnum[d.scope] \in Scopes
      BY <2>2 DEF Scopes, Range
    <3> QED BY <2>2, <3>1, ActivatedOK DEF ConfOK, Types, DupConf
  <2> HIDE DEF x, accepted
  <2> QED BY <2>1, <2>2, ConfStep
<1> QED BY <1>1, <1>2, <1>3

LEMMA setDestinationStep ==
    ASSUME DirectivesInv, TodoInv, setDestination
    PROVE  DirectivesInv'
<1> DEFINE accepted == /\ scenario.rewrite /\ d.dest # NoDestination
                       /\ d.percentage # BadNumber /\ lexical_cast(d.percentage) <= 10000
           x == [Activated EXCEPT !.currentDupDestination = d.dest]
           commands == [CommandsOf(d.dest) EXCEPT
                            !.mDuplicationPercentage = lexical_cast(d.percentage)]
<1>1. /\ conf' = IF accepted THEN [conf EXCEPT ![d.loc] = x] ELSE conf
      /\ mCommands' = IF accepted THEN [mCommands EXCEPT ![d.loc] = Assigned(@, d.dest, commands)]
                      ELSE mCommands
  BY DEF setDestination, SetConf, SetCommands
<1>6. DirectiveOK(d) /\ d.name = "DupDestination"
  BY DirectiveTaken DEF setDestination, Directive
<1>7. ASSUME accepted PROVE d.dest \in Destinations /\ lexical_cast(d.percentage) \in Nat
  <2>1. d.dest \in Destinations
    BY <1>6, <1>7 DEF DirectiveOK, Destinations
  <2>2. d.percentage \in -UnsignedRange .. UnsignedRange
    BY <1>6 DEF DirectiveOK
  <2>3. lexical_cast(d.percentage) \in Nat
    BY <2>2, DupProcessAssumption DEF lexical_cast
  <2> QED BY <2>1, <2>3
<1>2. ASSUME accepted, d.loc \in Locations PROVE ConfOK(x) /\ x.highest = c.highest
  BY <1>2, <1>7, ActivatedOK DEF ConfOK, DupConf
<1>3. ASSUME accepted, d.loc \in Locations PROVE CommandsOK(commands, d.dest, c.highest)
  <2>1. CommandsOK(CommandsOf(d.dest), d.dest, c.highest)
    BY <1>3, <1>7, CommandsOfOK
  <2> DEFINE percentage == lexical_cast(d.percentage)
             old == CommandsOf(d.dest)
  <2>4. percentage \in Nat
    BY <1>3, <1>7
  <2> HIDE DEF percentage, old
  <2>2. commands.mFilters = old.mFilters /\ commands.mRawFilters = old.mRawFilters
        /\ commands.mDuplicationPercentage = percentage
        /\ commands.mSubstitutions = old.mSubstitutions
        /\ DOMAIN commands = DOMAIN old
    BY <2>1 DEF CommandsOK, NewCommands, old, percentage
  <2> QED BY <2>1, <2>2, <2>4 DEF CommandsOK, SubsOK, Filters, Sorted, old
<1>4. accepted \in BOOLEAN
  OBVIOUS
<1> HIDE DEF accepted, x, commands
<1>5. SetConf(accepted, x) /\ SetCommands(accepted, d.dest, commands)
  BY <1>1 DEF SetConf, SetCommands
<1> QED BY <1>2, <1>3, <1>4, <1>5, CommandsStep

-----------------------------------------------------------------------------
(* The rules, which go to the destination named last.                      *)

LEMMA RuleStep ==
    ASSUME DirectivesInv, NEW name, NEW accepted, NEW commands, Rule(name, accepted, commands),
           d.loc \in Locations /\ c.currentDupDestination \in Destinations =>
                CommandsOK(commands, c.currentDupDestination, c.highest)
    PROVE  DirectivesInv'
<1> DEFINE dest == c.currentDupDestination
           ok == scenario.rewrite /\ dest # NoDestination /\ d.re # BadRegex /\ accepted
<1>1. SetConf(ok, Activated) /\ SetCommands(ok, dest, commands) /\ ok \in BOOLEAN
  BY DEF Rule
<1> HIDE DEF ok, dest
<1>2. d.loc \in Locations => ConfOK(Activated) /\ Activated.highest = c.highest
  BY ActivatedOK
<1>3. ok /\ d.loc \in Locations => dest \in Destinations
  BY ActivatedOK DEF ok, dest, ConfOK
<1> QED BY <1>1, <1>2, <1>3, CommandsStep DEF dest

\* The filter that a directive describes takes the type and the destination.
LEMMA FilterTaken ==
    ASSUME DirectivesInv, d.loc \in Locations, d.type \in FilterTypes, NEW f, f \in {tFilter, Assigned(tFilter, "field", to_upper(d.field))}
    PROVE  FilterOK(f, c.currentDupDestination, c.highest)
<1>1. ConfOK(c)
  BY ActivatedOK
<1>2. /\ tFilter.dest = c.currentDupDestination /\ tFilter.dupType = c.type
      /\ tFilter.type = d.type /\ tFilter.scope = c.currentApplicationScope
  BY DEF tFilter
<1>3. f.dest = tFilter.dest /\ f.dupType = tFilter.dupType /\ f.type = tFilter.type /\ f.scope = tFilter.scope
  <2>1. {"dest", "dupType", "type", "scope"} \subseteq DOMAIN tFilter
    BY DEF tFilter
  <2> DEFINE field == to_upper(d.field)
  <2> HIDE DEF field
  <2>2. CASE f = Assigned(tFilter, "field", field)
    BY <2>1, <2>2 DEF Assigned
  <2> QED BY <2>2 DEF field
<1> QED BY <1>1, <1>2, <1>3 DEF FilterOK, ConfOK

LEMMA FilterStep ==
    ASSUME DirectivesInv, TodoInv, addFilter \/ addRawFilter
    PROVE  DirectivesInv'
<1>3. d.type \in FilterTypes
  <2>1. todo # <<>> /\ d.name \in {"DupFilter", "DupRawFilter"}
    BY DEF addFilter, addRawFilter, Rule, Directive
  <2> QED BY <2>1, DirectiveTaken DEF DirectiveOK
<1> DEFINE old == CommandsOf(c.currentDupDestination)
<1>1. CASE addFilter
  <2> DEFINE f == Assigned(tFilter, "field", to_upper(d.field))
             new == [old EXCEPT !.mFilters = Append(@, f)]
  <2>1. Rule("DupFilter", c.currentApplicationScope \cap Range(KeyParts) # {}, new)
    BY <1>1 DEF addFilter
  <2>2. ASSUME d.loc \in Locations, c.currentDupDestination \in Destinations
        PROVE  CommandsOK(new, c.currentDupDestination, c.highest)
    <3>1. CommandsOK(old, c.currentDupDestination, c.highest)
      BY <2>2, CommandsOfOK
    <3>2. FilterOK(f, c.currentDupDestination, c.highest)
      BY <1>3, <2>2, FilterTaken
    <3>5. "field" \in DOMAIN f
      BY DEF Assigned
    <3> HIDE DEF old, f
    <3>3. /\ new.mFilters = Append(old.mFilters, f) /\ new.mRawFilters = old.mRawFilters
          /\ new.mDuplicationPercentage = old.mDuplicationPercentage
          /\ new.mSubstitutions = old.mSubstitutions
          /\ DOMAIN new = DOMAIN old
      BY <3>1 DEF CommandsOK, NewCommands
    <3>4. IsList(new.mFilters) /\ Range(new.mFilters) = Range(old.mFilters) \cup {f}
      BY <3>1, <3>3, AppendRule DEF CommandsOK
    <3> QED BY <3>1, <3>2, <3>3, <3>4, <3>5 DEF CommandsOK, SubsOK, Filters, Sorted
  <2> HIDE DEF new
  <2> QED BY <2>1, <2>2, RuleStep
<1>2. CASE addRawFilter
  <2> DEFINE f == tFilter
             new == [old EXCEPT !.mRawFilters = Append(@, f)]
  <2>1. Rule("DupRawFilter", TRUE, new)
    BY <1>2 DEF addRawFilter
  <2>2. ASSUME d.loc \in Locations, c.currentDupDestination \in Destinations
        PROVE  CommandsOK(new, c.currentDupDestination, c.highest)
    <3>1. CommandsOK(old, c.currentDupDestination, c.highest)
      BY <2>2, CommandsOfOK
    <3>2. FilterOK(f, c.currentDupDestination, c.highest)
      BY <1>3, <2>2, FilterTaken
    <3>5. "field" \notin DOMAIN f
      BY DEF tFilter
    <3> HIDE DEF old, f
    <3>3. /\ new.mRawFilters = Append(old.mRawFilters, f) /\ new.mFilters = old.mFilters
          /\ new.mDuplicationPercentage = old.mDuplicationPercentage
          /\ new.mSubstitutions = old.mSubstitutions
          /\ DOMAIN new = DOMAIN old
      BY <3>1 DEF CommandsOK, NewCommands
    <3>4. IsList(new.mRawFilters) /\ Range(new.mRawFilters) = Range(old.mRawFilters) \cup {f}
      BY <3>1, <3>3, AppendRule DEF CommandsOK
    <3> QED BY <3>1, <3>2, <3>3, <3>4, <3>5 DEF CommandsOK, SubsOK, Filters, Sorted
  <2> HIDE DEF new
  <2> QED BY <2>1, <2>2, RuleStep
<1> QED BY <1>1, <1>2

LEMMA SubstitutionStep ==
    ASSUME DirectivesInv, TodoInv, addSubstitution \/ addRawSubstitution
    PROVE  DirectivesInv'
<1> DEFINE old == CommandsOf(c.currentDupDestination)
           sub == Assigned(tSubstitute, "field", to_upper(d.field))
           keyed == [old EXCEPT !.mSubstitutions = Append(@, sub)]
           raw == [old EXCEPT !.mRawSubstitutions = Append(@, tSubstitute)]
<1>1. \/ Rule("DupSubstitute", TRUE, keyed)
      \/ Rule("DupRawSubstitute", TRUE, raw)
  BY DEF addSubstitution, addRawSubstitution
<1>3. IsList(sub.replacement)
  <2>1. todo # <<>> /\ d.name \in {"DupSubstitute", "DupRawSubstitute"}
    BY DEF addSubstitution, addRawSubstitution, Rule, Directive
  <2>2. IsList(d.replacement)
    BY <2>1, DirectiveTaken DEF DirectiveOK, IsList
  <2>3. "replacement" \in DOMAIN tSubstitute /\ tSubstitute.replacement = d.replacement
    BY DEF tSubstitute
  <2> DEFINE field == to_upper(d.field)
  <2> HIDE DEF field
  <2>4. sub = Assigned(tSubstitute, "field", field)
    BY DEF field
  <2>5. sub.replacement = tSubstitute.replacement
    BY <2>3, <2>4 DEF Assigned
  <2> QED BY <2>2, <2>3, <2>5
<1> HIDE DEF sub
<1>2. ASSUME d.loc \in Locations, c.currentDupDestination \in Destinations
      PROVE  CommandsOK(keyed, c.currentDupDestination, c.highest)
             /\ CommandsOK(raw, c.currentDupDestination, c.highest)
  <2>1. CommandsOK(old, c.currentDupDestination, c.highest)
    BY <1>2, CommandsOfOK
  <2> HIDE DEF old
  <2>2. /\ keyed.mFilters = old.mFilters /\ keyed.mRawFilters = old.mRawFilters
        /\ DOMAIN keyed = DOMAIN old
        /\ raw.mFilters = old.mFilters /\ raw.mRawFilters = old.mRawFilters
        /\ DOMAIN raw = DOMAIN old
        /\ keyed.mDuplicationPercentage = old.mDuplicationPercentage
        /\ raw.mDuplicationPercentage = old.mDuplicationPercentage
        /\ keyed.mSubstitutions = Append(old.mSubstitutions, sub)
        /\ raw.mSubstitutions = old.mSubstitutions
    BY <2>1 DEF CommandsOK, NewCommands
  <2>3. SubsOK(keyed)
    <3>1. IsList(keyed.mSubstitutions) /\ Range(keyed.mSubstitutions) = Range(old.mSubstitutions) \cup {sub}
      BY <2>1, <2>2, AppendRule DEF CommandsOK, SubsOK
    <3> QED BY <1>3, <2>1, <3>1 DEF CommandsOK, SubsOK
  <2>4. SubsOK(raw)
    BY <2>1, <2>2 DEF CommandsOK, SubsOK
  <2> QED BY <2>1, <2>2, <2>3, <2>4 DEF CommandsOK, Filters, Sorted
<1> HIDE DEF keyed, raw
<1> QED BY <1>1, <1>2, RuleStep

-----------------------------------------------------------------------------
LEMMA TodoInvariant == Spec => []TodoInv
<1>1. Init => TodoInv
  BY DupProcessAssumption DEF Init, TodoInv
<1>2. TodoInv /\ [Next]_vars => TodoInv'
  <2> SUFFICES ASSUME TodoInv, [Next]_vars PROVE TodoInv'
    OBVIOUS
  <2>1. ASSUME todo # <<>>, todo' = Tail(todo), scenario' = scenario PROVE TodoInv'
    BY <2>1 DEF TodoInv
  <2>2. CASE Start \/ stop \/ UNCHANGED vars
    BY <2>2 DEF Start, stop, vars, configVars, TodoInv
  <2>3. CASE \E t \in Workers : RunOne(t)
    BY <2>3 DEF RunOne, initiateDuplication, matchDestination, storeMatch, addValidationHeadersDup,
       nextFilter, duplicate, countDuplicate, configVars, TodoInv
  <2>4. CASE \E stat \in DOMAIN counts : getCount(stat)
    BY <2>4 DEF getCount, configVars, TodoInv
  <2>5. CASE ReadDirective
    BY <2>1, <2>5, DirectiveRead
  <2> QED BY <2>2, <2>3, <2>4, <2>5 DEF Next
<1> QED BY <1>1, <1>2, PTL DEF Spec

\* The invariant of the configuration, which the threads do not change.
THEOREM DirectivesInvariant == Spec => []DirectivesInv
<1>1. Init => DirectivesInv
  <2> SUFFICES ASSUME Init PROVE DirectivesInv
    OBVIOUS
  <2>1. conf = [l \in Locations |-> DupConf] /\ mCommands = [l \in Locations |-> <<>>]
    BY DEF Init
  <2>3. {"QUERY_STRING"} \in Scopes
    BY DEF Scopes, Range, stringToEnum
  <2>2. ConfOK(DupConf)
    BY <2>3 DEF ConfOK, DupConf, Types
  <2> QED BY <2>1, <2>2 DEF DirectivesInv
<1>2. DirectivesInv /\ TodoInv /\ [Next]_vars => DirectivesInv'
  <2> SUFFICES ASSUME DirectivesInv, TodoInv, [Next]_vars PROVE DirectivesInv'
    OBVIOUS
  <2>1. CASE setErrorLogBodyMatch \/ setName \/ setUrlCodec \/ setTimeout \/ setThreads \/ setQueue
    BY <2>1, SameConf DEF setErrorLogBodyMatch, setName, setUrlCodec, setTimeout, setThreads,
       setQueue, SetServer
  <2>2. CASE Start \/ stop \/ UNCHANGED vars
    BY <2>2, SameConf DEF Start, stop, vars, configVars
  <2>3. CASE \E t \in Workers : RunOne(t)
    BY <2>3, SameConf DEF RunOne, initiateDuplication, matchDestination, storeMatch,
       addValidationHeadersDup, nextFilter, duplicate, countDuplicate, configVars
  <2>4. CASE \E stat \in DOMAIN counts : getCount(stat)
    BY <2>4, SameConf DEF getCount, configVars
  <2> QED
    BY <2>1, <2>2, <2>3, <2>4, LocationStep, setDuplicationTypeStep, setDestinationStep,
       FilterStep, SubstitutionStep
    DEF Next, ReadDirective
<1> QED BY <1>1, <1>2, TodoInvariant, PTL DEF Spec

\* Whatever the order of the directives, a filter is stored under its own
\* destination, so that the lookup cbd.at in runOne does not throw, and the type
\* of duplication it was given is not above the highest of its location, by
\* which the output filters decide what to collect (FiltersServed).
THEOREM FiltersAreServed == Spec => []FiltersServed
<1>1. DirectivesInv => FiltersServed
  BY DEF DirectivesInv, CommandsOK, FilterOK, FiltersServed
<1> QED BY <1>1, DirectivesInvariant, PTL

-----------------------------------------------------------------------------
(* Sequences and the first index at which something holds.                 *)

\* What matchesFilter, FirstMatch and NextOf take as the first one is one.
LEMMA MinIn ==
    ASSUME NEW S \in SUBSET Nat, S # {}
    PROVE  Min(S) \in S /\ \A x \in S : Min(S) <= x
<1>1. PICK x \in S : \A y \in S : ~ (<<y, x>> \in OpToRel(<, Nat))
  BY WFMin, NatLessThanWellFounded
<1>2. \A y \in S : x <= y
  <2>1. \A a, b \in Nat : a < b => <<a, b>> \in OpToRel(<, Nat)
    BY DEF OpToRel
  <2>2. \A y \in S : y \in Nat /\ x \in Nat /\ ~(y < x)
    BY <1>1, <2>1, Zenon
  <2> QED BY <2>2
<1> QED BY <1>2 DEF Min

LEMMA FirstIn ==
    ASSUME NEW n \in Nat, NEW S \in SUBSET (1 .. n), NEW m, m = IF S # {} THEN Min(S) ELSE 0
    PROVE  (m = 0 <=> S = {}) /\ (m # 0 => m \in S /\ \A x \in S : m <= x)
<1>1. CASE S = {}
  BY <1>1
<1>2. CASE S # {}
  <2>1. m \in S /\ \A x \in S : m <= x
    BY <1>2, MinIn
  <2>2. m # 0
    BY <2>1
  <2> QED BY <1>2, <2>1, <2>2
<1> QED BY <1>1, <1>2

LEMMA ListOf ==
    ASSUME NEW n \in Nat, NEW f, f = [i \in 1 .. n |-> f[i]]
    PROVE  IsList(f) /\ Len(f) = n /\ DOMAIN f = 1 .. n
<1>1. DOMAIN f = 1 .. n
  OBVIOUS
<1>2. f \in [1 .. n -> Range(f)]
  BY <1>1 DEF Range
<1>3. f \in Seq(Range(f))
  BY <1>2, SeqDef
<1> QED BY <1>1, <1>3 DEF IsList

LEMMA ListDomain ==
    ASSUME NEW s, IsList(s)
    PROVE  Len(s) \in Nat /\ DOMAIN s = 1 .. Len(s) /\ s = [i \in 1 .. Len(s) |-> s[i]]
BY DEF IsList

-----------------------------------------------------------------------------
(* What a filter that matches has found.                                   *)

LEMMA FirstHitFound ==
    ASSUME NEW filters, IsList(filters), NEW kv, NEW part, NEW type,
           NEW m, m = FirstHit(filters, kv, part, type)
    PROVE  /\ m # 0 => m \in DOMAIN filters /\ KeyHit(filters[m], kv, part, type)
           /\ m = 0 => \A j \in DOMAIN filters : ~KeyHit(filters[j], kv, part, type)
<1> DEFINE S == {j \in 1 .. Len(filters) : KeyHit(filters[j], kv, part, type)}
<1>1. m = IF S # {} THEN Min(S) ELSE 0
  BY DEF FirstHit, SelectInSeq
<1>2. Len(filters) \in Nat /\ DOMAIN filters = 1 .. Len(filters)
  BY ListDomain
<1>3. (m = 0 <=> S = {}) /\ (m # 0 => m \in S)
  <2>1. S \in SUBSET (1 .. Len(filters))
    OBVIOUS
  <2> HIDE DEF S
  <2> QED BY <1>1, <1>2, <2>1, FirstIn
<1> QED BY <1>2, <1>3

LEMMA KeyMatch ==
    ASSUME NEW filters, IsList(filters), NEW keyVals, IsList(keyVals), NEW part, NEW type,
           NEW m, m = keyFilterMatch(filters, keyVals, part, type)
    PROVE  /\ m # 0 => /\ m \in DOMAIN filters
                       /\ \E i \in DOMAIN keyVals : KeyHit(filters[m], keyVals[i], part, type)
           /\ m = 0 => \A j \in DOMAIN filters : \A i \in DOMAIN keyVals :
                            ~KeyHit(filters[j], keyVals[i], part, type)
<1> DEFINE K == {i \in 1 .. Len(keyVals) : FirstHit(filters, keyVals[i], part, type) # 0}
           key == IF K # {} THEN Min(K) ELSE 0
<1>1. m = IF key = 0 THEN 0 ELSE FirstHit(filters, keyVals[key], part, type)
  BY DEF keyFilterMatch, SelectInSeq
<1>2. Len(keyVals) \in Nat /\ DOMAIN keyVals = 1 .. Len(keyVals)
  BY ListDomain
<1>3. (key = 0 <=> K = {}) /\ (key # 0 => key \in K)
  <2>1. K \in SUBSET (1 .. Len(keyVals)) /\ key = IF K # {} THEN Min(K) ELSE 0
    OBVIOUS
  <2> HIDE DEF key, K
  <2> QED BY <1>2, <2>1, FirstIn
<1> HIDE DEF key
<1>4. CASE key = 0
  BY <1>1, <1>2, <1>3, <1>4, FirstHitFound
<1>5. CASE key # 0
  <2>1. key \in DOMAIN keyVals /\ m = FirstHit(filters, keyVals[key], part, type) /\ m # 0
    BY <1>1, <1>2, <1>3, <1>5
  <2>2. m \in DOMAIN filters /\ KeyHit(filters[m], keyVals[key], part, type)
    BY <2>1, FirstHitFound
  <2> QED BY <2>1, <2>2
<1> QED BY <1>4, <1>5

RawHit(f, r, part) == part \in f.scope /\ regex_search(PartText(r, part), f.re)

LEMMA RawPart ==
    ASSUME NEW f, NEW r, NEW m, m = rawFilterPart(f, r)
    PROVE  /\ m # 0 => m \in DOMAIN RawParts /\ RawHit(f, r, RawParts[m])
           /\ m = 0 => \A part \in Range(RawParts) : ~RawHit(f, r, part)
<1> DEFINE S == {j \in 1 .. Len(RawParts) : RawHit(f, r, RawParts[j])}
<1>1. m = IF S # {} THEN Min(S) ELSE 0
  BY DEF rawFilterPart, SelectInSeq, RawHit
<1>2. Len(RawParts) \in Nat /\ DOMAIN RawParts = 1 .. Len(RawParts)
  BY DEF RawParts
<1>3. (m = 0 <=> S = {}) /\ (m # 0 => m \in S)
  <2>1. S \in SUBSET (1 .. Len(RawParts))
    OBVIOUS
  <2> HIDE DEF S
  <2> QED BY <1>1, <1>2, <2>1, FirstIn
<1> QED BY <1>2, <1>3 DEF Range

\* A key filter, or a raw filter, of the type finds something.
KeyFound(codec, commands, r, type) ==
    \E part \in Range(KeyParts) : \E j \in DOMAIN commands.mFilters :
        \E i \in DOMAIN KeyVals(codec, r, part) :
            KeyHit(commands.mFilters[j], KeyVals(codec, r, part)[i], part, type)
RawFound(commands, r, type) ==
    \E j \in DOMAIN commands.mRawFilters : \E part \in Range(RawParts) :
        commands.mRawFilters[j].type = type /\ RawHit(commands.mRawFilters[j], r, part)

Parsed(codec, r) == \A part \in Range(KeyParts) : IsList(KeyVals(codec, r, part))

LEMMA PreventedFound ==
    ASSUME NEW codec, NEW commands, NEW r, IsList(commands.mFilters), Parsed(codec, r)
    PROVE  Prevented(codec, commands, r) <=>
                KeyFound(codec, commands, r, "PREVENT_DUPLICATION")
                \/ RawFound(commands, r, "PREVENT_DUPLICATION")
<1> DEFINE type == "PREVENT_DUPLICATION"
           M(part) == keyFilterMatch(commands.mFilters, KeyVals(codec, r, part), part, type)
<1>1. ASSUME NEW part \in Range(KeyParts)
      PROVE  M(part) # 0 <=>
                \E j \in DOMAIN commands.mFilters : \E i \in DOMAIN KeyVals(codec, r, part) :
                    KeyHit(commands.mFilters[j], KeyVals(codec, r, part)[i], part, type)
  BY <1>1, KeyMatch DEF Parsed
<1>2. (\E i \in DOMAIN KeyParts : M(KeyParts[i]) # 0) <=> KeyFound(codec, commands, r, type)
  <2>1. (\E i \in DOMAIN KeyParts : M(KeyParts[i]) # 0) <=> (\E part \in Range(KeyParts) : M(part) # 0)
    BY DEF Range
  <2> HIDE DEF M
  <2> QED BY <1>1, <2>1 DEF KeyFound
<1>3. ASSUME NEW f PROVE rawFilterPart(f, r) # 0 <=> \E part \in Range(RawParts) : RawHit(f, r, part)
  BY RawPart DEF Range
<1>4. (\E i \in DOMAIN commands.mRawFilters : commands.mRawFilters[i].type = type
                                              /\ rawFilterPart(commands.mRawFilters[i], r) # 0)
      <=> RawFound(commands, r, type)
  BY <1>3 DEF RawFound
<1> QED BY <1>2, <1>4 DEF Prevented

\* The reference that matchesFilter returns names a filter of these Commands.
FilterRef(commands, ref) ==
    \/ \E i \in DOMAIN commands.mFilters : ref = <<"key", i>>
    \/ \E i \in DOMAIN commands.mRawFilters : ref = <<"raw", i>>

\* What is stored in mMatch was found in the request.
MatchIn(r, match) ==
    \/ match = <<"regex">>
    \/ \E part \in Range(RawParts) : \E re : /\ match = FirstMatch(PartText(r, part), re)
                                            /\ regex_search(PartText(r, part), re)

LEMMA MatchFound ==
    ASSUME NEW codec, NEW commands, NEW r, Parsed(codec, r),
           IsList(commands.mFilters), IsList(commands.mRawFilters),
           NEW m, m = matchesFilter(codec, commands, r)
    PROVE  /\ m # NoMatch => FilterRef(commands, m.ref) /\ MatchIn(r, m.match)
           /\ m # NoMatch <=> /\ KeyFound(codec, commands, r, "REGULAR") \/ RawFound(commands, r, "REGULAR")
                              /\ ~KeyFound(codec, commands, r, "PREVENT_DUPLICATION")
                              /\ ~RawFound(commands, r, "PREVENT_DUPLICATION")
<1> DEFINE Keyed(part) == keyFilterMatch(commands.mFilters, KeyVals(codec, r, part), part, "REGULAR")
           K == {i \in 1 .. Len(KeyParts) : Keyed(KeyParts[i]) # 0}
           keyPart == IF K # {} THEN Min(K) ELSE 0
           Raw(f) == /\ f.type = "REGULAR"
                     /\ rawFilterPart(f, r) # 0
           R == {i \in 1 .. Len(commands.mRawFilters) : Raw(commands.mRawFilters[i])}
           raw == IF R # {} THEN Min(R) ELSE 0
           f == commands.mRawFilters[raw]
           part == RawParts[rawFilterPart(f, r)]
<1>1. m = IF Prevented(codec, commands, r) THEN NoMatch
          ELSE IF keyPart # 0 THEN [ref |-> <<"key", Keyed(KeyParts[keyPart])>>, match |-> <<"regex">>]
          ELSE IF raw = 0 THEN NoMatch
          ELSE [ref |-> <<"raw", raw>>, match |-> FirstMatch(PartText(r, part), f.re)]
  BY DEF matchesFilter, SelectInSeq
<1>2. Len(KeyParts) \in Nat /\ DOMAIN KeyParts = 1 .. Len(KeyParts)
  BY DEF KeyParts
<1>3. Len(commands.mRawFilters) \in Nat /\ DOMAIN commands.mRawFilters = 1 .. Len(commands.mRawFilters)
  BY ListDomain
<1>4. (keyPart = 0 <=> K = {}) /\ (keyPart # 0 => keyPart \in K)
  <2>1. K \in SUBSET (1 .. Len(KeyParts)) /\ keyPart = IF K # {} THEN Min(K) ELSE 0
    OBVIOUS
  <2> HIDE DEF keyPart, K
  <2> QED BY <1>2, <2>1, FirstIn
<1>5. (raw = 0 <=> R = {}) /\ (raw # 0 => raw \in R)
  <2>1. R \in SUBSET (1 .. Len(commands.mRawFilters)) /\ raw = IF R # {} THEN Min(R) ELSE 0
    OBVIOUS
  <2> HIDE DEF raw, R
  <2> QED BY <1>3, <2>1, FirstIn
<1> HIDE DEF keyPart, raw
<1>6. ASSUME NEW p \in Range(KeyParts)
      PROVE  /\ Keyed(p) # 0 => Keyed(p) \in DOMAIN commands.mFilters
             /\ Keyed(p) # 0 <=>
                \E j \in DOMAIN commands.mFilters : \E i \in DOMAIN KeyVals(codec, r, p) :
                    KeyHit(commands.mFilters[j], KeyVals(codec, r, p)[i], p, "REGULAR")
  BY <1>6, KeyMatch DEF Parsed
<1>7. keyPart # 0 <=> KeyFound(codec, commands, r, "REGULAR")
  <2>1. keyPart # 0 <=> \E p \in Range(KeyParts) : Keyed(p) # 0
    BY <1>2, <1>4 DEF Range
  <2> HIDE DEF Keyed
  <2> QED BY <1>6, <2>1 DEF KeyFound
<1>8. raw # 0 <=> RawFound(commands, r, "REGULAR")
  <2>1. ASSUME NEW g PROVE rawFilterPart(g, r) # 0 <=> \E p \in Range(RawParts) : RawHit(g, r, p)
    BY RawPart DEF Range
  <2>2. raw # 0 <=> \E i \in DOMAIN commands.mRawFilters : Raw(commands.mRawFilters[i])
    BY <1>3, <1>5
  <2> QED BY <2>1, <2>2 DEF RawFound
<1>9. keyPart # 0 => Keyed(KeyParts[keyPart]) \in DOMAIN commands.mFilters
  <2>1. keyPart # 0 => KeyParts[keyPart] \in Range(KeyParts) /\ Keyed(KeyParts[keyPart]) # 0
    BY <1>2, <1>4 DEF Range
  <2> QED BY <1>6, <2>1
<1>10. raw # 0 => /\ raw \in DOMAIN commands.mRawFilters
                  /\ part \in Range(RawParts) /\ regex_search(PartText(r, part), f.re)
  <2>1. raw # 0 => raw \in DOMAIN commands.mRawFilters /\ rawFilterPart(f, r) # 0
    BY <1>3, <1>5
  <2> QED BY <2>1, RawPart DEF RawHit, Range
<1>11. /\ [ref |-> <<"key", Keyed(KeyParts[keyPart])>>, match |-> <<"regex">>] # NoMatch
       /\ [ref |-> <<"raw", raw>>, match |-> FirstMatch(PartText(r, part), f.re)] # NoMatch
  BY DEF NoMatch
<1> HIDE DEF Keyed, part, f
<1>12. CASE Prevented(codec, commands, r)
  BY <1>1, <1>12, PreventedFound
<1>13. CASE ~Prevented(codec, commands, r) /\ keyPart # 0
  <2>1. m = [ref |-> <<"key", Keyed(KeyParts[keyPart])>>, match |-> <<"regex">>]
    BY <1>1, <1>13
  <2>2. FilterRef(commands, m.ref) /\ MatchIn(r, m.match)
    BY <1>9, <1>13, <2>1 DEF FilterRef, MatchIn
  <2> QED BY <1>7, <1>11, <1>13, <2>1, <2>2, PreventedFound
<1>14. CASE ~Prevented(codec, commands, r) /\ keyPart = 0 /\ raw = 0
  <2>1. m = NoMatch
    BY <1>1, <1>14
  <2> QED BY <1>7, <1>8, <1>14, <2>1
<1>15. CASE ~Prevented(codec, commands, r) /\ keyPart = 0 /\ raw # 0
  <2>1. m = [ref |-> <<"raw", raw>>, match |-> FirstMatch(PartText(r, part), f.re)]
    BY <1>1, <1>15
  <2>2. FilterRef(commands, m.ref) /\ MatchIn(r, m.match)
    BY <1>10, <1>15, <2>1 DEF FilterRef, MatchIn
  <2> QED BY <1>8, <1>11, <1>15, <2>1, <2>2, PreventedFound
<1> QED BY <1>12, <1>13, <1>14, <1>15

-----------------------------------------------------------------------------
(* What a step of runOne does to its thread.                               *)

ThreadOK(x) ==
    /\ DOMAIN x = DOMAIN NewThread /\ x.pc \in Steps /\ x.dups \in Nat /\ x.raced \in BOOLEAN
    /\ IsList(x.matched)

\* Thread t has these fields after the step, and the others are as before.
Becomes(t, pc, req, dests, pending, matched, dups, raced) ==
    /\ DOMAIN w' = Workers /\ \A u \in Workers \ {t} : w'[u] = w[u]
    /\ DOMAIN w'[t] = DOMAIN NewThread
    /\ w'[t].pc = pc /\ w'[t].req = req /\ w'[t].dests = dests /\ w'[t].pending = pending
    /\ w'[t].matched = matched /\ w'[t].dups = dups /\ w'[t].raced = raced

ThreadsOK == DOMAIN w = Workers /\ \A t \in Workers : ThreadOK(w[t])

LEMMA GotoThread ==
    ASSUME ThreadsOK, NEW t \in Workers, NEW pc, NEW fields, Goto(t, pc, fields)
    PROVE  /\ DOMAIN w' = Workers /\ \A u \in Workers \ {t} : w'[u] = w[u]
           /\ DOMAIN w'[t] = DOMAIN NewThread /\ w'[t].pc = pc
           /\ \A k \in DOMAIN NewThread \ {"pc"} :
                w'[t][k] = IF k \in DOMAIN fields THEN fields[k] ELSE w[t][k]
<1>1. DOMAIN w = Workers /\ DOMAIN w[t] = DOMAIN NewThread
  BY DEF ThreadsOK, ThreadOK
<1>2. w' = [w EXCEPT ![t] = Updated(w[t], pc, fields)]
  BY DEF Goto
<1>3. DOMAIN w' = Workers /\ w'[t] = Updated(w[t], pc, fields) /\ \A u \in Workers \ {t} : w'[u] = w[u]
  BY <1>1, <1>2
<1>4. "pc" \in DOMAIN NewThread
  BY DEF NewThread
<1>5. /\ DOMAIN Updated(w[t], pc, fields) = DOMAIN NewThread
      /\ Updated(w[t], pc, fields)["pc"] = pc
      /\ \A k \in DOMAIN NewThread \ {"pc"} :
            Updated(w[t], pc, fields)[k] = IF k \in DOMAIN fields THEN fields[k] ELSE w[t][k]
  BY <1>1, <1>4 DEF Updated
<1> QED BY <1>3, <1>5

LEMMA ThreadFields ==
    DOMAIN NewThread = {"pc", "req", "dests", "pending", "matched", "dups", "raced"}
BY DEF NewThread

LEMMA initiateDuplicationStep ==
    ASSUME ThreadsOK, NEW t \in Workers, initiateDuplication(t)
    PROVE  /\ phase = "running" /\ w[t].pc = "idle"
           /\ UNCHANGED <<scenario, configVars, mMatch, isRunning, counts, reported, sent>>
           /\ \/ phase' = "crashed" /\ w' = w
              \/ /\ phase' = phase
                 /\ \/ Becomes(t, "declined", w[t].req, w[t].dests, w[t].pending, w[t].matched,
                               w[t].dups, w[t].raced)
                    \/ Becomes(t, "match", Original(t), DOMAIN Commands(t), w[t].pending,
                               w[t].matched, w[t].dups, w[t].raced)
<1> DEFINE r == scenario.requests[t].info
           new == [r EXCEPT !.mParsedArgs = @ \o parseArgs(server.codec, r.mArgs)]
           fields == [req |-> new, dests |-> DOMAIN Commands(t)]
<1>1. /\ phase = "running" /\ w[t].pc = "idle"
      /\ UNCHANGED <<scenario, configVars, mMatch, isRunning, counts, reported, sent>>
      /\ \/ phase' = "crashed" /\ w' = w
         \/ phase' = phase /\ Goto(t, "declined", <<>>)
         \/ phase' = phase /\ Goto(t, "match", fields)
  BY DEF initiateDuplication
<1>2. new = Original(t)
  BY DEF Original
<1> HIDE DEF new
<1>3. Goto(t, "declined", <<>>) => Becomes(t, "declined", w[t].req, w[t].dests, w[t].pending,
                                            w[t].matched, w[t].dups, w[t].raced)
  BY GotoThread, ThreadFields DEF Becomes
<1>4. ASSUME Goto(t, "match", fields)
      PROVE  Becomes(t, "match", Original(t), DOMAIN Commands(t), w[t].pending, w[t].matched,
                     w[t].dups, w[t].raced)
  <2> DEFINE dests == DOMAIN Commands(t)
  <2> HIDE DEF dests
  <2>1. Goto(t, "match", [req |-> new, dests |-> dests])
    BY <1>4 DEF dests
  <2>2. Becomes(t, "match", new, dests, w[t].pending, w[t].matched, w[t].dups, w[t].raced)
    BY <2>1, GotoThread, ThreadFields DEF Becomes
  <2> QED BY <1>2, <2>2 DEF dests
<1> QED BY <1>1, <1>3, <1>4

LEMMA matchDestinationStep ==
    ASSUME ThreadsOK, NEW t \in Workers, matchDestination(t),
           NEW dest, dest = NextOf(w[t].dests),
           NEW m, m = matchesFilter(server.codec, Commands(t)[dest], w[t].req)
    PROVE  /\ phase = "running" /\ w[t].pc = "match" /\ w[t].dests # {}
           /\ UNCHANGED <<scenario, phase, configVars, mMatch, isRunning, counts, reported, sent>>
           /\ \/ m = NoMatch /\ Becomes(t, "match", w[t].req, w[t].dests \ {dest}, w[t].pending,
                                        w[t].matched, w[t].dups, w[t].raced)
              \/ m # NoMatch /\ Becomes(t, "write", w[t].req, w[t].dests \ {dest},
                        [id |-> <<Location(t), dest, m.ref>>, match |-> m.match],
                        w[t].matched, w[t].dups, w[t].raced)
<1> DEFINE left == w[t].dests \ {dest}
           pending == [id |-> <<Location(t), dest, m.ref>>, match |-> m.match]
<1>1. /\ phase = "running" /\ w[t].pc = "match" /\ w[t].dests # {}
      /\ UNCHANGED <<scenario, phase, configVars, mMatch, isRunning, counts, reported, sent>>
      /\ \/ m = NoMatch /\ Goto(t, "match", [dests |-> left])
         \/ m # NoMatch /\ Goto(t, "write", [dests |-> left, pending |-> pending])
  BY DEF matchDestination
<1> HIDE DEF left, pending
<1>2. CASE Goto(t, "match", [dests |-> left])
  <2>1. Becomes(t, "match", w[t].req, left, w[t].pending, w[t].matched, w[t].dups, w[t].raced)
    BY <1>2, GotoThread, ThreadFields DEF Becomes
  <2>2. m = NoMatch
    BY <1>1, <1>2, <2>1, GotoThread
  <2> QED BY <1>1, <2>1, <2>2 DEF left
<1>3. CASE Goto(t, "write", [dests |-> left, pending |-> pending])
  <2>1. Becomes(t, "write", w[t].req, left, pending, w[t].matched, w[t].dups, w[t].raced)
    BY <1>3, GotoThread, ThreadFields DEF Becomes
  <2>2. m # NoMatch
    BY <1>1, <1>3, <2>1, GotoThread
  <2> QED BY <1>1, <2>1, <2>2 DEF left, pending
<1> QED BY <1>1, <1>2, <1>3

\* Whether some other thread was writing, or wrote before.
Overlap(t) == w[t].raced \/ Writing(t, w[t].pending.id) # {}

LEMMA storeMatchStep ==
    ASSUME ThreadsOK, NEW t \in Workers, storeMatch(t), NEW id, id = w[t].pending.id
    PROVE  /\ phase = "running" /\ w[t].pc = "write"
           /\ UNCHANGED <<scenario, phase, configVars, isRunning, counts, reported, sent>>
           /\ \E value : /\ mMatch' = Assigned(mMatch, id, value)
                         /\ ~Overlap(t) => value = w[t].pending.match
           /\ DOMAIN w' = Workers /\ DOMAIN w'[t] = DOMAIN NewThread
           /\ w'[t].pc = "match" /\ w'[t].req = w[t].req /\ w'[t].dests = w[t].dests
           /\ w'[t].matched = Append(w[t].matched, id) /\ w'[t].dups = w[t].dups
           /\ w'[t].raced = Overlap(t)
           /\ \A u \in Workers \ {t} :
                w'[u] = IF u \in Writing(t, id) \/ (Unread(u) /\ id \in Range(w[u].matched))
                        THEN [w[u] EXCEPT !.raced = TRUE] ELSE w[u]
<1> DEFINE Hit(u) == u \in Writing(t, id) \/ (Unread(u) /\ id \in Range(w[u].matched))
           overlap == w[t].raced \/ Writing(t, id) # {}
           new == [w[t] EXCEPT !.pc = "match", !.pending = NoMatch, !.matched = Append(@, id),
                               !.raced = overlap]
<1>1. /\ phase = "running" /\ w[t].pc = "write"
      /\ UNCHANGED <<scenario, phase, configVars, isRunning, counts, reported, sent>>
      /\ \E value \in {w[t].pending.match} \cup (IF overlap THEN {Torn} ELSE {}) :
             mMatch' = Assigned(mMatch, id, value)
      /\ w' = [u \in Workers |-> IF u = t THEN new
                                 ELSE IF Hit(u) THEN [w[u] EXCEPT !.raced = TRUE] ELSE w[u]]
  BY DEF storeMatch
<1>2. overlap = Overlap(t)
  BY DEF Overlap
<1> HIDE DEF overlap, Hit
<1>3. \E value : mMatch' = Assigned(mMatch, id, value) /\ (~Overlap(t) => value = w[t].pending.match)
  BY <1>1, <1>2
<1>4. DOMAIN w' = Workers /\ w'[t] = new
      /\ \A u \in Workers \ {t} : w'[u] = IF Hit(u) THEN [w[u] EXCEPT !.raced = TRUE] ELSE w[u]
  BY <1>1
<1>5. DOMAIN w[t] = {"pc", "req", "dests", "pending", "matched", "dups", "raced"}
  BY ThreadFields DEF ThreadsOK, ThreadOK
<1>6. /\ DOMAIN new = DOMAIN w[t] /\ new.pc = "match" /\ new.req = w[t].req /\ new.dests = w[t].dests
      /\ new.matched = Append(w[t].matched, id) /\ new.dups = w[t].dups /\ new.raced = overlap
  BY <1>5
<1>7. DOMAIN w[t] = DOMAIN NewThread
  BY DEF ThreadsOK, ThreadOK
<1> HIDE DEF new
<1> QED BY <1>1, <1>2, <1>3, <1>4, <1>6, <1>7 DEF Hit

\* The headers of the answer when the patterns read were added.
Reported(out, matched, read) ==
    out \o [i \in DOMAIN matched |-> Header("X-MATCHED-PATTERN", read[i])]
        \o <<Header("X_DUP_LOG", <<"log">>)>>

Readable(t, id) == {mMatch[id]} \cup UNION {{w[u].pending.match, Torn} : u \in Writing(t, id)}

LEMMA addValidationHeadersDupStep ==
    ASSUME ThreadsOK, NEW t \in Workers, addValidationHeadersDup(t)
    PROVE  /\ phase = "running" /\ w[t].pc = "match" /\ w[t].dests = {}
           /\ UNCHANGED <<scenario, phase, configVars, mMatch, isRunning, counts, reported, sent>>
           /\ \E read : /\ \A i \in DOMAIN w[t].matched : read[i] \in Readable(t, w[t].matched[i])
                        /\ Becomes(t, "filter",
                                [w[t].req EXCEPT !.mHeadersOut = Reported(@, w[t].matched, read)],
                                w[t].dests, w[t].pending, w[t].matched, w[t].dups,
                                w[t].raced \/ \E id \in Range(w[t].matched) : Writing(t, id) # {})
<1> DEFINE matched == w[t].matched
           raced == w[t].raced \/ \E id \in Range(matched) : Writing(t, id) # {}
           New(read) == [w[t].req EXCEPT !.mHeadersOut = Reported(@, matched, read)]
<1>1. /\ phase = "running" /\ w[t].pc = "match" /\ w[t].dests = {}
      /\ UNCHANGED <<scenario, phase, configVars, mMatch, isRunning, counts, reported, sent>>
  BY DEF addValidationHeadersDup
<1>2. \E read : /\ \A i \in DOMAIN matched : read[i] \in Readable(t, matched[i])
                /\ Goto(t, "filter", [raced |-> raced, req |-> New(read)])
  BY DEF addValidationHeadersDup, Readable, Reported
<1> HIDE DEF raced, New
<1>3. PICK read : /\ \A i \in DOMAIN matched : read[i] \in Readable(t, matched[i])
                  /\ Goto(t, "filter", [raced |-> raced, req |-> New(read)])
  BY <1>2
<1> DEFINE new == New(read)
<1> HIDE DEF new
<1>4. Goto(t, "filter", [raced |-> raced, req |-> new])
  BY <1>3 DEF new
<1>5. Becomes(t, "filter", new, w[t].dests, w[t].pending, w[t].matched, w[t].dups, raced)
  BY <1>4, GotoThread, ThreadFields DEF Becomes
<1>6. Becomes(t, "filter", New(read), w[t].dests, w[t].pending, w[t].matched, w[t].dups, raced)
  BY <1>5 DEF new
<1> QED BY <1>1, <1>3, <1>6 DEF New, raced

\* The loop over the matched filters.
LEMMA nextFilterStep ==
    ASSUME ThreadsOK, NEW t \in Workers, nextFilter(t)
    PROVE  /\ phase = "running" /\ w[t].pc = "filter"
           /\ UNCHANGED <<scenario, phase, configVars, mMatch, isRunning, counts, reported, sent>>
           /\ \/ /\ w[t].matched = <<>>
                 /\ Becomes(t, "done", w[t].req, w[t].dests, w[t].pending, w[t].matched,
                            w[t].dups, w[t].raced)
              \/ /\ w[t].matched # <<>>
                 /\ \E rand \in Rands : \E n :
                      /\ n = toDuplicateInt(Commands(t)[FilterAt(t, Head(w[t].matched)).dest].mDuplicationPercentage,
                                            rand)
                      /\ \/ n = 0 /\ Becomes(t, "filter", w[t].req, w[t].dests, w[t].pending,
                                             Tail(w[t].matched), w[t].dups, w[t].raced)
                         \/ n # 0 /\ Becomes(t, "curl", w[t].req, w[t].dests, w[t].pending,
                                             w[t].matched, n, w[t].raced)
<1> DEFINE N(rand) == toDuplicateInt(
                Commands(t)[FilterAt(t, Head(w[t].matched)).dest].mDuplicationPercentage, rand)
<1>1. /\ phase = "running" /\ w[t].pc = "filter"
      /\ UNCHANGED <<scenario, phase, configVars, mMatch, isRunning, counts, reported, sent>>
      /\ \/ w[t].matched = <<>> /\ Goto(t, "done", <<>>)
         \/ w[t].matched # <<>> /\ \E rand \in Rands :
                \/ N(rand) = 0 /\ Goto(t, "filter", [matched |-> Tail(w[t].matched)])
                \/ N(rand) # 0 /\ Goto(t, "curl", [dups |-> N(rand)])
  BY DEF nextFilter
<1> HIDE DEF N
<1>2. Goto(t, "done", <<>>) => Becomes(t, "done", w[t].req, w[t].dests, w[t].pending,
                                        w[t].matched, w[t].dups, w[t].raced)
  BY GotoThread, ThreadFields DEF Becomes
<1>3. ASSUME NEW rest, Goto(t, "filter", [matched |-> rest])
      PROVE  Becomes(t, "filter", w[t].req, w[t].dests, w[t].pending, rest, w[t].dups, w[t].raced)
  BY <1>3, GotoThread, ThreadFields DEF Becomes
<1>4. ASSUME NEW n, Goto(t, "curl", [dups |-> n])
      PROVE  Becomes(t, "curl", w[t].req, w[t].dests, w[t].pending, w[t].matched, n, w[t].raced)
  BY <1>4, GotoThread, ThreadFields DEF Becomes
<1>5. CASE w[t].matched = <<>>
  BY <1>1, <1>2, <1>5
<1>6. CASE w[t].matched # <<>>
  <2>1. PICK rand \in Rands :
                \/ N(rand) = 0 /\ Goto(t, "filter", [matched |-> Tail(w[t].matched)])
                \/ N(rand) # 0 /\ Goto(t, "curl", [dups |-> N(rand)])
    BY <1>1, <1>6
  <2>2. \/ N(rand) = 0 /\ Becomes(t, "filter", w[t].req, w[t].dests, w[t].pending,
                                  Tail(w[t].matched), w[t].dups, w[t].raced)
        \/ N(rand) # 0 /\ Becomes(t, "curl", w[t].req, w[t].dests, w[t].pending,
                                  w[t].matched, N(rand), w[t].raced)
    BY <1>3, <1>4, <2>1
  <2> QED BY <1>1, <1>6, <2>2 DEF N
<1> QED BY <1>5, <1>6

Call(t) ==
    LET f == FilterAt(t, Head(w[t].matched))
    IN performCurlCall(DuplicateOf(t, f, Commands(t)[f.dest]), f)

LEMMA duplicateStep ==
    ASSUME ThreadsOK, NEW t \in Workers, duplicate(t)
    PROVE  /\ phase = "running" /\ w[t].pc = "curl"
           /\ UNCHANGED <<scenario, phase, configVars, mMatch, isRunning, reported>>
           /\ \/ /\ Synchronous(t) \/ isRunning
                 /\ Becomes(t, "count", w[t].req, w[t].dests, w[t].pending, w[t].matched,
                            w[t].dups, w[t].raced)
                 /\ sent' = [sent EXCEPT ![t] = Append(@, Call(t))]
                 /\ \E n \in 0 .. 1 : counts' = [counts EXCEPT !.timeout = @ + n]
              \/ /\ ~(Synchronous(t) \/ isRunning)
                 /\ Becomes(t, "filter", w[t].req, w[t].dests, w[t].pending, Tail(w[t].matched),
                            0, w[t].raced)
                 /\ UNCHANGED <<sent, counts>>
<1>1. /\ phase = "running" /\ w[t].pc = "curl"
      /\ UNCHANGED <<scenario, phase, configVars, mMatch, isRunning, reported>>
      /\ \/ /\ Synchronous(t) \/ isRunning
            /\ Goto(t, "count", <<>>)
            /\ sent' = [sent EXCEPT ![t] = Append(@, Call(t))]
            /\ \E n \in (IF scenario.events THEN 0 .. 1 ELSE {0}) : counts' = [counts EXCEPT !.timeout = @ + n]
         \/ /\ ~(Synchronous(t) \/ isRunning)
            /\ Goto(t, "filter", [matched |-> Tail(w[t].matched), dups |-> 0])
            /\ UNCHANGED <<sent, counts>>
  BY DEF duplicate, Call
<1>2. Goto(t, "count", <<>>) => Becomes(t, "count", w[t].req, w[t].dests, w[t].pending,
                                         w[t].matched, w[t].dups, w[t].raced)
  BY GotoThread, ThreadFields DEF Becomes
<1>3. ASSUME NEW rest, Goto(t, "filter", [matched |-> rest, dups |-> 0])
      PROVE  Becomes(t, "filter", w[t].req, w[t].dests, w[t].pending, rest, 0, w[t].raced)
  BY <1>3, GotoThread, ThreadFields DEF Becomes
<1>4. ASSUME NEW e \in (IF scenario.events THEN 0 .. 1 ELSE {0}) PROVE e \in 0 .. 1
  BY <1>4
<1> QED BY <1>1, <1>2, <1>3, <1>4

LEMMA countDuplicateStep ==
    ASSUME ThreadsOK, NEW t \in Workers, countDuplicate(t)
    PROVE  /\ phase = "running" /\ w[t].pc = "count"
           /\ UNCHANGED <<scenario, phase, configVars, mMatch, isRunning, reported, sent>>
           /\ counts' = [counts EXCEPT !.duplicated = @ + 1]
           /\ \/ w[t].dups = 1 /\ Becomes(t, "filter", w[t].req, w[t].dests, w[t].pending,
                                          Tail(w[t].matched), 0, w[t].raced)
              \/ w[t].dups # 1 /\ Becomes(t, "curl", w[t].req, w[t].dests, w[t].pending,
                                          w[t].matched, w[t].dups - 1, w[t].raced)
<1>1. /\ phase = "running" /\ w[t].pc = "count"
      /\ UNCHANGED <<scenario, phase, configVars, mMatch, isRunning, reported, sent>>
      /\ counts' = [counts EXCEPT !.duplicated = @ + 1]
      /\ \/ w[t].dups = 1 /\ Goto(t, "filter", [matched |-> Tail(w[t].matched), dups |-> 0])
         \/ w[t].dups # 1 /\ Goto(t, "curl", [dups |-> w[t].dups - 1])
  BY DEF countDuplicate
<1>2. ASSUME NEW rest, Goto(t, "filter", [matched |-> rest, dups |-> 0])
      PROVE  Becomes(t, "filter", w[t].req, w[t].dests, w[t].pending, rest, 0, w[t].raced)
  BY <1>2, GotoThread, ThreadFields DEF Becomes
<1>3. Goto(t, "curl", [dups |-> w[t].dups - 1]) =>
            Becomes(t, "curl", w[t].req, w[t].dests, w[t].pending, w[t].matched,
                    w[t].dups - 1, w[t].raced)
  BY GotoThread, ThreadFields DEF Becomes
<1> QED BY <1>1, <1>2, <1>3

-----------------------------------------------------------------------------
(* The inductive invariant of the threads.                                 *)

\* An entry of matched names a filter of a destination of the request's location.
IdOK(t, id) ==
    /\ id = <<Location(t), id[2], id[3]>> /\ id[2] \in DOMAIN Commands(t)
    /\ FilterRef(Commands(t)[id[2]], id[3])

Good(t) ==
    /\ ThreadOK(w[t]) /\ w[t].dests \subseteq DOMAIN Commands(t)
    /\ \A id \in Range(w[t].matched) : IdOK(t, id) /\ id \in DOMAIN mMatch
    /\ w[t].pc = "write" => IdOK(t, w[t].pending.id)
    /\ w[t].pc \in {"curl", "count"} => w[t].matched # <<>> /\ w[t].dups # 0
    /\ w[t].pc \in {"match", "write"} => w[t].req = Original(t)

WorkInv ==
    /\ phase \in {"config", "running", "refused", "crashed"}
    /\ DOMAIN w = Workers /\ \A t \in Workers : Good(t)
    /\ DOMAIN sent = Workers /\ \A t \in Workers : IsList(sent[t])
    /\ phase \in {"config", "refused"} => \A t \in Workers : w[t] = NewThread /\ sent[t] = <<>>

LEMMA WorkThreads ==
    ASSUME WorkInv
    PROVE  ThreadsOK
BY DEF WorkInv, Good, ThreadsOK

LEMMA NewThreadOK == ThreadOK(NewThread) /\ Range(NewThread.matched) = {}
<1>1. NewThread.matched = <<>> /\ NewThread.pc = "idle" /\ NewThread.dups = 0 /\ NewThread.raced = FALSE
  BY DEF NewThread
<1>2. IsList(<<>>) /\ Range(<<>>) = {}
  BY DEF IsList, Range
<1>3. NewThread.pc \in Steps /\ NewThread.dups \in Nat /\ NewThread.raced \in BOOLEAN
  <2>1. NewThread.raced \in BOOLEAN
    BY <1>1, Zenon
  <2> QED BY <1>1, <2>1 DEF Steps
<1> QED BY <1>1, <1>2, <1>3 DEF ThreadOK

LEMMA LocationOK ==
    ASSUME TodoInv, NEW t \in Workers
    PROVE  Location(t) \in Locations /\ scenario.requests[t].info \in RequestInfo
BY DupProcessAssumption DEF TodoInv, Location

\* A step that leaves the fields of the thread but raced, and the configuration.
LEMMA GoodKept ==
    ASSUME NEW u \in Workers, Good(u), UNCHANGED <<scenario, configVars>>,
           DOMAIN mMatch \subseteq DOMAIN mMatch',
           DOMAIN w'[u] = DOMAIN w[u], w'[u].raced \in BOOLEAN,
           \A k \in DOMAIN NewThread \ {"raced"} : w'[u][k] = w[u][k]
    PROVE  Good(u)'
<1>1. /\ w'[u].pc = w[u].pc /\ w'[u].req = w[u].req /\ w'[u].dests = w[u].dests
      /\ w'[u].pending = w[u].pending /\ w'[u].matched = w[u].matched /\ w'[u].dups = w[u].dups
  BY ThreadFields
<1>2. Commands(u)' = Commands(u) /\ Location(u)' = Location(u) /\ Original(u)' = Original(u)
  BY DEF Commands, Location, Original, configVars
<1>3. \A id : IdOK(u, id)' <=> IdOK(u, id)
  BY DEF IdOK, Commands, Location, configVars
<1>4. ThreadOK(w'[u])
  BY <1>1 DEF Good, ThreadOK
<1>5. (w[u].pc = "write" => IdOK(u, w[u].pending.id))'
  BY <1>1 DEF Good, IdOK, Commands, Location, configVars
<1> QED BY <1>1, <1>2, <1>3, <1>4, <1>5 DEF Good

LEMMA GoodOthers ==
    ASSUME NEW t \in Workers, NEW u \in Workers \ {t}, Good(u), UNCHANGED <<scenario, configVars>>,
           DOMAIN mMatch \subseteq DOMAIN mMatch', w'[u] = w[u]
    PROVE  Good(u)'
BY GoodKept DEF Good, ThreadOK

-----------------------------------------------------------------------------
(* The values the steps work on.                                           *)

LEMMA SeqList ==
    ASSUME NEW S, NEW s \in Seq(S)
    PROVE  IsList(s)
<1>1. Len(s) \in Nat /\ s = [i \in 1 .. Len(s) |-> s[i]]
  OBVIOUS
<1> QED BY <1>1, ListOf

LEMMA ConcatList ==
    ASSUME NEW s, IsList(s), NEW r, IsList(r)
    PROVE  IsList(s \o r) /\ Range(s \o r) = Range(s) \cup Range(r)
<1>1. s \in Seq(Range(s) \cup Range(r)) /\ r \in Seq(Range(s) \cup Range(r))
  BY DEF IsList
<1>2. /\ s \o r \in Seq(Range(s) \cup Range(r)) /\ Len(s \o r) = Len(s) + Len(r)
      /\ \A i \in 1 .. Len(s) : (s \o r)[i] = s[i]
      /\ \A i \in 1 .. Len(r) : (s \o r)[Len(s) + i] = r[i]
  BY <1>1
<1>3. IsList(s \o r)
  BY <1>2, SeqList
<1>4. /\ DOMAIN s = 1 .. Len(s) /\ DOMAIN r = 1 .. Len(r) /\ DOMAIN (s \o r) = 1 .. Len(s) + Len(r)
      /\ Len(s) \in Nat /\ Len(r) \in Nat
  BY <1>1, <1>2
<1>5. ASSUME NEW i \in 1 .. Len(s) + Len(r), i \notin 1 .. Len(s)
      PROVE  i - Len(s) \in 1 .. Len(r) /\ i = Len(s) + (i - Len(s))
  BY <1>4, <1>5
<1>6. \A i \in DOMAIN (s \o r) : (s \o r)[i] \in Range(s) \cup Range(r)
  <2> TAKE i \in DOMAIN (s \o r)
  <2>1. CASE i \in 1 .. Len(s)
    BY <1>2, <1>4, <2>1 DEF Range
  <2>2. CASE i \notin 1 .. Len(s)
    <3>1. i - Len(s) \in 1 .. Len(r) /\ (s \o r)[i] = r[i - Len(s)]
      BY <1>2, <1>4, <1>5, <2>2
    <3> QED BY <1>4, <3>1 DEF Range
  <2> QED BY <2>1, <2>2
<1>7. Range(s) \subseteq Range(s \o r)
  <2>1. ASSUME NEW i \in DOMAIN s PROVE i \in DOMAIN (s \o r) /\ (s \o r)[i] = s[i]
    BY <1>2, <1>4, <2>1
  <2> QED BY <2>1 DEF Range
<1>8. Range(r) \subseteq Range(s \o r)
  <2>1. ASSUME NEW i \in DOMAIN r PROVE Len(s) + i \in DOMAIN (s \o r) /\ (s \o r)[Len(s) + i] = r[i]
    BY <1>2, <1>4, <2>1
  <2> QED BY <2>1 DEF Range
<1>9. Range(s \o r) \subseteq Range(s) \cup Range(r)
  BY <1>6 DEF Range
<1> QED BY <1>3, <1>7, <1>8, <1>9

LEMMA PickList ==
    ASSUME NEW s, NEW n \in Nat, NEW S \in SUBSET (1 .. n)
    PROVE  IsList(Pick(s, S)) /\ Cardinality(S) \in Nat /\ DOMAIN Pick(s, S) = 1 .. Cardinality(S)
<1>1. IsFiniteSet(S) /\ Cardinality(S) \in Nat
  <2>1. IsFiniteSet(1 .. n)
    BY FS_Interval
  <2>2. IsFiniteSet(S)
    BY <2>1, FS_Subset
  <2> QED BY <2>2, FS_CardinalityType
<1>2. Pick(s, S) = [i \in 1 .. Cardinality(S) |-> Pick(s, S)[i]]
  BY DEF Pick
<1> QED BY <1>1, <1>2, ListOf

\* parseArgs gives a list of keys and values.
LEMMA ParsedList ==
    ASSUME NEW codec, NEW text \in Text
    PROVE  IsList(parseArgs(codec, text))
<1> DEFINE starts == {i \in DOMAIN text : text[i] # "&" /\ (i = 1 \/ text[i - 1] = "&")}
           End(i) == Max({j \in i .. Len(text) : \A k \in i .. j : text[k] # "&"})
           s == [i \in DOMAIN text |-> SubSeq(text, i, End(i))]
           tokens == Tokens(text)
           args == parseArgs(codec, text)
<1>1. tokens = Pick(s, starts)
  BY DEF Tokens
<1>2. Len(text) \in Nat /\ starts \in SUBSET (1 .. Len(text))
  BY DEF Text
<1> HIDE DEF starts, s
<1>3. DOMAIN tokens = 1 .. Cardinality(starts) /\ Cardinality(starts) \in Nat
  BY <1>1, <1>2, PickList
<1>4. args = [i \in DOMAIN tokens |-> args[i]]
  BY DEF parseArgs
<1> HIDE DEF args, tokens
<1>5. IsList(args)
  BY <1>3, <1>4, ListOf
<1> QED BY <1>5 DEF args

LEMMA RequestFields ==
    ASSUME NEW r \in RequestInfo
    PROVE  /\ DOMAIN r = {"mMethod", "mPath", "mArgs", "mParsedArgs", "mHeadersIn", "mBody",
                          "mHeadersOut", "mValidationHeaderDup"}
           /\ r.mMethod \in Text /\ r.mPath \in Text /\ r.mArgs \in Text /\ r.mBody \in Text
           /\ IsList(r.mParsedArgs) /\ IsList(r.mHeadersIn) /\ IsList(r.mHeadersOut)
<1>1. /\ DOMAIN r = {"mMethod", "mPath", "mArgs", "mParsedArgs", "mHeadersIn", "mBody",
                     "mHeadersOut", "mValidationHeaderDup"}
      /\ r.mMethod \in Text /\ r.mPath \in Text /\ r.mArgs \in Text /\ r.mBody \in Text
      /\ r.mParsedArgs \in KeyValList /\ r.mHeadersIn \in KeyValList /\ r.mHeadersOut \in KeyValList
  BY DEF RequestInfo
<1> QED BY <1>1, SeqList DEF KeyValList

\* The request as runOne works on it differs from what it was given by its
\* parsed arguments only.
LEMMA OriginalFields ==
    ASSUME TodoInv, NEW t \in Workers, NEW r, r = scenario.requests[t].info
    PROVE  /\ DOMAIN Original(t) = DOMAIN r
           /\ Original(t).mParsedArgs = r.mParsedArgs \o parseArgs(server.codec, r.mArgs)
           /\ \A k \in DOMAIN r \ {"mParsedArgs"} : Original(t)[k] = r[k]
<1>1. r \in RequestInfo
  BY LocationOK
<1>2. Original(t) = [r EXCEPT !.mParsedArgs = r.mParsedArgs \o parseArgs(server.codec, r.mArgs)]
  BY DEF Original
<1>3. "mParsedArgs" \in DOMAIN r
  BY <1>1, RequestFields
<1> DEFINE new == r.mParsedArgs \o parseArgs(server.codec, r.mArgs)
<1> HIDE DEF new
<1>4. Original(t) = [r EXCEPT !.mParsedArgs = new]
  BY <1>2 DEF new
<1>5. DOMAIN Original(t) = DOMAIN r /\ Original(t).mParsedArgs = new
      /\ \A k \in DOMAIN r \ {"mParsedArgs"} : Original(t)[k] = r[k]
  BY <1>3, <1>4
<1> QED BY <1>5 DEF new

LEMMA OriginalParsed ==
    ASSUME TodoInv, NEW t \in Workers
    PROVE  Parsed(server.codec, Original(t))
<1> DEFINE r == scenario.requests[t].info
           o == Original(t)
           codec == server.codec
<1>1. r \in RequestInfo
  BY LocationOK
<1> HIDE DEF r
<1>2. o.mParsedArgs = r.mParsedArgs \o parseArgs(codec, r.mArgs)
      /\ o.mHeadersIn = r.mHeadersIn /\ o.mBody = r.mBody
  <2>1. {"mParsedArgs", "mHeadersIn", "mBody"} \subseteq DOMAIN r
    BY <1>1, RequestFields
  <2> HIDE DEF o, codec
  <2>2. /\ o.mParsedArgs = r.mParsedArgs \o parseArgs(codec, r.mArgs)
        /\ \A k \in DOMAIN r \ {"mParsedArgs"} : o[k] = r[k]
    BY OriginalFields DEF r, o, codec
  <2> QED BY <2>1, <2>2
<1> HIDE DEF o, codec
<1>3. /\ IsList(r.mParsedArgs) /\ IsList(r.mHeadersIn)
      /\ IsList(parseArgs(codec, r.mArgs)) /\ IsList(parseArgs(codec, r.mBody))
  BY <1>1, RequestFields, ParsedList
<1>4. IsList(o.mParsedArgs) /\ IsList(o.mHeadersIn)
  BY <1>2, <1>3, ConcatList
<1>5. ASSUME NEW part \in Range(KeyParts) PROVE IsList(KeyVals(codec, o, part))
  <2>1. part \in {"QUERY_STRING", "HEADERS", "BODY"}
    BY DEF Range, KeyParts
  <2> QED BY <1>2, <1>3, <1>4, <2>1 DEF KeyVals
<1> QED BY <1>5 DEF Parsed, o, codec

LEMMA NextOfOK ==
    ASSUME NEW dests, dests \subseteq Destinations, dests # {}
    PROVE  NextOf(dests) \in dests
<1> DEFINE S == {i \in DOMAIN DestOrder : DestOrder[i] \in dests}
<1>1. DOMAIN DestOrder \subseteq Nat
  BY DupProcessAssumption
<1>2. S \in SUBSET Nat
  BY <1>1
<1>3. S # {}
  BY DEF Destinations, Range
<1> HIDE DEF S
<1>4. Min(S) \in S
  BY <1>2, <1>3, MinIn
<1>5. NextOf(dests) = DestOrder[Min(S)]
  BY DEF NextOf, S
<1> QED BY <1>4, <1>5 DEF S

\* The filter that an entry of matched stands for.
LEMMA FilterAtOK ==
    ASSUME DirectivesInv, TodoInv, NEW t \in Workers, NEW id, IdOK(t, id)
    PROVE  /\ FilterAt(t, id) \in Filters(Commands(t)[id[2]])
           /\ FilterAt(t, id).dest = id[2]
           /\ Commands(t)[id[2]].mDuplicationPercentage \in Nat
<1> DEFINE commands == Commands(t)[id[2]]
           l == Location(t)
<1>1. CommandsOK(commands, id[2], conf[l].highest)
  BY LocationOK DEF DirectivesInv, IdOK, Commands
<1>2. FilterRef(commands, id[3])
  BY DEF IdOK
<1> HIDE DEF commands
<1>3. FilterOf(commands, id[3]) \in Filters(commands)
  BY <1>2 DEF FilterRef, FilterOf, Filters, Range
<1>4. FilterAt(t, id) = FilterOf(commands, id[3])
  BY DEF FilterAt, commands
<1>5. FilterOf(commands, id[3]).dest = id[2] /\ commands.mDuplicationPercentage \in Nat
  BY <1>1, <1>3 DEF CommandsOK, FilterOK
<1> QED BY <1>3, <1>4, <1>5 DEF commands

LEMMA toDuplicateIntType ==
    ASSUME NEW p \in Nat, NEW rand
    PROVE  /\ toDuplicateInt(p, rand) \in Nat
           /\ p \div 100 <= toDuplicateInt(p, rand) /\ toDuplicateInt(p, rand) <= (p + 99) \div 100
<1>1. p \div 100 \in Nat
  OBVIOUS
<1>2. toDuplicateInt(p, rand) \in {p \div 100, p \div 100 + 1}
  BY <1>1 DEF toDuplicateInt
<1>3. toDuplicateInt(p, rand) = p \div 100 + 1 => p % 100 # 0
  BY <1>1 DEF toDuplicateInt
<1>4. p \div 100 <= (p + 99) \div 100 /\ (p + 99) \div 100 \in Nat
  OBVIOUS
<1>5. p % 100 # 0 => (p + 99) \div 100 = p \div 100 + 1
  OBVIOUS
<1> QED BY <1>1, <1>2, <1>3, <1>4, <1>5

-----------------------------------------------------------------------------
(* Every step of runOne keeps the invariant of the threads.                *)

\* A step of thread t that leaves mMatch, into fields in order.
LEMMA WorkStep ==
    ASSUME WorkInv, NEW t \in Workers, UNCHANGED <<scenario, phase, configVars, mMatch>>, phase = "running",
           NEW pc \in Steps, NEW req, NEW dests, NEW pending, NEW matched, NEW dups \in Nat,
           NEW raced \in BOOLEAN, Becomes(t, pc, req, dests, pending, matched, dups, raced),
           IsList(matched), dests \subseteq DOMAIN Commands(t),
           \A id \in Range(matched) : IdOK(t, id) /\ id \in DOMAIN mMatch,
           pc = "write" => IdOK(t, pending.id),
           pc \in {"curl", "count"} => matched # <<>> /\ dups # 0,
           pc \in {"match", "write"} => req = Original(t),
           DOMAIN sent' = Workers, \A u \in Workers : IsList(sent'[u])
    PROVE  WorkInv'
<1>1. /\ DOMAIN w' = Workers /\ \A u \in Workers \ {t} : w'[u] = w[u]
      /\ DOMAIN w'[t] = DOMAIN NewThread
      /\ w'[t].pc = pc /\ w'[t].req = req /\ w'[t].dests = dests /\ w'[t].pending = pending
      /\ w'[t].matched = matched /\ w'[t].dups = dups /\ w'[t].raced = raced
  BY DEF Becomes
<1>2. Commands(t)' = Commands(t) /\ Location(t)' = Location(t) /\ Original(t)' = Original(t)
  BY DEF Commands, Location, Original, configVars
<1>3. \A id : IdOK(t, id)' <=> IdOK(t, id)
  BY DEF IdOK, Commands, Location, configVars
<1>4. ThreadOK(w'[t])
  BY <1>1 DEF ThreadOK
<1>5. (w[t].pc = "write" => IdOK(t, w[t].pending.id))'
  BY <1>1 DEF IdOK, Commands, Location, configVars
<1>6. Good(t)'
  BY <1>1, <1>2, <1>3, <1>4, <1>5 DEF Good
<1>7. \A u \in Workers \ {t} : Good(u)'
  BY <1>1, GoodOthers DEF WorkInv
<1>8. \A u \in Workers : Good(u)'
  BY <1>6, <1>7
<1> QED BY <1>1, <1>8 DEF WorkInv

LEMMA TailList ==
    ASSUME NEW s, IsList(s), s # <<>>
    PROVE  IsList(Tail(s)) /\ Range(Tail(s)) \subseteq Range(s) /\ Head(s) \in Range(s)
           /\ Range(s) = Range(Tail(s)) \cup {Head(s)}
<1>1. s \in Seq(Range(s))
  BY DEF IsList
<1>2. Tail(s) \in Seq(Range(s)) /\ Head(s) = s[1] /\ Len(s) \in Nat \ {0} /\ DOMAIN s = 1 .. Len(s)
  BY <1>1
<1>3. /\ Len(Tail(s)) = Len(s) - 1 /\ DOMAIN Tail(s) = 1 .. Len(s) - 1
      /\ \A i \in 1 .. Len(s) - 1 : Tail(s)[i] = s[i + 1]
  BY <1>1, <1>2
<1>4. IsList(Tail(s))
  BY <1>2, SeqList
<1>5. Head(s) \in Range(s)
  BY <1>2 DEF Range
<1>6. Range(Tail(s)) \subseteq Range(s)
  <2>1. ASSUME NEW i \in DOMAIN Tail(s) PROVE i + 1 \in DOMAIN s /\ Tail(s)[i] = s[i + 1]
    BY <1>2, <1>3, <2>1
  <2> QED BY <2>1 DEF Range
<1>7. Range(s) \subseteq Range(Tail(s)) \cup {Head(s)}
  <2>1. ASSUME NEW i \in DOMAIN s, i # 1 PROVE i - 1 \in DOMAIN Tail(s) /\ Tail(s)[i - 1] = s[i]
    <3>1. i - 1 \in 1 .. Len(s) - 1 /\ i = (i - 1) + 1
      BY <1>2, <2>1
    <3> QED BY <1>3, <3>1
  <2> QED BY <1>2, <2>1 DEF Range
<1> QED BY <1>4, <1>5, <1>6, <1>7

LEMMA initiateDuplicationWork ==
    ASSUME WorkInv, DirectivesInv, TodoInv, NEW t \in Workers, initiateDuplication(t)
    PROVE  WorkInv'
<1>1. ThreadsOK /\ Good(t)
  BY WorkThreads DEF WorkInv
<1>2. CASE phase' = "crashed" /\ w' = w
  <2>1. UNCHANGED <<scenario, configVars, mMatch, isRunning, counts, reported, sent>> /\ phase = "running"
    BY <1>1, initiateDuplicationStep
  <2>2. \A u \in Workers : Good(u)'
    BY <1>2, <2>1, GoodKept DEF WorkInv, Good, ThreadOK
  <2> QED BY <1>2, <2>1, <2>2 DEF WorkInv
<1>3. CASE ~(phase' = "crashed" /\ w' = w)
  <2>1. /\ UNCHANGED <<scenario, phase, configVars, mMatch, isRunning, counts, reported, sent>>
        /\ phase = "running" /\ w[t].pc = "idle"
        /\ \/ Becomes(t, "declined", w[t].req, w[t].dests, w[t].pending, w[t].matched,
                      w[t].dups, w[t].raced)
           \/ Becomes(t, "match", Original(t), DOMAIN Commands(t), w[t].pending,
                      w[t].matched, w[t].dups, w[t].raced)
    BY <1>1, <1>3, initiateDuplicationStep
  <2>2. DOMAIN sent' = Workers /\ \A u \in Workers : IsList(sent'[u])
    BY <2>1 DEF WorkInv
  <2>3. /\ w[t].dups \in Nat /\ w[t].raced \in BOOLEAN /\ IsList(w[t].matched)
        /\ w[t].dests \subseteq DOMAIN Commands(t)
        /\ \A id \in Range(w[t].matched) : IdOK(t, id) /\ id \in DOMAIN mMatch
    BY <1>1 DEF Good, ThreadOK
  <2>4. "declined" \in Steps /\ "match" \in Steps
    BY DEF Steps
  <2>5. CASE Becomes(t, "declined", w[t].req, w[t].dests, w[t].pending, w[t].matched,
                     w[t].dups, w[t].raced)
    BY <2>1, <2>2, <2>3, <2>4, <2>5, WorkStep
  <2>6. CASE Becomes(t, "match", Original(t), DOMAIN Commands(t), w[t].pending,
                     w[t].matched, w[t].dups, w[t].raced)
    BY <2>1, <2>2, <2>3, <2>4, <2>6, WorkStep
  <2> QED BY <2>1, <2>5, <2>6
<1> QED BY <1>2, <1>3

LEMMA DestsOK ==
    ASSUME DirectivesInv, TodoInv, NEW t \in Workers
    PROVE  /\ DOMAIN Commands(t) \subseteq Destinations
           /\ \A dest \in DOMAIN Commands(t) :
                CommandsOK(Commands(t)[dest], dest, conf[Location(t)].highest)
BY LocationOK DEF DirectivesInv, Commands, CommandsOK

\* What a thread finds at the next destination, with the original request.
LEMMA MatchHere ==
    ASSUME DirectivesInv, TodoInv, NEW t \in Workers, Good(t), w[t].pc = "match", w[t].dests # {},
           NEW dest, dest = NextOf(w[t].dests),
           NEW m, m = matchesFilter(server.codec, Commands(t)[dest], w[t].req)
    PROVE  /\ dest \in w[t].dests /\ dest \in DOMAIN Commands(t)
           /\ w[t].req = Original(t)
           /\ m # NoMatch => /\ IdOK(t, <<Location(t), dest, m.ref>>)
                             /\ MatchIn(Original(t), m.match)
<1>1. dest \in w[t].dests /\ dest \in DOMAIN Commands(t)
  BY DestsOK, NextOfOK DEF Good
<1>2. w[t].req = Original(t)
  BY DEF Good
<1>3. IsList(Commands(t)[dest].mFilters) /\ IsList(Commands(t)[dest].mRawFilters)
  BY <1>1, DestsOK DEF CommandsOK
<1>4. Parsed(server.codec, w[t].req)
  BY <1>2, OriginalParsed
<1>5. m # NoMatch => FilterRef(Commands(t)[dest], m.ref) /\ MatchIn(w[t].req, m.match)
  BY <1>3, <1>4, MatchFound
<1> QED BY <1>1, <1>2, <1>5 DEF IdOK

LEMMA matchDestinationWork ==
    ASSUME WorkInv, DirectivesInv, TodoInv, NEW t \in Workers, matchDestination(t)
    PROVE  WorkInv'
<1> DEFINE dest == NextOf(w[t].dests)
           m == matchesFilter(server.codec, Commands(t)[dest], w[t].req)
           pending == [id |-> <<Location(t), dest, m.ref>>, match |-> m.match]
<1>1. ThreadsOK /\ Good(t)
  BY WorkThreads DEF WorkInv
<1>2. /\ phase = "running" /\ w[t].pc = "match" /\ w[t].dests # {}
      /\ UNCHANGED <<scenario, phase, configVars, mMatch, isRunning, counts, reported, sent>>
      /\ \/ m = NoMatch /\ Becomes(t, "match", w[t].req, w[t].dests \ {dest}, w[t].pending,
                                   w[t].matched, w[t].dups, w[t].raced)
         \/ m # NoMatch /\ Becomes(t, "write", w[t].req, w[t].dests \ {dest}, pending,
                   w[t].matched, w[t].dups, w[t].raced)
  BY <1>1, matchDestinationStep
<1>3. w[t].req = Original(t) /\ (m # NoMatch => IdOK(t, <<Location(t), dest, m.ref>>))
  BY <1>1, <1>2, MatchHere
<1>4. pending.id = <<Location(t), dest, m.ref>>
  OBVIOUS
<1> HIDE DEF pending, m, dest
<1>5. DOMAIN sent' = Workers /\ \A u \in Workers : IsList(sent'[u])
  BY <1>2 DEF WorkInv
<1>6. /\ w[t].dups \in Nat /\ w[t].raced \in BOOLEAN /\ IsList(w[t].matched)
      /\ w[t].dests \ {dest} \subseteq DOMAIN Commands(t)
      /\ \A id \in Range(w[t].matched) : IdOK(t, id) /\ id \in DOMAIN mMatch
  BY <1>1 DEF Good, ThreadOK
<1>7. "write" \in Steps /\ "match" \in Steps
  BY DEF Steps
<1>8. CASE m = NoMatch /\ Becomes(t, "match", w[t].req, w[t].dests \ {dest}, w[t].pending,
                                   w[t].matched, w[t].dups, w[t].raced)
  BY <1>2, <1>3, <1>5, <1>6, <1>7, <1>8, WorkStep
<1>9. CASE m # NoMatch /\ Becomes(t, "write", w[t].req, w[t].dests \ {dest}, pending,
                                   w[t].matched, w[t].dups, w[t].raced)
  <2>1. IdOK(t, pending.id)
    BY <1>3, <1>4, <1>9
  <2> QED BY <1>2, <1>3, <1>5, <1>6, <1>7, <1>9, <2>1, WorkStep
<1> QED BY <1>2, <1>8, <1>9

LEMMA storeMatchWork ==
    ASSUME WorkInv, NEW t \in Workers, storeMatch(t)
    PROVE  WorkInv'
<1> DEFINE id == w[t].pending.id
           Hit(u) == u \in Writing(t, id) \/ (Unread(u) /\ id \in Range(w[u].matched))
<1>1. ThreadsOK /\ Good(t)
  BY WorkThreads DEF WorkInv
<1>2. /\ phase = "running" /\ w[t].pc = "write"
      /\ UNCHANGED <<scenario, phase, configVars, isRunning, counts, reported, sent>>
      /\ \E value : mMatch' = Assigned(mMatch, id, value)
      /\ DOMAIN w' = Workers /\ DOMAIN w'[t] = DOMAIN NewThread
      /\ w'[t].pc = "match" /\ w'[t].req = w[t].req /\ w'[t].dests = w[t].dests
      /\ w'[t].matched = Append(w[t].matched, id) /\ w'[t].dups = w[t].dups
      /\ w'[t].raced = Overlap(t)
      /\ \A u \in Workers \ {t} :
           w'[u] = IF Hit(u) THEN [w[u] EXCEPT !.raced = TRUE] ELSE w[u]
  BY <1>1, storeMatchStep
<1>3. IdOK(t, id) /\ w[t].req = Original(t)
  BY <1>1, <1>2 DEF Good
<1> HIDE DEF id, Hit
<1>4. DOMAIN mMatch' = DOMAIN mMatch \cup {id}
  BY <1>2 DEF Assigned
<1>5. IsList(Append(w[t].matched, id)) /\ Range(Append(w[t].matched, id)) = Range(w[t].matched) \cup {id}
  BY <1>1, AppendRule DEF Good, ThreadOK
<1>6. Overlap(t) \in BOOLEAN
  BY <1>1 DEF Overlap, Good, ThreadOK
<1>7. ThreadOK(w'[t])
  BY <1>1, <1>2, <1>5, <1>6 DEF Good, ThreadOK, Steps
<1>8. Good(t)'
  <2>1. Commands(t)' = Commands(t) /\ Original(t)' = Original(t)
    BY <1>2 DEF Commands, Location, Original, configVars
  <2>2. \A x : IdOK(t, x)' <=> IdOK(t, x)
    BY <1>2 DEF IdOK, Commands, Location, configVars
  <2>3. \A x \in Range(w'[t].matched) : IdOK(t, x) /\ x \in DOMAIN mMatch'
    BY <1>1, <1>2, <1>3, <1>4, <1>5 DEF Good
  <2>4. w'[t].pc = "match" /\ w'[t].req = Original(t) /\ w'[t].dests \subseteq DOMAIN Commands(t)
    BY <1>1, <1>2, <1>3 DEF Good
  <2>5. (w[t].pc = "write" => IdOK(t, w[t].pending.id))'
    BY <2>4
  <2> QED BY <1>7, <2>1, <2>2, <2>3, <2>4, <2>5 DEF Good
<1>9. ASSUME NEW u \in Workers \ {t} PROVE Good(u)'
  <2>1. Good(u) /\ DOMAIN w[u] = DOMAIN NewThread /\ w[u].raced \in BOOLEAN
    BY <1>9 DEF WorkInv, Good, ThreadOK
  <2>2. CASE ~Hit(u)
    BY <1>2, <1>4, <2>1, <2>2, GoodKept
  <2>3. CASE Hit(u)
    <3>1. w'[u] = [w[u] EXCEPT !.raced = TRUE]
      BY <1>2, <2>3
    <3>2. "raced" \in DOMAIN NewThread
      BY ThreadFields
    <3>3. /\ DOMAIN w'[u] = DOMAIN w[u] /\ w'[u].raced = TRUE
          /\ \A k \in DOMAIN NewThread \ {"raced"} : w'[u][k] = w[u][k]
      BY <2>1, <3>1, <3>2
    <3>4. w'[u].raced \in BOOLEAN
      BY <3>3, Zenon
    <3> QED BY <1>2, <1>4, <2>1, <3>3, <3>4, GoodKept
  <2> QED BY <2>2, <2>3
<1>10. DOMAIN sent' = Workers /\ \A u \in Workers : IsList(sent'[u])
  BY <1>2 DEF WorkInv
<1> QED BY <1>2, <1>8, <1>9, <1>10 DEF WorkInv

LEMMA addValidationHeadersDupWork ==
    ASSUME WorkInv, NEW t \in Workers, addValidationHeadersDup(t)
    PROVE  WorkInv'
<1> DEFINE raced == w[t].raced \/ \E id \in Range(w[t].matched) : Writing(t, id) # {}
           New(read) == [w[t].req EXCEPT !.mHeadersOut = Reported(@, w[t].matched, read)]
<1>1. ThreadsOK /\ Good(t)
  BY WorkThreads DEF WorkInv
<1>2. /\ phase = "running" /\ w[t].pc = "match" /\ w[t].dests = {}
      /\ UNCHANGED <<scenario, phase, configVars, mMatch, isRunning, counts, reported, sent>>
      /\ \E read : Becomes(t, "filter", New(read), w[t].dests, w[t].pending, w[t].matched, w[t].dups, raced)
  BY <1>1, addValidationHeadersDupStep
<1>3. raced \in BOOLEAN
  BY <1>1 DEF Good, ThreadOK
<1> HIDE DEF New, raced
<1>4. DOMAIN sent' = Workers /\ \A u \in Workers : IsList(sent'[u])
  BY <1>2 DEF WorkInv
<1>5. /\ w[t].dups \in Nat /\ IsList(w[t].matched) /\ w[t].dests \subseteq DOMAIN Commands(t)
      /\ \A id \in Range(w[t].matched) : IdOK(t, id) /\ id \in DOMAIN mMatch
  BY <1>1 DEF Good, ThreadOK
<1>6. "filter" \in Steps
  BY DEF Steps
<1>7. PICK read : Becomes(t, "filter", New(read), w[t].dests, w[t].pending, w[t].matched, w[t].dups, raced)
  BY <1>2
<1> QED BY <1>2, <1>3, <1>4, <1>5, <1>6, <1>7, WorkStep

\* What the loop over the matched filters may rely on.
LEMMA LoopOK ==
    ASSUME WorkInv, NEW t \in Workers, w[t].matched # <<>>
    PROVE  /\ ThreadsOK /\ Good(t) /\ DOMAIN w[t] = DOMAIN NewThread
           /\ w[t].dups \in Nat /\ w[t].raced \in BOOLEAN /\ IsList(w[t].matched)
           /\ w[t].dests \subseteq DOMAIN Commands(t)
           /\ \A id \in Range(w[t].matched) : IdOK(t, id) /\ id \in DOMAIN mMatch
           /\ IdOK(t, Head(w[t].matched)) /\ IsList(Tail(w[t].matched))
           /\ \A id \in Range(Tail(w[t].matched)) : IdOK(t, id) /\ id \in DOMAIN mMatch
<1>1. ThreadsOK /\ Good(t)
  BY WorkThreads DEF WorkInv
<1>2. /\ DOMAIN w[t] = DOMAIN NewThread
      /\ w[t].dups \in Nat /\ w[t].raced \in BOOLEAN /\ IsList(w[t].matched)
      /\ w[t].dests \subseteq DOMAIN Commands(t)
      /\ \A id \in Range(w[t].matched) : IdOK(t, id) /\ id \in DOMAIN mMatch
  BY <1>1 DEF Good, ThreadOK
<1> QED BY <1>1, <1>2, TailList

LEMMA nextFilterWork ==
    ASSUME WorkInv, DirectivesInv, TodoInv, NEW t \in Workers, nextFilter(t)
    PROVE  WorkInv'
<1>1. ThreadsOK /\ Good(t)
  BY WorkThreads DEF WorkInv
<1> DEFINE P == Commands(t)[FilterAt(t, Head(w[t].matched)).dest].mDuplicationPercentage
<1>2. /\ phase = "running" /\ w[t].pc = "filter"
      /\ UNCHANGED <<scenario, phase, configVars, mMatch, isRunning, counts, reported, sent>>
      /\ \/ /\ w[t].matched = <<>>
            /\ Becomes(t, "done", w[t].req, w[t].dests, w[t].pending, w[t].matched,
                       w[t].dups, w[t].raced)
         \/ /\ w[t].matched # <<>>
            /\ \E rand \in Rands : \E n :
                 /\ n = toDuplicateInt(P, rand)
                 /\ \/ n = 0 /\ Becomes(t, "filter", w[t].req, w[t].dests, w[t].pending,
                                        Tail(w[t].matched), w[t].dups, w[t].raced)
                    \/ n # 0 /\ Becomes(t, "curl", w[t].req, w[t].dests, w[t].pending,
                                        w[t].matched, n, w[t].raced)
  BY <1>1, nextFilterStep
<1>3. DOMAIN sent' = Workers /\ \A u \in Workers : IsList(sent'[u])
  BY <1>2 DEF WorkInv
<1>4. "filter" \in Steps /\ "curl" \in Steps /\ "done" \in Steps
  BY DEF Steps
<1>5. CASE w[t].matched = <<>>
  <2>1. /\ w[t].dups \in Nat /\ w[t].raced \in BOOLEAN /\ IsList(w[t].matched)
        /\ w[t].dests \subseteq DOMAIN Commands(t)
        /\ \A id \in Range(w[t].matched) : IdOK(t, id) /\ id \in DOMAIN mMatch
    BY <1>1 DEF Good, ThreadOK
  <2>2. Becomes(t, "done", w[t].req, w[t].dests, w[t].pending, w[t].matched, w[t].dups, w[t].raced)
    BY <1>2, <1>5
  <2> QED BY <1>2, <1>3, <1>4, <2>1, <2>2, WorkStep
<1>6. CASE w[t].matched # <<>>
  <2>1. IdOK(t, Head(w[t].matched))
    BY <1>6, LoopOK
  <2>2. P \in Nat
    BY <2>1, FilterAtOK
  <2> HIDE DEF P
  <2>3. PICK rand \in Rands : \E n :
                 /\ n = toDuplicateInt(P, rand)
                 /\ \/ n = 0 /\ Becomes(t, "filter", w[t].req, w[t].dests, w[t].pending,
                                        Tail(w[t].matched), w[t].dups, w[t].raced)
                    \/ n # 0 /\ Becomes(t, "curl", w[t].req, w[t].dests, w[t].pending,
                                        w[t].matched, n, w[t].raced)
    BY <1>2, <1>6
  <2>4. PICK n : /\ n = toDuplicateInt(P, rand)
                 /\ \/ n = 0 /\ Becomes(t, "filter", w[t].req, w[t].dests, w[t].pending,
                                        Tail(w[t].matched), w[t].dups, w[t].raced)
                    \/ n # 0 /\ Becomes(t, "curl", w[t].req, w[t].dests, w[t].pending,
                                        w[t].matched, n, w[t].raced)
    BY <2>3
  <2>5. n \in Nat
    BY <2>2, <2>4, toDuplicateIntType
  <2>6. CASE n = 0
    <3>1. Becomes(t, "filter", w[t].req, w[t].dests, w[t].pending, Tail(w[t].matched),
                  w[t].dups, w[t].raced)
      BY <2>4, <2>6
    <3>2. /\ w[t].dups \in Nat /\ w[t].raced \in BOOLEAN /\ IsList(Tail(w[t].matched))
          /\ w[t].dests \subseteq DOMAIN Commands(t)
          /\ \A id \in Range(Tail(w[t].matched)) : IdOK(t, id) /\ id \in DOMAIN mMatch
      BY <1>6, LoopOK
    <3> DEFINE rest == Tail(w[t].matched)
    <3> HIDE DEF rest
    <3> QED BY <1>2, <1>3, <1>4, <3>1, <3>2, WorkStep DEF rest
  <2>7. CASE n # 0
    <3>1. Becomes(t, "curl", w[t].req, w[t].dests, w[t].pending, w[t].matched, n, w[t].raced)
      BY <2>4, <2>7
    <3>2. /\ w[t].raced \in BOOLEAN /\ IsList(w[t].matched)
          /\ w[t].dests \subseteq DOMAIN Commands(t)
          /\ \A id \in Range(w[t].matched) : IdOK(t, id) /\ id \in DOMAIN mMatch
      BY <1>6, LoopOK
    <3> QED BY <1>2, <1>3, <1>4, <1>6, <2>5, <2>7, <3>1, <3>2, WorkStep
  <2> QED BY <2>6, <2>7
<1> QED BY <1>5, <1>6

LEMMA duplicateWork ==
    ASSUME WorkInv, NEW t \in Workers, duplicate(t)
    PROVE  WorkInv'
<1>1. ThreadsOK /\ Good(t)
  BY WorkThreads DEF WorkInv
<1>2. /\ phase = "running" /\ w[t].pc = "curl"
      /\ UNCHANGED <<scenario, phase, configVars, mMatch, isRunning, reported>>
      /\ \/ /\ Becomes(t, "count", w[t].req, w[t].dests, w[t].pending, w[t].matched,
                       w[t].dups, w[t].raced)
            /\ sent' = [sent EXCEPT ![t] = Append(@, Call(t))]
         \/ /\ Becomes(t, "filter", w[t].req, w[t].dests, w[t].pending, Tail(w[t].matched),
                       0, w[t].raced)
            /\ UNCHANGED <<sent, counts>>
  BY <1>1, duplicateStep
<1>3. w[t].matched # <<>> /\ w[t].dups # 0
  BY <1>1, <1>2 DEF Good
<1>4. DOMAIN sent' = Workers /\ \A u \in Workers : IsList(sent'[u])
  <2>1. CASE sent' = [sent EXCEPT ![t] = Append(@, Call(t))]
    <3> DEFINE call == Call(t)
    <3> HIDE DEF call
    <3>1. sent' = [sent EXCEPT ![t] = Append(sent[t], call)]
      BY <2>1 DEF call
    <3>2. IsList(Append(sent[t], call))
      BY AppendRule DEF WorkInv
    <3> QED BY <3>1, <3>2 DEF WorkInv
  <2>2. CASE sent' = sent
    BY <2>2 DEF WorkInv
  <2> QED BY <1>2, <2>1, <2>2
<1>5. "filter" \in Steps /\ "count" \in Steps /\ 0 \in Nat
  BY DEF Steps
<1>6. CASE Becomes(t, "count", w[t].req, w[t].dests, w[t].pending, w[t].matched, w[t].dups, w[t].raced)
  <2>1. /\ w[t].dups \in Nat /\ w[t].raced \in BOOLEAN /\ IsList(w[t].matched)
        /\ w[t].dests \subseteq DOMAIN Commands(t)
        /\ \A id \in Range(w[t].matched) : IdOK(t, id) /\ id \in DOMAIN mMatch
    BY <1>3, LoopOK
  <2> QED BY <1>2, <1>3, <1>4, <1>5, <1>6, <2>1, WorkStep
<1>7. CASE Becomes(t, "filter", w[t].req, w[t].dests, w[t].pending, Tail(w[t].matched), 0, w[t].raced)
  <2> DEFINE rest == Tail(w[t].matched)
  <2>1. /\ w[t].raced \in BOOLEAN /\ IsList(rest) /\ w[t].dests \subseteq DOMAIN Commands(t)
        /\ \A id \in Range(rest) : IdOK(t, id) /\ id \in DOMAIN mMatch
    BY <1>3, LoopOK
  <2>2. Becomes(t, "filter", w[t].req, w[t].dests, w[t].pending, rest, 0, w[t].raced)
    BY <1>7
  <2> HIDE DEF rest
  <2> QED BY <1>2, <1>4, <1>5, <2>1, <2>2, WorkStep
<1> QED BY <1>2, <1>6, <1>7

LEMMA countDuplicateWork ==
    ASSUME WorkInv, NEW t \in Workers, countDuplicate(t)
    PROVE  WorkInv'
<1>1. ThreadsOK /\ Good(t)
  BY WorkThreads DEF WorkInv
<1>2. /\ phase = "running" /\ w[t].pc = "count"
      /\ UNCHANGED <<scenario, phase, configVars, mMatch, isRunning, reported, sent>>
      /\ \/ w[t].dups = 1 /\ Becomes(t, "filter", w[t].req, w[t].dests, w[t].pending,
                                     Tail(w[t].matched), 0, w[t].raced)
         \/ w[t].dups # 1 /\ Becomes(t, "curl", w[t].req, w[t].dests, w[t].pending,
                                     w[t].matched, w[t].dups - 1, w[t].raced)
  BY <1>1, countDuplicateStep
<1>3. w[t].matched # <<>> /\ w[t].dups # 0 /\ w[t].dups \in Nat
  BY <1>1, <1>2 DEF Good, ThreadOK
<1>4. DOMAIN sent' = Workers /\ \A u \in Workers : IsList(sent'[u])
  BY <1>2 DEF WorkInv
<1>5. "filter" \in Steps /\ "curl" \in Steps /\ 0 \in Nat
  BY DEF Steps
<1>6. CASE w[t].dups # 1
  <2> DEFINE n == w[t].dups - 1
  <2>1. n \in Nat /\ n # 0
    BY <1>3, <1>6
  <2>2. Becomes(t, "curl", w[t].req, w[t].dests, w[t].pending, w[t].matched, n, w[t].raced)
    BY <1>2, <1>6
  <2> HIDE DEF n
  <2>3. /\ w[t].raced \in BOOLEAN /\ IsList(w[t].matched)
        /\ w[t].dests \subseteq DOMAIN Commands(t)
        /\ \A id \in Range(w[t].matched) : IdOK(t, id) /\ id \in DOMAIN mMatch
    BY <1>3, LoopOK
  <2> QED BY <1>2, <1>3, <1>4, <1>5, <2>1, <2>2, <2>3, WorkStep
<1>7. CASE w[t].dups = 1
  <2> DEFINE rest == Tail(w[t].matched)
  <2>1. /\ w[t].raced \in BOOLEAN /\ IsList(rest) /\ w[t].dests \subseteq DOMAIN Commands(t)
        /\ \A id \in Range(rest) : IdOK(t, id) /\ id \in DOMAIN mMatch
    BY <1>3, LoopOK
  <2>2. Becomes(t, "filter", w[t].req, w[t].dests, w[t].pending, rest, 0, w[t].raced)
    BY <1>2, <1>7
  <2> HIDE DEF rest
  <2> QED BY <1>2, <1>4, <1>5, <2>1, <2>2, WorkStep
<1> QED BY <1>6, <1>7

-----------------------------------------------------------------------------
\* The threads are well formed, and each filter that a thread has matched is one
\* of the request's location.
THEOREM WorkInvariant == Spec => []WorkInv
<1>1. Init => WorkInv
  <2> SUFFICES ASSUME Init PROVE WorkInv
    OBVIOUS
  <2>1. /\ phase = "config" /\ w = [t \in Workers |-> NewThread] /\ sent = [t \in Workers |-> <<>>]
    BY DEF Init
  <2>2. IsList(<<>>)
    BY DEF IsList
  <2>3. NewThread.pc = "idle" /\ NewThread.dests = {}
    BY DEF NewThread
  <2>4. \A t \in Workers : Good(t)
    BY <2>1, <2>3, NewThreadOK DEF Good
  <2> QED BY <2>1, <2>2, <2>4 DEF WorkInv
<1>2. WorkInv /\ DirectivesInv /\ TodoInv /\ [Next]_vars => WorkInv'
  <2> SUFFICES ASSUME WorkInv, DirectivesInv, TodoInv, [Next]_vars PROVE WorkInv'
    OBVIOUS
  <2>1. CASE \E t \in Workers : RunOne(t)
    BY <2>1, initiateDuplicationWork, matchDestinationWork, storeMatchWork,
       addValidationHeadersDupWork, nextFilterWork, duplicateWork, countDuplicateWork DEF RunOne
  <2>2. ASSUME phase \in {"config", "refused"}, phase' \in {"config", "refused", "running"},
               UNCHANGED <<w, sent>>
        PROVE  WorkInv'
    <3>1. /\ DOMAIN w' = Workers /\ DOMAIN sent' = Workers
          /\ \A t \in Workers : w'[t] = NewThread /\ sent'[t] = <<>>
      BY <2>2 DEF WorkInv
    <3>2. NewThread.pc = "idle" /\ NewThread.dests = {}
      BY DEF NewThread
    <3>3. \A t \in Workers : Good(t)'
      BY <3>1, <3>2, NewThreadOK DEF Good
    <3>4. IsList(<<>>)
      BY DEF IsList
    <3> QED BY <2>2, <3>1, <3>3, <3>4 DEF WorkInv
  <2>3. CASE ReadDirective \/ Start
    <3>1. phase = "config" /\ phase' \in {"config", "refused", "running"} /\ UNCHANGED <<w, sent>>
      BY <2>3, DirectiveRead DEF Start, workVars
    <3> QED BY <2>2, <3>1
  <2>4. ASSUME UNCHANGED <<scenario, phase, configVars, mMatch, w, sent>> PROVE WorkInv'
    <3>1. \A t \in Workers : Good(t)'
      BY <2>4, GoodKept DEF WorkInv, Good, ThreadOK
    <3> QED BY <2>4, <3>1 DEF WorkInv
  <2>5. CASE stop \/ (\E stat \in DOMAIN counts : getCount(stat)) \/ UNCHANGED vars
    BY <2>4, <2>5 DEF stop, getCount, vars, workVars
  <2> QED BY <2>1, <2>3, <2>5 DEF Next
<1> QED BY <1>1, <1>2, TodoInvariant, DirectivesInvariant, PTL DEF Spec

-----------------------------------------------------------------------------
(* The stat counts: what is reported, still to be reported, and about to   *)
(* be counted.                                                             *)

CountsOK ==
    /\ DOMAIN counts = {"duplicated", "timeout"} /\ DOMAIN reported = {"duplicated", "timeout", "lines"}
    /\ counts.duplicated \in Nat /\ counts.timeout \in Nat
    /\ reported.duplicated \in Nat /\ reported.timeout \in Nat
    /\ reported.lines \in 0 .. MaxReports

Counting == {t \in Workers : w[t].pc = "count"}
Counted == reported.duplicated + counts.duplicated

CountInv == CountsOK /\ IsFiniteSet(Calls) /\ DuplicatesCounted

LEMMA CountingFinite == IsFiniteSet(Counting) /\ Cardinality(Counting) \in Nat
BY DupProcessAssumption, FS_Subset, FS_CardinalityType DEF Counting

LEMMA CallsOf ==
    ASSUME NEW x
    PROVE  x \in Calls <=> \E t \in Workers : \E i \in DOMAIN sent[t] : x = <<t, i>>
BY DEF Calls

\* A step that sends nothing and counts nothing.
LEMMA CountKept ==
    ASSUME CountInv, UNCHANGED <<counts, reported, sent>>,
           \A t \in Workers : w'[t].pc = "count" <=> w[t].pc = "count"
    PROVE  CountInv'
<1>1. Counting' = Counting
  BY DEF Counting
<1>2. Calls' = Calls
  BY DEF Calls
<1>3. CountsOK'
  BY DEF CountInv, CountsOK
<1> QED BY <1>1, <1>2, <1>3 DEF CountInv, DuplicatesCounted, Counting

LEMMA duplicateCount ==
    ASSUME CountInv, WorkInv, NEW t \in Workers, duplicate(t)
    PROVE  CountInv'
<1>1. ThreadsOK
  BY WorkThreads
<1>2. /\ w[t].pc = "curl" /\ UNCHANGED reported
      /\ \/ /\ Becomes(t, "count", w[t].req, w[t].dests, w[t].pending, w[t].matched,
                       w[t].dups, w[t].raced)
            /\ sent' = [sent EXCEPT ![t] = Append(@, Call(t))]
            /\ \E n \in 0 .. 1 : counts' = [counts EXCEPT !.timeout = @ + n]
         \/ /\ Becomes(t, "filter", w[t].req, w[t].dests, w[t].pending, Tail(w[t].matched),
                       0, w[t].raced)
            /\ UNCHANGED <<sent, counts>>
  BY <1>1, duplicateStep
<1>3. CASE UNCHANGED <<sent, counts>> /\ w'[t].pc = "filter" /\ \A u \in Workers \ {t} : w'[u] = w[u]
  <2>1. \A u \in Workers : w'[u].pc = "count" <=> w[u].pc = "count"
    BY <1>2, <1>3
  <2> QED BY <1>2, <1>3, <2>1, CountKept
<1>4. CASE /\ w'[t].pc = "count" /\ \A u \in Workers \ {t} : w'[u] = w[u]
           /\ sent' = [sent EXCEPT ![t] = Append(@, Call(t))]
           /\ \E n \in 0 .. 1 : counts' = [counts EXCEPT !.timeout = @ + n]
  <2> DEFINE call == Call(t)
             x == <<t, Len(sent[t]) + 1>>
  <2> HIDE DEF call
  <2>1. /\ counts'.duplicated = counts.duplicated /\ counts'.timeout \in Nat
        /\ DOMAIN counts' = {"duplicated", "timeout"}
    <3>1. PICK n \in 0 .. 1 : counts' = [counts EXCEPT !.timeout = @ + n]
      BY <1>4
    <3> QED BY <3>1 DEF CountInv, CountsOK
  <2>2. CountsOK'
    BY <1>2, <2>1 DEF CountInv, CountsOK
  <2>3. Counting' = Counting \cup {t} /\ t \notin Counting
    BY <1>2, <1>4 DEF Counting
  <2>4. Cardinality(Counting') = Cardinality(Counting) + 1
    BY <2>3, CountingFinite, FS_AddElement
  <2>5. /\ DOMAIN sent' = Workers /\ sent'[t] = Append(sent[t], call)
        /\ \A u \in Workers \ {t} : sent'[u] = sent[u]
    BY <1>4 DEF WorkInv, call
  <2>6. /\ Len(sent[t]) \in Nat /\ DOMAIN sent[t] = 1 .. Len(sent[t])
        /\ DOMAIN Append(sent[t], call) = 1 .. Len(sent[t]) + 1
    <3>1. IsList(sent[t]) /\ IsList(Append(sent[t], call))
      BY AppendRule DEF WorkInv
    <3>2. Len(Append(sent[t], call)) = Len(sent[t]) + 1
      BY <3>1 DEF IsList
    <3> QED BY <3>1, <3>2, ListDomain
  <2>7. DOMAIN sent'[t] = DOMAIN sent[t] \cup {Len(sent[t]) + 1} /\ Len(sent[t]) + 1 \notin DOMAIN sent[t]
    BY <2>5, <2>6
  <2>8. x \notin Calls
    BY <2>7, CallsOf
  <2>9. Calls' = Calls \cup {x}
    <3>1. ASSUME NEW y PROVE y \in Calls' <=> \E u \in Workers : \E i \in DOMAIN sent'[u] : y = <<u, i>>
      BY DEF Calls
    <3>2. ASSUME NEW y \in Calls' PROVE y \in Calls \cup {x}
      <4>1. PICK u \in Workers : \E i \in DOMAIN sent'[u] : y = <<u, i>>
        BY <3>1, <3>2
      <4>2. PICK i \in DOMAIN sent'[u] : y = <<u, i>>
        BY <4>1
      <4>3. CASE u = t /\ i = Len(sent[t]) + 1
        BY <4>2, <4>3
      <4>4. CASE ~(u = t /\ i = Len(sent[t]) + 1)
        <5>1. i \in DOMAIN sent[u]
          BY <2>5, <2>7, <4>2, <4>4
        <5> QED BY <4>2, <5>1, CallsOf
      <4> QED BY <4>3, <4>4
    <3>3. ASSUME NEW y \in Calls PROVE y \in Calls'
      <4>1. PICK u \in Workers : \E i \in DOMAIN sent[u] : y = <<u, i>>
        BY <3>3, CallsOf
      <4>2. PICK i \in DOMAIN sent[u] : y = <<u, i>>
        BY <4>1
      <4>3. i \in DOMAIN sent'[u]
        BY <2>5, <2>7, <4>2
      <4> QED BY <3>1, <4>2, <4>3
    <3>4. x \in Calls'
      BY <2>7, <3>1
    <3> QED BY <3>2, <3>3, <3>4
  <2> HIDE DEF x
  <2>10. IsFiniteSet(Calls') /\ Cardinality(Calls') = Cardinality(Calls) + 1 /\ Cardinality(Calls) \in Nat
    BY <2>8, <2>9, FS_AddElement, FS_CardinalityType DEF CountInv
  <2>11. Counted' = Counted /\ Counted \in Nat
    BY <1>2, <2>1 DEF Counted, CountInv, CountsOK
  <2>12. Counted + Cardinality(Counting) = Cardinality(Calls)
    BY DEF CountInv, DuplicatesCounted, Counted, Counting
  <2>13. Counted' + Cardinality(Counting') = Cardinality(Calls')
    BY <2>4, <2>10, <2>11, <2>12, CountingFinite
  <2>14. DuplicatesCounted'
    BY <2>13 DEF DuplicatesCounted, Counted, Counting
  <2> QED BY <2>2, <2>10, <2>14 DEF CountInv
<1> QED BY <1>2, <1>3, <1>4 DEF Becomes

LEMMA countDuplicateCount ==
    ASSUME CountInv, WorkInv, NEW t \in Workers, countDuplicate(t)
    PROVE  CountInv'
<1>1. ThreadsOK
  BY WorkThreads
<1>2. /\ w[t].pc = "count" /\ UNCHANGED <<reported, sent>>
      /\ counts' = [counts EXCEPT !.duplicated = @ + 1]
      /\ w'[t].pc # "count" /\ \A u \in Workers \ {t} : w'[u] = w[u]
  BY <1>1, countDuplicateStep DEF Becomes
<1>3. Counting' = Counting \ {t} /\ t \in Counting
  BY <1>2 DEF Counting
<1>4. Cardinality(Counting') = Cardinality(Counting) - 1
  BY <1>3, CountingFinite, FS_RemoveElement
<1>5. CountsOK' /\ Counted' = Counted + 1 /\ Counted \in Nat
  BY <1>2 DEF CountInv, CountsOK, Counted
<1>6. Calls' = Calls
  BY <1>2 DEF Calls
<1>7. Counted + Cardinality(Counting) = Cardinality(Calls)
  BY DEF CountInv, DuplicatesCounted, Counted, Counting
<1>8. Counted' + Cardinality(Counting') = Cardinality(Calls')
  BY <1>4, <1>5, <1>6, <1>7, CountingFinite
<1>9. DuplicatesCounted'
  BY <1>8 DEF DuplicatesCounted, Counted, Counting
<1> QED BY <1>5, <1>6, <1>9 DEF CountInv

LEMMA getCountCount ==
    ASSUME CountInv, NEW stat \in DOMAIN counts, getCount(stat)
    PROVE  CountInv'
<1>0. reported.lines < MaxReports /\ MaxReports \in Nat
  <2>1. reported.lines < MaxReports
    BY DEF getCount
  <2> QED BY <2>1, DupProcessAssumption
<1>1. /\ UNCHANGED <<w, sent>>
      /\ reported' = [reported EXCEPT ![stat] = @ + counts[stat], !.lines = @ + 1]
      /\ counts' = [counts EXCEPT ![stat] = 0]
  BY DEF getCount
<1>2. stat \in {"duplicated", "timeout"}
  BY DEF CountInv, CountsOK
<1>3. CountsOK' /\ Counted' = Counted
  <2>1. CASE stat = "duplicated"
    <3>1. /\ reported' = [reported EXCEPT !.duplicated = @ + counts.duplicated, !.lines = @ + 1]
          /\ counts' = [counts EXCEPT !.duplicated = 0]
      BY <1>1, <2>1
    <3>2. /\ DOMAIN reported' = DOMAIN reported /\ DOMAIN counts' = DOMAIN counts
          /\ reported'.duplicated = reported.duplicated + counts.duplicated
          /\ reported'.timeout = reported.timeout /\ reported'.lines = reported.lines + 1
          /\ counts'.duplicated = 0 /\ counts'.timeout = counts.timeout
      BY <3>1 DEF CountInv, CountsOK
    <3>3. reported.lines < MaxReports /\ MaxReports \in Nat
      BY <1>0
    <3>4. DOMAIN counts' = {"duplicated", "timeout"} /\ DOMAIN reported' = {"duplicated", "timeout", "lines"}
      BY <3>2 DEF CountInv, CountsOK
    <3>5. CountsOK'
      BY <3>2, <3>3, <3>4 DEF CountInv, CountsOK
    <3> QED BY <3>2, <3>5 DEF CountInv, CountsOK, Counted
  <2>2. CASE stat = "timeout"
    <3>1. /\ reported' = [reported EXCEPT !.timeout = @ + counts.timeout, !.lines = @ + 1]
          /\ counts' = [counts EXCEPT !.timeout = 0]
      BY <1>1, <2>2
    <3>2. /\ DOMAIN reported' = DOMAIN reported /\ DOMAIN counts' = DOMAIN counts
          /\ reported'.timeout = reported.timeout + counts.timeout
          /\ reported'.duplicated = reported.duplicated /\ reported'.lines = reported.lines + 1
          /\ counts'.timeout = 0 /\ counts'.duplicated = counts.duplicated
      BY <3>1 DEF CountInv, CountsOK
    <3>3. reported.lines < MaxReports /\ MaxReports \in Nat
      BY <1>0
    <3>4. DOMAIN counts' = {"duplicated", "timeout"} /\ DOMAIN reported' = {"duplicated", "timeout", "lines"}
      BY <3>2 DEF CountInv, CountsOK
    <3>5. CountsOK'
      BY <3>2, <3>3, <3>4 DEF CountInv, CountsOK
    <3> QED BY <3>2, <3>5 DEF CountInv, CountsOK, Counted
  <2> QED BY <1>2, <2>1, <2>2
<1>4. Counting' = Counting /\ Calls' = Calls
  BY <1>1 DEF Counting, Calls
<1>5. DuplicatesCounted'
  BY <1>3, <1>4 DEF CountInv, DuplicatesCounted, Counted, Counting
<1> QED BY <1>3, <1>4, <1>5 DEF CountInv

\* The other steps of runOne: no thread starts or ends to count.
LEMMA OtherCount ==
    ASSUME CountInv, WorkInv, NEW t \in Workers,
           \/ initiateDuplication(t) \/ matchDestination(t) \/ storeMatch(t)
           \/ addValidationHeadersDup(t) \/ nextFilter(t)
    PROVE  CountInv'
<1> DEFINE Keeps == /\ UNCHANGED <<counts, reported, sent>>
                    /\ \A u \in Workers : w'[u].pc = "count" <=> w[u].pc = "count"
<1>1. ThreadsOK
  BY WorkThreads
<1>2. ASSUME NEW pc, NEW req, NEW dests, NEW pending, NEW matched, NEW dups, NEW raced,
             Becomes(t, pc, req, dests, pending, matched, dups, raced),
             w[t].pc # "count", pc # "count"
      PROVE  \A u \in Workers : w'[u].pc = "count" <=> w[u].pc = "count"
  BY <1>2 DEF Becomes
<1>3. initiateDuplication(t) => Keeps
  <2> HAVE initiateDuplication(t)
  <2>1. CASE w' = w
    BY <1>1, <2>1, initiateDuplicationStep
  <2>2. CASE w' # w
    BY <1>1, <1>2, <2>2, initiateDuplicationStep
  <2> QED BY <2>1, <2>2
<1>4. matchDestination(t) => Keeps
  BY <1>1, <1>2, matchDestinationStep
<1>5. storeMatch(t) => Keeps
  <2> HAVE storeMatch(t)
  <2> DEFINE id == w[t].pending.id
             Hit(u) == u \in Writing(t, id) \/ (Unread(u) /\ id \in Range(w[u].matched))
  <2>1. /\ w[t].pc = "write" /\ UNCHANGED <<counts, reported, sent>> /\ w'[t].pc = "match"
        /\ \A u \in Workers \ {t} :
                w'[u] = IF Hit(u) THEN [w[u] EXCEPT !.raced = TRUE] ELSE w[u]
    BY <1>1, storeMatchStep
  <2> HIDE DEF Hit
  <2>2. ASSUME NEW u \in Workers \ {t} PROVE w'[u].pc = w[u].pc
    <3>1. "pc" \in DOMAIN w[u]
      BY <1>1, ThreadFields DEF ThreadsOK, ThreadOK
    <3>2. CASE w'[u] = [w[u] EXCEPT !.raced = TRUE]
      BY <3>1, <3>2
    <3> QED BY <2>1, <3>2
  <2> QED BY <2>1, <2>2
<1>6. addValidationHeadersDup(t) => Keeps
  <2> HAVE addValidationHeadersDup(t)
  <2>1. w[t].pc = "match" /\ UNCHANGED <<counts, reported, sent>>
    BY <1>1, addValidationHeadersDupStep
  <2>2. w'[t].pc = "filter" /\ \A u \in Workers \ {t} : w'[u] = w[u]
    BY <1>1, addValidationHeadersDupStep DEF Becomes
  <2> QED BY <2>1, <2>2
<1>7. nextFilter(t) => Keeps
  <2> HAVE nextFilter(t)
  <2>1. w[t].pc = "filter" /\ UNCHANGED <<counts, reported, sent>>
    BY <1>1, nextFilterStep
  <2>2. w'[t].pc # "count" /\ \A u \in Workers \ {t} : w'[u] = w[u]
    BY <1>1, nextFilterStep DEF Becomes
  <2> QED BY <2>1, <2>2
<1>8. Keeps
  BY <1>3, <1>4, <1>5, <1>6, <1>7
<1> QED BY <1>8, CountKept

\* The stat lines and the counts add up to the duplicates sent, but for those of
\* the threads that are about to count theirs.
THEOREM CountInvariant == Spec => []CountInv
<1>1. Init => CountInv
  <2> SUFFICES ASSUME Init PROVE CountInv
    OBVIOUS
  <2>1. /\ counts = [duplicated |-> 0, timeout |-> 0]
        /\ reported = [duplicated |-> 0, timeout |-> 0, lines |-> 0]
    BY DEF Init
  <2>2. CountsOK
    BY <2>1, DupProcessAssumption DEF CountsOK
  <2>3. Counting = {}
    <3>1. \A t \in Workers : w[t].pc = "idle"
      BY DEF Init, NewThread
    <3> QED BY <3>1 DEF Counting
  <2>4. Calls = {}
    <3>1. \A t \in Workers : DOMAIN sent[t] = {}
      BY DEF Init
    <3>2. \A x : x \notin Calls
      BY <3>1, CallsOf
    <3> QED BY <3>2
  <2>5. reported.duplicated + counts.duplicated = 0
    BY <2>1
  <2>6. DuplicatesCounted
    BY <2>3, <2>4, <2>5, FS_EmptySet DEF DuplicatesCounted, Counting
  <2> QED BY <2>2, <2>4, <2>6, FS_EmptySet DEF CountInv
<1>2. CountInv /\ WorkInv /\ [Next]_vars => CountInv'
  <2> SUFFICES ASSUME CountInv, WorkInv, [Next]_vars PROVE CountInv'
    OBVIOUS
  <2>1. CASE \E t \in Workers : RunOne(t)
    <3>1. PICK t \in Workers : RunOne(t)
      BY <2>1
    <3> QED BY <3>1, OtherCount, duplicateCount, countDuplicateCount DEF RunOne
  <2>2. CASE \E stat \in DOMAIN counts : getCount(stat)
    BY <2>2, getCountCount
  <2>3. CASE ReadDirective \/ Start \/ stop \/ UNCHANGED vars
    <3>1. UNCHANGED <<counts, reported, sent, w>>
      BY <2>3, DirectiveRead DEF Start, stop, vars, workVars
    <3> QED BY <3>1, CountKept
  <2> QED BY <2>1, <2>2, <2>3 DEF Next
<1> QED BY <1>1, <1>2, WorkInvariant, PTL DEF Spec

\* No duplicate is lost from or repeated in the stat lines, although the counts
\* are read and reset while other threads increment them.
THEOREM DuplicatesAreCounted == Spec => []DuplicatesCounted
<1>1. CountInv => DuplicatesCounted
  BY DEF CountInv
<1> QED BY <1>1, CountInvariant, PTL

\* Every step keeps the types, in any order of directives and threads.
THEOREM TypeCorrect == Spec => []TypeOK
<1>1. WorkInv /\ DirectivesInv /\ CountInv => TypeOK
  <2> SUFFICES ASSUME WorkInv, DirectivesInv, CountInv PROVE TypeOK
    OBVIOUS
  <2>1. ASSUME NEW t \in Workers
        PROVE  /\ w[t].pc \in Steps /\ w[t].dups \in Nat /\ w[t].raced \in BOOLEAN
               /\ w[t].dests \subseteq DOMAIN Commands(t)
               /\ Range(w[t].matched) \subseteq DOMAIN mMatch
    BY <2>1 DEF WorkInv, Good, ThreadOK
  <2>2. Types \subseteq Range(DuplicationType)
    <3>1. ASSUME NEW i \in Types PROVE \E k \in DOMAIN DuplicationType : DuplicationType[k] = i
      BY <3>1 DEF Types, DuplicationType
    <3> QED BY <3>1 DEF Range
  <2>3. ASSUME NEW l \in Locations
        PROVE  /\ {conf[l].type, conf[l].highest} \subseteq Range(DuplicationType)
               /\ conf[l].currentApplicationScope \in Range(stringToEnum)
               /\ DOMAIN mCommands[l] \subseteq Range(DestOrder)
    BY <2>2, <2>3 DEF DirectivesInv, ConfOK, CommandsOK, Scopes, Destinations
  <2>4. /\ {counts.duplicated, counts.timeout, reported.duplicated, reported.timeout} \subseteq Nat
        /\ reported.lines \in 0 .. MaxReports
    BY DEF CountInv, CountsOK
  <2> QED BY <2>1, <2>3, <2>4 DEF TypeOK, WorkInv
<1> QED BY <1>1, WorkInvariant, DirectivesInvariant, CountInvariant, PTL

-----------------------------------------------------------------------------
(* The pattern that is reported was found in the request.                  *)

\* f holds the first m steps of FlattenSeq.
Flattens(f, s, m) == f = [i \in 1 .. m |-> IF i = 1 THEN s[i] ELSE f[i - 1] \o s[i]]
CanFlatten(s, m) == \E f : Flattens(f, s, m)

\* The recursion of FlattenSeq is defined, by its least number of steps that is not.
LEMMA FlattenIs ==
    ASSUME NEW s, IsList(s)
    PROVE  \E f : Flattens(f, s, Len(s)) /\ FlattenSeq(s) = IF Len(s) = 0 THEN s ELSE f[Len(s)]
<1> DEFINE n == Len(s)
           G == CHOOSE f : Flattens(f, s, n)
<1>1. n \in Nat /\ DOMAIN s = 1 .. n
  BY ListDomain
<1> HIDE DEF n
<1>2. \A m \in 0 .. n : CanFlatten(s, m)
  <2> DEFINE S == {m \in 0 .. n : ~CanFlatten(s, m)}
  <2>1. SUFFICES ASSUME S # {} PROVE FALSE
    OBVIOUS
  <2>2. PICK m \in S : \A x \in S : m <= x
    <3>1. S \in SUBSET Nat
      BY <1>1
    <3> HIDE DEF S
    <3> QED BY <2>1, <3>1, MinIn
  <2>3. m # 0
    <3>1. Flattens([i \in 1 .. 0 |-> i], s, 0)
      BY DEF Flattens
    <3> QED BY <2>2, <3>1 DEF CanFlatten
  <2>4. m - 1 \in 0 .. n /\ m - 1 \notin S /\ m \in Nat
    BY <1>1, <2>2, <2>3
  <2>5. PICK f : Flattens(f, s, m - 1)
    BY <2>4 DEF CanFlatten
  <2> DEFINE g == [i \in 1 .. m |-> IF i < m THEN f[i] ELSE IF i = 1 THEN s[i] ELSE f[i - 1] \o s[i]]
  <2>6. ASSUME NEW i \in 1 .. m PROVE g[i] = IF i = 1 THEN s[i] ELSE g[i - 1] \o s[i]
    <3>1. i = 1 \/ (i - 1 \in 1 .. m /\ i - 1 < m)
      BY <2>4, <2>6
    <3>2. i = 1 \/ g[i - 1] = f[i - 1]
      BY <3>1
    <3>3. CASE i < m
      <4>1. i \in 1 .. m - 1 /\ g[i] = f[i]
        BY <2>4, <3>3
      <4>2. f[i] = IF i = 1 THEN s[i] ELSE f[i - 1] \o s[i]
        BY <2>5, <4>1 DEF Flattens
      <4> QED BY <3>2, <4>1, <4>2
    <3>4. CASE ~(i < m)
      <4>1. g[i] = IF i = 1 THEN s[i] ELSE f[i - 1] \o s[i]
        BY <3>4
      <4> QED BY <3>2, <4>1
    <3> QED BY <3>3, <3>4
  <2>7. DOMAIN g = 1 .. m
    OBVIOUS
  <2>8. Flattens(g, s, m)
    <3>1. g = [i \in 1 .. m |-> g[i]]
      BY <2>7
    <3> HIDE DEF g
    <3> QED BY <2>6, <3>1 DEF Flattens
  <2> HIDE DEF g
  <2> QED BY <2>2, <2>8 DEF CanFlatten
<1>3. Flattens(G, s, n)
  <2>1. \E f : Flattens(f, s, n)
    BY <1>1, <1>2 DEF CanFlatten
  <2> QED BY <2>1
<1> HIDE DEF G
<1>4. FlattenSeq(s) = IF n = 0 THEN s ELSE G[n]
  BY DEF FlattenSeq, G, n, Flattens
<1> QED BY <1>3, <1>4 DEF n

\* The text of the headers is a sequence, so that the first match is in it: no
\* first step of FlattenSeq leaves the lists.
LEMMA FlattenList ==
    ASSUME NEW s, IsList(s), \A i \in DOMAIN s : IsList(s[i])
    PROVE  IsList(FlattenSeq(s))
<1> DEFINE n == Len(s)
<1>1. n \in Nat /\ DOMAIN s = 1 .. n
  BY ListDomain
<1>2. PICK G : Flattens(G, s, n) /\ FlattenSeq(s) = IF n = 0 THEN s ELSE G[n]
  BY FlattenIs
<1> HIDE DEF n
<1>3. Flattens(G, s, n) /\ FlattenSeq(s) = IF n = 0 THEN s ELSE G[n]
  BY <1>2
<1>4. \A i \in 1 .. n : G[i] = IF i = 1 THEN s[i] ELSE G[i - 1] \o s[i]
  BY <1>3 DEF Flattens
<1>5. \A i \in 1 .. n : IsList(G[i])
  <2> DEFINE S == {i \in 1 .. n : ~IsList(G[i])}
  <2>1. SUFFICES ASSUME S # {} PROVE FALSE
    OBVIOUS
  <2>2. PICK i \in S : \A x \in S : i <= x
    <3>1. S \in SUBSET Nat
      BY <1>1
    <3> HIDE DEF S
    <3> QED BY <2>1, <3>1, MinIn
  <2>3. i \in 1 .. n /\ ~IsList(G[i]) /\ IsList(s[i])
    BY <1>1, <2>2
  <2>4. CASE i = 1
    BY <1>4, <2>3, <2>4
  <2>5. CASE i # 1
    <3>1. i - 1 \in 1 .. n /\ i - 1 \notin S
      BY <1>1, <2>2, <2>3, <2>5
    <3>2. IsList(G[i - 1])
      BY <3>1
    <3>3. IsList(G[i - 1] \o s[i])
      BY <2>3, <3>2, ConcatList
    <3> QED BY <1>4, <2>3, <2>5, <3>3
  <2> QED BY <2>4, <2>5
<1> QED BY <1>1, <1>3, <1>5

LEMMA ElementType ==
    ASSUME NEW S, NEW s \in Seq(S), NEW i \in DOMAIN s
    PROVE  s[i] \in S
OBVIOUS

LEMMA SingleList ==
    ASSUME NEW x
    PROVE  IsList(<<x>>) /\ Range(<<x>>) = {x}
BY DEF IsList, Range

LEMMA PartList ==
    ASSUME TodoInv, NEW t \in Workers, NEW part \in Range(RawParts)
    PROVE  IsList(PartText(Original(t), part))
<1> DEFINE r == scenario.requests[t].info
           o == Original(t)
<1>1. r \in RequestInfo
  BY LocationOK
<1>2. /\ {"mMethod", "mPath", "mArgs", "mBody", "mHeadersIn"} \subseteq DOMAIN r \ {"mParsedArgs"}
      /\ r.mMethod \in Text /\ r.mPath \in Text /\ r.mArgs \in Text /\ r.mBody \in Text
      /\ r.mHeadersIn \in KeyValList
  BY <1>1 DEF RequestInfo
<1>3. \A k \in DOMAIN r \ {"mParsedArgs"} : o[k] = r[k]
  BY OriginalFields
<1> HIDE DEF r, o
<1>4. /\ o.mMethod \in Text /\ o.mPath \in Text /\ o.mArgs \in Text /\ o.mBody \in Text
      /\ o.mHeadersIn \in KeyValList
  BY <1>2, <1>3
<1> DEFINE keyVals == o.mHeadersIn
           lines == [i \in DOMAIN keyVals |-> keyVals[i].key \o <<": ">> \o keyVals[i].val]
<1>5. IsList(flatten(keyVals))
  <2>1. keyVals \in KeyValList
    BY <1>4
  <2> HIDE DEF keyVals
  <2>2. Len(keyVals) \in Nat /\ DOMAIN keyVals = 1 .. Len(keyVals)
    BY <2>1 DEF KeyValList
  <2>3. ASSUME NEW i \in DOMAIN keyVals PROVE IsList(lines[i])
    <3> DEFINE kv == keyVals[i]
    <3>0. kv \in [key : Text, val : Text]
      BY <2>1, <2>3, ElementType DEF KeyValList
    <3> HIDE DEF kv
    <3>1. kv.key \in Text /\ kv.val \in Text
      BY <3>0
    <3>2. IsList(kv.key \o <<": ">> \o kv.val)
      <4>1. IsList(kv.key) /\ IsList(kv.val)
        BY <3>1, SeqList DEF Text
      <4>2. IsList(<<": ">>)
        BY SingleList
      <4> QED BY <4>1, <4>2, ConcatList
    <3>3. lines[i] = kv.key \o <<": ">> \o kv.val
      BY <2>3 DEF kv
    <3> QED BY <3>2, <3>3
  <2>4. lines = [i \in 1 .. Len(keyVals) |-> lines[i]] /\ DOMAIN lines = DOMAIN keyVals
    BY <2>2
  <2>5. FlattenSeq(lines) = flatten(keyVals)
    BY DEF flatten
  <2> HIDE DEF lines
  <2>6. IsList(lines)
    BY <2>2, <2>4, ListOf
  <2> QED BY <2>3, <2>4, <2>5, <2>6, FlattenList
<1>6. /\ IsList(o.mMethod) /\ IsList(o.mPath) /\ IsList(o.mArgs) /\ IsList(o.mBody)
  BY <1>4, SeqList DEF Text
<1>7. part \in {"METHOD", "PATH", "QUERY_STRING", "HEADERS", "BODY"}
  BY DEF Range, RawParts
<1> QED BY <1>5, <1>6, <1>7 DEF PartText, o

LEMMA MatchInText ==
    ASSUME TodoInv, NEW t \in Workers, NEW match, MatchIn(Original(t), match)
    PROVE  \/ match = <<"regex">>
           \/ \E part \in Range(RawParts) : Range(match) \subseteq Range(PartText(Original(t), part))
<1>1. CASE match # <<"regex">>
  <2>1. PICK part \in Range(RawParts) : \E re : /\ match = FirstMatch(PartText(Original(t), part), re)
                                                /\ regex_search(PartText(Original(t), part), re)
    BY <1>1 DEF MatchIn
  <2> DEFINE text == PartText(Original(t), part)
  <2>2. IsList(text)
    BY PartList
  <2>3. PICK re : match = FirstMatch(text, re) /\ regex_search(text, re)
    BY <2>1
  <2> HIDE DEF text
  <2>4. Len(text) \in Nat /\ DOMAIN text = 1 .. Len(text)
    BY <2>2, ListDomain
  <2> DEFINE S == {i \in 1 .. Len(text) : text[i] \in re}
             k == IF S # {} THEN Min(S) ELSE 0
  <2>5. match = <<text[k]>>
    BY <2>3 DEF FirstMatch, SelectInSeq
  <2>6. S # {} /\ S \in SUBSET Nat
    BY <2>3, <2>4 DEF regex_search
  <2>7. k \in S
    <3> HIDE DEF S
    <3> QED BY <2>6, MinIn
  <2>8. k \in DOMAIN text
    BY <2>4, <2>7
  <2> HIDE DEF k
  <2>9. Range(match) \subseteq Range(text)
    BY <2>5, <2>8 DEF Range
  <2> QED BY <2>9 DEF text
<1> QED BY <1>1

PatternsFound(t) ==
    \A h \in Range(w[t].req.mHeadersOut) \ Range(Original(t).mHeadersOut) :
        h.key = <<"X-MATCHED-PATTERN">> => MatchIn(Original(t), h.val)

\* What a thread has found is its own, and as long as no other thread touched the
\* shared strings they hold what it found.
PatternOK(t) ==
    /\ w[t].pc = "idle" => Range(w[t].matched) = {}
    /\ w[t].pc = "write" => MatchIn(Original(t), w[t].pending.match)
    /\ ~w[t].raced =>
        /\ Unread(t) => \A id \in Range(w[t].matched) : MatchIn(Original(t), mMatch[id])
        /\ w[t].pc \in {"filter", "curl", "count", "done"} => PatternsFound(t)

PatternInv == \A t \in Workers : PatternOK(t)

LEMMA PatternKept ==
    ASSUME NEW u \in Workers, PatternOK(u), UNCHANGED <<scenario, configVars, mMatch>>, w'[u] = w[u]
    PROVE  PatternOK(u)'
<1>1. Original(u)' = Original(u) /\ Unread(u)' = Unread(u)
  BY DEF Original, Unread, configVars
<1>2. PatternsFound(u)' = PatternsFound(u)
  BY <1>1 DEF PatternsFound
<1>3. \A m : MatchIn(Original(u), m)' <=> MatchIn(Original(u), m)
  BY <1>1 DEF MatchIn
<1>4. mMatch' = mMatch
  OBVIOUS
<1> HIDE DEF configVars
<1>5. (w[u].pc = "write" => MatchIn(Original(u), w[u].pending.match))'
  BY <1>1 DEF PatternOK, MatchIn
<1>6. (Unread(u) => \A id \in Range(w[u].matched) : MatchIn(Original(u), mMatch[id]))'
       <=> (Unread(u) => \A id \in Range(w[u].matched) : MatchIn(Original(u), mMatch[id]))
  BY <1>1, <1>4 DEF MatchIn
<1> QED BY <1>1, <1>2, <1>5, <1>6 DEF PatternOK

\* A step of thread t that leaves mMatch, and its fields afterwards.
LEMMA PatternStep ==
    ASSUME PatternInv, NEW t \in Workers, UNCHANGED <<scenario, configVars, mMatch>>,
           NEW pc, NEW req, NEW dests, NEW pending, NEW matched, NEW dups, NEW raced,
           Becomes(t, pc, req, dests, pending, matched, dups, raced), pc # "idle",
           pc = "write" => MatchIn(Original(t), pending.match),
           ~raced /\ pc \in {"match", "write"} =>
                \A id \in Range(matched) : MatchIn(Original(t), mMatch[id]),
           ~raced /\ pc \in {"filter", "curl", "count", "done"} =>
                \A h \in Range(req.mHeadersOut) \ Range(Original(t).mHeadersOut) :
                    h.key = <<"X-MATCHED-PATTERN">> => MatchIn(Original(t), h.val)
    PROVE  PatternInv'
<1>1. /\ \A u \in Workers \ {t} : w'[u] = w[u]
      /\ w'[t].pc = pc /\ w'[t].req = req /\ w'[t].pending = pending
      /\ w'[t].matched = matched /\ w'[t].raced = raced
  BY DEF Becomes
<1>2. \A u \in Workers \ {t} : PatternOK(u)'
  BY <1>1, PatternKept DEF PatternInv
<1>3. Original(t)' = Original(t) /\ mMatch' = mMatch
  BY DEF Original, configVars
<1>4. (Unread(t) <=> w[t].pc \in {"match", "write"})'
  BY DEF Unread
<1>5. (w[t].pc = "write" => MatchIn(Original(t), w[t].pending.match))'
  BY <1>1, <1>3 DEF MatchIn
<1>6. ~raced => (Unread(t) => \A id \in Range(w[t].matched) : MatchIn(Original(t), mMatch[id]))'
  BY <1>1, <1>3, <1>4 DEF MatchIn
<1>7. ~raced /\ pc \in {"filter", "curl", "count", "done"} => PatternsFound(t)'
  BY <1>1, <1>3 DEF PatternsFound, MatchIn
<1>8. PatternOK(t)'
  BY <1>1, <1>5, <1>6, <1>7 DEF PatternOK
<1> QED BY <1>2, <1>8 DEF PatternInv

LEMMA initiateDuplicationPattern ==
    ASSUME PatternInv, WorkInv, NEW t \in Workers, initiateDuplication(t)
    PROVE  PatternInv'
<1>1. ThreadsOK
  BY WorkThreads
<1>2. /\ w[t].pc = "idle" /\ UNCHANGED <<scenario, configVars, mMatch>>
      /\ \/ w' = w
         \/ Becomes(t, "declined", w[t].req, w[t].dests, w[t].pending, w[t].matched,
                    w[t].dups, w[t].raced)
         \/ Becomes(t, "match", Original(t), DOMAIN Commands(t), w[t].pending,
                    w[t].matched, w[t].dups, w[t].raced)
  BY <1>1, initiateDuplicationStep
<1>3. Range(w[t].matched) = {}
  BY <1>2 DEF PatternInv, PatternOK
<1>4. CASE w' = w
  BY <1>2, <1>4, PatternKept DEF PatternInv
<1>5. CASE Becomes(t, "declined", w[t].req, w[t].dests, w[t].pending, w[t].matched,
                   w[t].dups, w[t].raced)
  BY <1>2, <1>5, PatternStep
<1>6. CASE Becomes(t, "match", Original(t), DOMAIN Commands(t), w[t].pending,
                    w[t].matched, w[t].dups, w[t].raced)
  BY <1>2, <1>3, <1>6, PatternStep
<1> QED BY <1>2, <1>4, <1>5, <1>6

LEMMA matchDestinationPattern ==
    ASSUME PatternInv, WorkInv, DirectivesInv, TodoInv, NEW t \in Workers, matchDestination(t)
    PROVE  PatternInv'
<1> DEFINE dest == NextOf(w[t].dests)
           m == matchesFilter(server.codec, Commands(t)[dest], w[t].req)
           pending == [id |-> <<Location(t), dest, m.ref>>, match |-> m.match]
<1>1. ThreadsOK /\ Good(t)
  BY WorkThreads DEF WorkInv
<1>2. /\ w[t].pc = "match" /\ w[t].dests # {} /\ UNCHANGED <<scenario, configVars, mMatch>>
      /\ \/ m = NoMatch /\ Becomes(t, "match", w[t].req, w[t].dests \ {dest}, w[t].pending,
                                   w[t].matched, w[t].dups, w[t].raced)
         \/ m # NoMatch /\ Becomes(t, "write", w[t].req, w[t].dests \ {dest}, pending,
                   w[t].matched, w[t].dups, w[t].raced)
  BY <1>1, matchDestinationStep
<1>3. m # NoMatch => MatchIn(Original(t), m.match)
  BY <1>1, <1>2, MatchHere
<1>4. pending.match = m.match
  OBVIOUS
<1>5. ~w[t].raced => \A id \in Range(w[t].matched) : MatchIn(Original(t), mMatch[id])
  BY <1>2 DEF PatternInv, PatternOK, Unread
<1> HIDE DEF pending, m, dest
<1>6. CASE m = NoMatch /\ Becomes(t, "match", w[t].req, w[t].dests \ {dest}, w[t].pending,
                                   w[t].matched, w[t].dups, w[t].raced)
  BY <1>2, <1>5, <1>6, PatternStep
<1>7. CASE m # NoMatch /\ Becomes(t, "write", w[t].req, w[t].dests \ {dest}, pending,
                                   w[t].matched, w[t].dups, w[t].raced)
  BY <1>2, <1>3, <1>4, <1>5, <1>7, PatternStep
<1> QED BY <1>2, <1>6, <1>7

\* The only step that writes a string another thread may have matched.
LEMMA storeMatchPattern ==
    ASSUME PatternInv, WorkInv, NEW t \in Workers, storeMatch(t)
    PROVE  PatternInv'
<1> DEFINE id == w[t].pending.id
           Hit(u) == u \in Writing(t, id) \/ (Unread(u) /\ id \in Range(w[u].matched))
<1>1. ThreadsOK /\ Good(t)
  BY WorkThreads DEF WorkInv
<1>2. /\ w[t].pc = "write" /\ UNCHANGED <<scenario, configVars>>
      /\ \E value : /\ mMatch' = Assigned(mMatch, id, value)
                    /\ ~Overlap(t) => value = w[t].pending.match
      /\ w'[t].pc = "match" /\ w'[t].matched = Append(w[t].matched, id)
      /\ w'[t].raced = Overlap(t)
      /\ \A u \in Workers \ {t} :
           w'[u] = IF Hit(u) THEN [w[u] EXCEPT !.raced = TRUE] ELSE w[u]
  BY <1>1, storeMatchStep
<1>3. PICK value : mMatch' = Assigned(mMatch, id, value) /\ (~Overlap(t) => value = w[t].pending.match)
  BY <1>2
<1>4. MatchIn(Original(t), w[t].pending.match)
  BY <1>2 DEF PatternInv, PatternOK
<1> HIDE DEF id
<1>5. mMatch'[id] = value /\ \A x \in DOMAIN mMatch : x # id => mMatch'[x] = mMatch[x]
  BY <1>3 DEF Assigned
<1>6. \A u \in Workers : Original(u)' = Original(u)
  BY <1>2 DEF Original, configVars
<1>7. PatternOK(t)'
  <2>1. Range(w'[t].matched) = Range(w[t].matched) \cup {id}
    BY <1>1, <1>2, AppendRule DEF Good, ThreadOK
  <2>2. ASSUME ~w'[t].raced, NEW x \in Range(w'[t].matched) PROVE MatchIn(Original(t), mMatch'[x])
    <3>1. ~Overlap(t) /\ ~w[t].raced
      BY <1>2, <2>2 DEF Overlap
    <3>2. CASE x = id
      BY <1>3, <1>4, <1>5, <3>1, <3>2
    <3>3. CASE x # id
      <4>1. x \in Range(w[t].matched) /\ x \in DOMAIN mMatch
        BY <1>1, <2>1, <2>2, <3>3 DEF Good
      <4>2. MatchIn(Original(t), mMatch[x])
        BY <1>2, <3>1, <4>1 DEF PatternInv, PatternOK, Unread
      <4> QED BY <1>5, <3>3, <4>1, <4>2
    <3> QED BY <3>2, <3>3
  <2>3. ~w'[t].raced => (\A x \in Range(w[t].matched) : MatchIn(Original(t), mMatch[x]))'
    BY <1>6, <2>2 DEF MatchIn
  <2> QED BY <1>2, <2>3 DEF PatternOK
<1>8. ASSUME NEW u \in Workers \ {t} PROVE PatternOK(u)'
  <2>1. DOMAIN w[u] = {"pc", "req", "dests", "pending", "matched", "dups", "raced"}
    BY <1>1, ThreadFields DEF ThreadsOK, ThreadOK
  <2>2. PatternOK(u) /\ Good(u)
    BY DEF PatternInv, WorkInv
  <2>3. CASE Hit(u)
    <3>1. w'[u] = [w[u] EXCEPT !.raced = TRUE]
      BY <1>2, <2>3
    <3>2. w'[u].raced /\ w'[u].pc = w[u].pc /\ w'[u].matched = w[u].matched /\ w'[u].pending = w[u].pending
      BY <2>1, <3>1
    <3>3. (w[u].pc = "write" => MatchIn(Original(u), w[u].pending.match))'
      BY <1>6, <2>2, <3>2 DEF PatternOK, MatchIn
    <3> QED BY <2>2, <3>2, <3>3 DEF PatternOK
  <2>4. CASE ~Hit(u)
    <3>1. w'[u] = w[u] /\ (Unread(u) => id \notin Range(w[u].matched))
      BY <1>2, <2>4
    <3> HIDE DEF Hit
    <3>2. Unread(u)' = Unread(u)
      BY <3>1 DEF Unread
    <3>3. ASSUME Unread(u), ~w[u].raced, NEW x \in Range(w[u].matched)
          PROVE  MatchIn(Original(u), mMatch'[x])
      <4>1. x # id /\ x \in DOMAIN mMatch
        BY <2>2, <3>1, <3>3 DEF Good
      <4>2. MatchIn(Original(u), mMatch[x])
        BY <2>2, <3>3 DEF PatternOK
      <4> QED BY <1>5, <4>1, <4>2
    <3>4. ~w[u].raced => (Unread(u) => \A x \in Range(w[u].matched) : MatchIn(Original(u), mMatch[x]))'
      BY <1>6, <3>1, <3>2, <3>3 DEF MatchIn
    <3>5. (w[u].pc = "write" => MatchIn(Original(u), w[u].pending.match))'
      BY <1>6, <2>2, <3>1 DEF PatternOK, MatchIn
    <3>6. PatternsFound(u)' = PatternsFound(u)
      BY <1>6, <3>1 DEF PatternsFound, MatchIn
    <3> QED BY <2>2, <3>1, <3>4, <3>5, <3>6 DEF PatternOK
  <2> QED BY <2>3, <2>4
<1> QED BY <1>7, <1>8 DEF PatternInv

LEMMA ReportedRange ==
    ASSUME NEW out, IsList(out), NEW matched, IsList(matched), NEW read
    PROVE  /\ IsList(Reported(out, matched, read))
           /\ \A h \in Range(Reported(out, matched, read)) \ Range(out) :
                \/ \E i \in DOMAIN matched : h = Header("X-MATCHED-PATTERN", read[i])
                \/ h = Header("X_DUP_LOG", <<"log">>)
<1> DEFINE patterns == [i \in DOMAIN matched |-> Header("X-MATCHED-PATTERN", read[i])]
           log == Header("X_DUP_LOG", <<"log">>)
<1>1. Len(matched) \in Nat /\ DOMAIN matched = 1 .. Len(matched)
  BY ListDomain
<1>2. patterns = [i \in 1 .. Len(matched) |-> patterns[i]]
  BY <1>1
<1>3. \A h \in Range(patterns) : \E i \in DOMAIN matched : h = Header("X-MATCHED-PATTERN", read[i])
  BY DEF Range
<1>4. Reported(out, matched, read) = out \o patterns \o <<log>>
  BY DEF Reported
<1> HIDE DEF patterns, log
<1>5. IsList(patterns) /\ IsList(<<log>>) /\ Range(<<log>>) = {log}
  BY <1>1, <1>2, ListOf, SingleList
<1>6. IsList(out \o patterns) /\ Range(out \o patterns) = Range(out) \cup Range(patterns)
  BY <1>5, ConcatList
<1>7. IsList(out \o patterns \o <<log>>)
      /\ Range(out \o patterns \o <<log>>) = Range(out \o patterns) \cup Range(<<log>>)
  BY <1>5, <1>6, ConcatList
<1> QED BY <1>3, <1>4, <1>5, <1>6, <1>7 DEF log

LEMMA OriginalOut ==
    ASSUME TodoInv, NEW t \in Workers
    PROVE  "mHeadersOut" \in DOMAIN Original(t) /\ IsList(Original(t).mHeadersOut)
<1> DEFINE r == scenario.requests[t].info
<1>1. r \in RequestInfo
  BY LocationOK
<1>2. DOMAIN Original(t) = DOMAIN r /\ \A k \in DOMAIN r \ {"mParsedArgs"} : Original(t)[k] = r[k]
  BY OriginalFields
<1> HIDE DEF r
<1>3. "mHeadersOut" \in DOMAIN r \ {"mParsedArgs"} /\ IsList(r.mHeadersOut)
  BY <1>1, RequestFields
<1> QED BY <1>2, <1>3

LEMMA addValidationHeadersDupPattern ==
    ASSUME PatternInv, WorkInv, TodoInv, NEW t \in Workers, addValidationHeadersDup(t)
    PROVE  PatternInv'
<1> DEFINE matched == w[t].matched
           raced == w[t].raced \/ \E id \in Range(matched) : Writing(t, id) # {}
           New(read) == [w[t].req EXCEPT !.mHeadersOut = Reported(@, matched, read)]
<1>1. ThreadsOK /\ Good(t)
  BY WorkThreads DEF WorkInv
<1>2. /\ w[t].pc = "match" /\ UNCHANGED <<scenario, configVars, mMatch>>
      /\ \E read : /\ \A i \in DOMAIN matched : read[i] \in Readable(t, matched[i])
                   /\ Becomes(t, "filter", New(read), w[t].dests, w[t].pending, matched, w[t].dups, raced)
  BY <1>1, addValidationHeadersDupStep
<1>3. PICK read : /\ \A i \in DOMAIN matched : read[i] \in Readable(t, matched[i])
                  /\ Becomes(t, "filter", New(read), w[t].dests, w[t].pending, matched, w[t].dups, raced)
  BY <1>2
<1>4. w[t].req = Original(t) /\ IsList(matched)
  BY <1>1, <1>2 DEF Good, ThreadOK
<1>5. New(read).mHeadersOut = Reported(Original(t).mHeadersOut, matched, read)
  <2> DEFINE o == Original(t)
             out == Reported(o.mHeadersOut, matched, read)
  <2>1. New(read) = [o EXCEPT !.mHeadersOut = out]
    BY <1>4
  <2>2. "mHeadersOut" \in DOMAIN o
    BY OriginalOut
  <2> HIDE DEF o, out, New
  <2>3. New(read).mHeadersOut = out
    BY <2>1, <2>2
  <2> QED BY <2>3 DEF o, out
<1>6. ASSUME ~raced, NEW i \in DOMAIN matched
      PROVE  MatchIn(Original(t), read[i])
  <2>1. matched[i] \in Range(matched) /\ Writing(t, matched[i]) = {}
    BY <1>6 DEF Range
  <2>2. read[i] = mMatch[matched[i]]
    BY <1>3, <1>6, <2>1 DEF Readable
  <2>3. ~w[t].raced
    BY <1>6
  <2> QED BY <1>2, <2>1, <2>2, <2>3 DEF PatternInv, PatternOK, Unread
<1> DEFINE new == New(read)
<1>7. new.mHeadersOut = Reported(Original(t).mHeadersOut, matched, read)
      /\ Becomes(t, "filter", new, w[t].dests, w[t].pending, matched, w[t].dups, raced)
  BY <1>3, <1>5
<1> HIDE DEF new, matched, raced, New
<1>8. ASSUME ~raced, NEW h \in Range(new.mHeadersOut) \ Range(Original(t).mHeadersOut),
             h.key = <<"X-MATCHED-PATTERN">>
      PROVE  MatchIn(Original(t), h.val)
  <2>1. \/ \E i \in DOMAIN matched : h = Header("X-MATCHED-PATTERN", read[i])
        \/ h = Header("X_DUP_LOG", <<"log">>)
    BY <1>4, <1>7, <1>8, OriginalOut, ReportedRange
  <2>2. h # Header("X_DUP_LOG", <<"log">>)
    <3>1. Header("X_DUP_LOG", <<"log">>).key = <<"X_DUP_LOG">>
      BY DEF Header
    <3> QED BY <1>8, <3>1
  <2>3. PICK i \in DOMAIN matched : h = Header("X-MATCHED-PATTERN", read[i])
    BY <2>1, <2>2
  <2>4. h.val = read[i]
    BY <2>3 DEF Header
  <2> QED BY <1>6, <1>8, <2>3, <2>4
<1> QED BY <1>2, <1>7, <1>8, PatternStep

\* The loop over the matched filters only reads the request.
LEMMA LoopPattern ==
    ASSUME PatternInv, WorkInv, NEW t \in Workers, nextFilter(t) \/ duplicate(t) \/ countDuplicate(t)
    PROVE  PatternInv'
<1>1. ThreadsOK
  BY WorkThreads
<1> DEFINE Loop == {"filter", "curl", "count", "done"}
           Reads == /\ w[t].pc \in Loop /\ UNCHANGED <<scenario, configVars, mMatch>>
                    /\ \A u \in Workers \ {t} : w'[u] = w[u]
                    /\ w'[t].pc \in Loop /\ w'[t].req = w[t].req /\ w'[t].raced = w[t].raced
<1>2. nextFilter(t) => Reads
  <2> HAVE nextFilter(t)
  <2>1. w[t].pc = "filter" /\ UNCHANGED <<scenario, configVars, mMatch>>
    BY <1>1, nextFilterStep
  <2>2. /\ \A u \in Workers \ {t} : w'[u] = w[u]
        /\ w'[t].pc \in Loop /\ w'[t].req = w[t].req /\ w'[t].raced = w[t].raced
    BY <1>1, nextFilterStep DEF Becomes
  <2> QED BY <2>1, <2>2
<1>3. duplicate(t) => Reads
  <2> HAVE duplicate(t)
  <2>1. w[t].pc = "curl" /\ UNCHANGED <<scenario, configVars, mMatch>>
    BY <1>1, duplicateStep
  <2>2. /\ \A u \in Workers \ {t} : w'[u] = w[u]
        /\ w'[t].pc \in Loop /\ w'[t].req = w[t].req /\ w'[t].raced = w[t].raced
    BY <1>1, duplicateStep DEF Becomes
  <2> QED BY <2>1, <2>2
<1>4. countDuplicate(t) => Reads
  <2> HAVE countDuplicate(t)
  <2>1. w[t].pc = "count" /\ UNCHANGED <<scenario, configVars, mMatch>>
    BY <1>1, countDuplicateStep
  <2>2. /\ \A u \in Workers \ {t} : w'[u] = w[u]
        /\ w'[t].pc \in Loop /\ w'[t].req = w[t].req /\ w'[t].raced = w[t].raced
    BY <1>1, countDuplicateStep DEF Becomes
  <2> QED BY <2>1, <2>2
<1>5. Reads
  BY <1>2, <1>3, <1>4
<1>6. \A u \in Workers \ {t} : PatternOK(u)'
  BY <1>5, PatternKept DEF PatternInv
<1>7. PatternOK(t)'
  <2>1. Original(t)' = Original(t)
    BY <1>5 DEF Original, configVars
  <2>2. PatternsFound(t)' = PatternsFound(t)
    BY <1>5, <2>1 DEF PatternsFound, MatchIn
  <2>3. ~w[t].raced => PatternsFound(t)
    BY <1>5 DEF PatternInv, PatternOK
  <2>4. w'[t].pc \notin {"idle", "write", "match"}
    BY <1>5
  <2> QED BY <1>5, <2>2, <2>3, <2>4 DEF PatternOK, Unread
<1> QED BY <1>6, <1>7 DEF PatternInv

\* As long as nobody else touched a filter it matched, what a thread is about to
\* assign to mMatch, what mMatch holds for it and what it has read back from
\* there was all found in its own request.
THEOREM PatternInvariant == Spec => []PatternInv
<1>1. ASSUME \A t \in Workers : w[t] = NewThread PROVE PatternInv
  <2>1. NewThread.pc = "idle" /\ Range(NewThread.matched) = {}
    BY NewThreadOK DEF NewThread
  <2> QED BY <1>1, <2>1 DEF PatternInv, PatternOK, Unread
<1>2. Init => PatternInv
  BY <1>1 DEF Init
<1>3. PatternInv /\ WorkInv /\ DirectivesInv /\ TodoInv /\ [Next]_vars => PatternInv'
  <2> SUFFICES ASSUME PatternInv, WorkInv, DirectivesInv, TodoInv, [Next]_vars PROVE PatternInv'
    OBVIOUS
  <2>1. CASE \E t \in Workers : RunOne(t)
    <3>1. PICK t \in Workers : RunOne(t)
      BY <2>1
    <3> QED BY <3>1, initiateDuplicationPattern, matchDestinationPattern, storeMatchPattern,
               addValidationHeadersDupPattern, LoopPattern DEF RunOne
  <2>2. CASE ReadDirective \/ Start
    <3>1. phase = "config" /\ UNCHANGED w
      BY <2>2, DirectiveRead DEF Start, workVars
    <3>2. \A t \in Workers : w'[t] = NewThread
      BY <3>1 DEF WorkInv
    <3>3. NewThread.pc = "idle" /\ Range(NewThread.matched) = {}
      BY NewThreadOK DEF NewThread
    <3> QED BY <3>2, <3>3 DEF PatternInv, PatternOK, Unread
  <2>3. CASE stop \/ (\E stat \in DOMAIN counts : getCount(stat)) \/ UNCHANGED vars
    <3>1. UNCHANGED <<scenario, configVars, mMatch, w>>
      BY <2>3 DEF stop, getCount, vars, workVars
    <3> QED BY <3>1, PatternKept DEF PatternInv
  <2> QED BY <2>1, <2>2, <2>3 DEF Next
<1> QED BY <1>2, <1>3, WorkInvariant, DirectivesInvariant, TodoInvariant, PTL DEF Spec

\* The pattern a thread reports with a request comes from that request, although
\* it was kept meanwhile in the filter that all threads share; only a thread that
\* assigned the same filter's string in between can change it.
THEOREM PatternsFromRequest == Spec => []PatternFromRequest
<1>1. PatternInv /\ TodoInv => PatternFromRequest
  <2> SUFFICES ASSUME PatternInv, TodoInv, NEW t \in Workers,
                      w[t].pc \in {"filter", "curl", "count", "done"}, ~w[t].raced,
                      NEW h \in Range(w[t].req.mHeadersOut) \ Range(Original(t).mHeadersOut),
                      h.key = <<"X-MATCHED-PATTERN">>
               PROVE  \/ h.val = <<"regex">>
                      \/ \E part \in Range(RawParts) :
                            Range(h.val) \subseteq Range(PartText(Original(t), part))
    BY DEF PatternFromRequest
  <2>1. MatchIn(Original(t), h.val)
    BY DEF PatternInv, PatternOK, PatternsFound
  <2> QED BY <2>1, MatchInText
<1> QED BY <1>1, PatternInvariant, TodoInvariant, PTL

-----------------------------------------------------------------------------
(* The duplicates that are sent are the ones the directives ask for.       *)

LEMMA SearchFinds ==
    ASSUME NEW text, NEW re
    PROVE  regex_search(text, re) <=> Range(text) \cap re # {}
BY DEF regex_search, Range

\* What matchesFilter looks for with the filters of one type is what they mean.
LEMMA FoundByType ==
    ASSUME NEW codec, NEW commands, NEW r, Sorted(commands), NEW type,
           \A f \in Filters(commands) : f.scope \subseteq Range(RawParts)
    PROVE  (\E f \in Filters(commands) : f.type = type /\ Finds(f, codec, r)) <=>
                KeyFound(codec, commands, r, type) \/ RawFound(commands, r, type)
<1>1. ASSUME NEW f, "field" \in DOMAIN f
      PROVE  f.type = type /\ Finds(f, codec, r) <=>
                \E part \in Range(KeyParts) : \E i \in DOMAIN KeyVals(codec, r, part) :
                    KeyHit(f, KeyVals(codec, r, part)[i], part, type)
  <2>1. ASSUME NEW part PROVE
            (\E kv \in Range(KeyVals(codec, r, part)) :
                to_upper(kv.key) = f.field /\ Range(kv.val) \cap f.re # {})
            <=> \E i \in DOMAIN KeyVals(codec, r, part) :
                    /\ to_upper(KeyVals(codec, r, part)[i].key) = f.field
                    /\ regex_search(KeyVals(codec, r, part)[i].val, f.re)
    <3> DEFINE kvs == KeyVals(codec, r, part)
               Has(kv) == to_upper(kv.key) = f.field /\ Range(kv.val) \cap f.re # {}
    <3>1. (\E kv \in Range(kvs) : Has(kv)) <=> \E i \in DOMAIN kvs : Has(kvs[i])
      <4> HIDE DEF kvs, Has
      <4> QED BY DEF Range
    <3>2. \A i : Has(kvs[i]) <=> to_upper(kvs[i].key) = f.field /\ regex_search(kvs[i].val, f.re)
      BY SearchFinds
    <3> QED BY <3>1, <3>2
  <2>2. Finds(f, codec, r) <=>
            \E part \in f.scope \cap Range(KeyParts) : \E i \in DOMAIN KeyVals(codec, r, part) :
                    /\ to_upper(KeyVals(codec, r, part)[i].key) = f.field
                    /\ regex_search(KeyVals(codec, r, part)[i].val, f.re)
    BY <1>1, <2>1 DEF Finds
  <2> QED BY <2>2, Zenon DEF KeyHit
<1>2. ASSUME NEW f, "field" \notin DOMAIN f, f.scope \subseteq Range(RawParts)
      PROVE  Finds(f, codec, r) <=> \E part \in Range(RawParts) : RawHit(f, r, part)
  <2>1. Finds(f, codec, r) <=> \E part \in f.scope : regex_search(PartText(r, part), f.re)
    BY <1>2, SearchFinds DEF Finds
  <2> QED BY <1>2, <2>1 DEF RawHit
<1>3. (\E f \in Range(commands.mFilters) : f.type = type /\ Finds(f, codec, r))
        <=> KeyFound(codec, commands, r, type)
  <2>1. \A f \in Range(commands.mFilters) : f.type = type /\ Finds(f, codec, r) <=>
                \E part \in Range(KeyParts) : \E i \in DOMAIN KeyVals(codec, r, part) :
                    KeyHit(f, KeyVals(codec, r, part)[i], part, type)
    BY <1>1 DEF Sorted
  <2>2. (\E f \in Range(commands.mFilters) : f.type = type /\ Finds(f, codec, r))
        <=> \E j \in DOMAIN commands.mFilters :
                commands.mFilters[j].type = type /\ Finds(commands.mFilters[j], codec, r)
    BY DEF Range
  <2>3. \A j \in DOMAIN commands.mFilters : commands.mFilters[j] \in Range(commands.mFilters)
    BY DEF Range
  <2> QED BY <2>1, <2>2, <2>3, Zenon DEF KeyFound
<1>4. (\E f \in Range(commands.mRawFilters) : f.type = type /\ Finds(f, codec, r))
        <=> RawFound(commands, r, type)
  <2>1. \A f \in Range(commands.mRawFilters) :
            Finds(f, codec, r) <=> \E part \in Range(RawParts) : RawHit(f, r, part)
    BY <1>2 DEF Sorted, Filters
  <2>2. (\E f \in Range(commands.mRawFilters) : f.type = type /\ Finds(f, codec, r))
        <=> \E j \in DOMAIN commands.mRawFilters :
                commands.mRawFilters[j].type = type /\ Finds(commands.mRawFilters[j], codec, r)
    BY DEF Range
  <2>3. \A j \in DOMAIN commands.mRawFilters : commands.mRawFilters[j] \in Range(commands.mRawFilters)
    BY DEF Range
  <2> QED BY <2>1, <2>2, <2>3, Zenon DEF RawFound
<1> QED BY <1>3, <1>4 DEF Filters

LEMMA ScopeParts ==
    ASSUME NEW scope \in Scopes
    PROVE  scope \subseteq Range(RawParts)
<1>1. Range(RawParts) = {"METHOD", "PATH", "QUERY_STRING", "HEADERS", "BODY"}
  BY DEF Range, RawParts
<1>2. PICK k \in DOMAIN stringToEnum : scope = stringToEnum[k]
  BY DEF Scopes, Range
<1>3. k \in {"METHOD", "PATH", "QUERY_STRING", "URL", "HEADERS", "BODY", "URL_AND_HEADERS", "ALL"}
  BY DEF stringToEnum
<1>4. stringToEnum[k] \subseteq Range(RawParts)
  BY <1>1, <1>3 DEF stringToEnum, URL
<1> QED BY <1>2, <1>4

\* processRequest finds a filter exactly where the directives mean a duplicate.
LEMMA MatchMeans ==
    ASSUME DirectivesInv, TodoInv, NEW t \in Workers, NEW dest \in DOMAIN Commands(t)
    PROVE  matchesFilter(server.codec, Commands(t)[dest], Original(t)) # NoMatch
                <=> ToDuplicate(t, dest)
<1> DEFINE commands == Commands(t)[dest]
           r == Original(t)
           codec == server.codec
           Has(type) == \E f \in Filters(commands) : f.type = type /\ Finds(f, codec, r)
           m == matchesFilter(codec, commands, r)
<1>1. CommandsOK(commands, dest, conf[Location(t)].highest) /\ Parsed(codec, r)
  BY DestsOK, OriginalParsed
<1>2. ToDuplicate(t, dest) <=> LET found == {f \in Filters(commands) : Finds(f, codec, r)}
                               IN found # {} /\ \A f \in found : f.type = "REGULAR"
  BY DEF ToDuplicate
<1> HIDE DEF commands, r, codec
<1>3. /\ IsList(commands.mFilters) /\ IsList(commands.mRawFilters) /\ Sorted(commands)
      /\ \A f \in Filters(commands) : f.type \in FilterTypes /\ f.scope \subseteq Range(RawParts)
  BY <1>1, ScopeParts DEF CommandsOK, FilterOK
<1>4. \A type : Has(type) <=> KeyFound(codec, commands, r, type) \/ RawFound(commands, r, type)
  BY <1>3, FoundByType
<1>5. m # NoMatch <=> Has("REGULAR") /\ ~Has("PREVENT_DUPLICATION")
  <2> HIDE DEF Has
  <2>1. m # NoMatch <=> /\ KeyFound(codec, commands, r, "REGULAR") \/ RawFound(commands, r, "REGULAR")
                        /\ ~KeyFound(codec, commands, r, "PREVENT_DUPLICATION")
                        /\ ~RawFound(commands, r, "PREVENT_DUPLICATION")
    <3>1. m = matchesFilter(codec, commands, r)
      OBVIOUS
    <3> HIDE DEF m
    <3> QED BY <1>1, <1>3, <3>1, MatchFound
  <2> HIDE DEF m
  <2> QED BY <1>4, <2>1
<1>6. ToDuplicate(t, dest) <=> Has("REGULAR") /\ ~Has("PREVENT_DUPLICATION")
  <2>1. \A f \in Filters(commands) : f.type = "REGULAR" <=> f.type # "PREVENT_DUPLICATION"
    BY <1>3 DEF FilterTypes
  <2> QED BY <1>2, <2>1
<1> HIDE DEF m, Has
<1>7. m # NoMatch <=> ToDuplicate(t, dest)
  BY <1>5, <1>6
<1> QED BY <1>7 DEF m, commands, r, codec

\* The destinations of the matched filters, each at most once.
DestsOf(s) == {id[2] : id \in Range(s)}
Once(s) == \A i, j \in DOMAIN s : i # j => s[i][2] # s[j][2]

LEMMA AppendOnce ==
    ASSUME NEW s, IsList(s), Once(s), NEW id, id[2] \notin DestsOf(s)
    PROVE  Once(Append(s, id)) /\ DestsOf(Append(s, id)) = DestsOf(s) \cup {id[2]}
<1>1. s \in Seq(Range(s) \cup {id})
  BY DEF IsList
<1>2. /\ \A i \in 1 .. Len(s) : Append(s, id)[i] = s[i]
      /\ Append(s, id)[Len(s) + 1] = id /\ Len(s) \in Nat /\ DOMAIN s = 1 .. Len(s)
      /\ DOMAIN Append(s, id) = 1 .. Len(s) + 1
  BY <1>1
<1>3. \A i \in DOMAIN s : s[i][2] # id[2]
  BY DEF DestsOf, Range
<1>4. ASSUME NEW i \in 1 .. Len(s) + 1, NEW j \in 1 .. Len(s) + 1, i # j
      PROVE  Append(s, id)[i][2] # Append(s, id)[j][2]
  <2>1. CASE i = Len(s) + 1
    <3>1. j \in DOMAIN s /\ Append(s, id)[j] = s[j]
      BY <1>2, <1>4, <2>1
    <3> QED BY <1>2, <1>3, <2>1, <3>1
  <2>2. CASE j = Len(s) + 1
    <3>1. i \in DOMAIN s /\ Append(s, id)[i] = s[i]
      BY <1>2, <1>4, <2>2
    <3> QED BY <1>2, <1>3, <2>2, <3>1
  <2>3. CASE i # Len(s) + 1 /\ j # Len(s) + 1
    <3>1. i \in DOMAIN s /\ Append(s, id)[i] = s[i] /\ j \in DOMAIN s /\ Append(s, id)[j] = s[j]
      BY <1>2, <1>4, <2>3
    <3> QED BY <1>4, <3>1 DEF Once
  <2> QED BY <2>1, <2>2, <2>3
<1>5. Once(Append(s, id))
  BY <1>2, <1>4 DEF Once
<1>6. Range(Append(s, id)) = Range(s) \cup {id}
  BY AppendRule
<1> QED BY <1>5, <1>6 DEF DestsOf

LEMMA TailOnce ==
    ASSUME NEW s, IsList(s), s # <<>>, Once(s)
    PROVE  /\ Once(Tail(s)) /\ DestsOf(Tail(s)) = DestsOf(s) \ {Head(s)[2]}
           /\ Head(s)[2] \in DestsOf(s)
<1>1. s \in Seq(Range(s))
  BY DEF IsList
<1>2. /\ Head(s) = s[1] /\ Len(s) \in Nat \ {0} /\ DOMAIN s = 1 .. Len(s)
      /\ DOMAIN Tail(s) = 1 .. Len(s) - 1
      /\ \A i \in 1 .. Len(s) - 1 : Tail(s)[i] = s[i + 1]
  BY <1>1
<1>3. ASSUME NEW i \in DOMAIN Tail(s) PROVE i + 1 \in DOMAIN s /\ i + 1 # 1 /\ Tail(s)[i] = s[i + 1]
  BY <1>2, <1>3
<1>4. Once(Tail(s))
  <2>1. ASSUME NEW i \in DOMAIN Tail(s), NEW j \in DOMAIN Tail(s), i # j
        PROVE  Tail(s)[i][2] # Tail(s)[j][2]
    <3>1. i + 1 # j + 1
      BY <1>2, <2>1
    <3> QED BY <1>3, <2>1, <3>1 DEF Once
  <2> QED BY <2>1 DEF Once
<1>5. Range(s) = Range(Tail(s)) \cup {Head(s)}
  BY TailList
<1>6. \A id \in Range(Tail(s)) : id[2] # Head(s)[2]
  <2>1. ASSUME NEW i \in DOMAIN Tail(s) PROVE Tail(s)[i][2] # Head(s)[2]
    <3>1. 1 \in DOMAIN s
      BY <1>2
    <3> QED BY <1>2, <1>3, <2>1, <3>1 DEF Once
  <2> QED BY <2>1 DEF Range
<1> QED BY <1>4, <1>5, <1>6 DEF DestsOf

Sent(t, dest) == Cardinality(SentTo(t, dest))
Low(t, dest) == Commands(t)[dest].mDuplicationPercentage \div 100
High(t, dest) == (Commands(t)[dest].mDuplicationPercentage + 99) \div 100
Live(t) == Synchronous(t) \/ isRunning

\* The destinations thread t is done with in processRequest.
Settled(t) == DOMAIN Commands(t) \ (w[t].dests \cup (IF w[t].pc = "write" THEN {w[t].pending.id[2]} ELSE {}))
InLoop(t) == w[t].pc \in {"filter", "curl", "count", "done"}

\* The destination whose duplicates are being sent, and how many are left.
Begun(t, dest) == w[t].pc \in {"curl", "count"} /\ dest = Head(w[t].matched)[2]
Owed(t) == IF w[t].pc = "count" THEN w[t].dups - 1 ELSE w[t].dups

\* What was sent to a destination: nothing before its turn, then with what is
\* left as much as its percentage says, and nothing if it has no turn.
DestOK(t, dest) ==
    /\ dest \in DestsOf(w[t].matched) /\ ~Begun(t, dest) => Sent(t, dest) = 0
    /\ Begun(t, dest) => /\ Low(t, dest) <= Sent(t, dest) + Owed(t)
                         /\ Sent(t, dest) + Owed(t) <= High(t, dest)
    /\ dest \notin DestsOf(w[t].matched) /\ ToDuplicate(t, dest) =>
            /\ Sent(t, dest) <= High(t, dest)
            /\ Live(t) => Low(t, dest) <= Sent(t, dest)
    /\ ~ToDuplicate(t, dest) => Sent(t, dest) = 0 /\ dest \notin DestsOf(w[t].matched)

MatchingOK(t) ==
    /\ sent[t] = <<>>
    /\ DestsOf(w[t].matched) = {dest \in Settled(t) : ToDuplicate(t, dest)}
    /\ w[t].pc = "write" => w[t].pending.id[2] \notin w[t].dests /\ ToDuplicate(t, w[t].pending.id[2])

ExactOK(t) ==
    /\ Once(w[t].matched)
    /\ w[t].pc = "idle" => sent[t] = <<>> /\ w[t].matched = <<>>
    /\ Unread(t) => MatchingOK(t)
    /\ InLoop(t) => \A dest \in DOMAIN Commands(t) : DestOK(t, dest)
    /\ w[t].pc = "done" => w[t].matched = <<>>

ExactInv == \A t \in Workers : ExactOK(t)

LEMMA SentType ==
    ASSUME WorkInv, NEW t \in Workers, NEW dest
    PROVE  IsFiniteSet(SentTo(t, dest)) /\ Sent(t, dest) \in Nat
<1>1. Len(sent[t]) \in Nat /\ DOMAIN sent[t] = 1 .. Len(sent[t])
  BY ListDomain DEF WorkInv
<1>2. IsFiniteSet(1 .. Len(sent[t])) /\ SentTo(t, dest) \subseteq 1 .. Len(sent[t])
  BY <1>1, FS_Interval DEF SentTo
<1>3. IsFiniteSet(SentTo(t, dest))
  BY <1>2, FS_Subset
<1> QED BY <1>3, FS_CardinalityType DEF Sent

LEMMA NothingSent ==
    ASSUME NEW t \in Workers, sent[t] = <<>>, NEW dest
    PROVE  Sent(t, dest) = 0
<1>1. SentTo(t, dest) = {}
  BY DEF SentTo
<1> QED BY <1>1, FS_EmptySet DEF Sent

LEMMA PercentType ==
    ASSUME DirectivesInv, TodoInv, NEW t \in Workers, NEW dest \in DOMAIN Commands(t)
    PROVE  Commands(t)[dest].mDuplicationPercentage \in Nat /\ Low(t, dest) \in Nat /\ High(t, dest) \in Nat
<1> DEFINE p == Commands(t)[dest].mDuplicationPercentage
<1>1. p \in Nat
  BY DestsOK DEF CommandsOK
<1> HIDE DEF p
<1>2. p \div 100 \in Nat /\ (p + 99) \div 100 \in Nat
  BY <1>1
<1> QED BY <1>1, <1>2 DEF Low, High, p

\* What depends on the configuration and the request only.
LEMMA Fixed ==
    ASSUME UNCHANGED <<scenario, configVars>>
    PROVE  \A t \in Workers :
              /\ Commands(t)' = Commands(t) /\ Synchronous(t)' = Synchronous(t)
              /\ \A dest : /\ ToDuplicate(t, dest)' = ToDuplicate(t, dest)
                           /\ Low(t, dest)' = Low(t, dest) /\ High(t, dest)' = High(t, dest)
BY DEF Commands, Location, Synchronous, ToDuplicate, Original, Low, High, configVars

\* A step that leaves what the thread has sent and its fields but raced.
LEMMA ExactKept ==
    ASSUME NEW u \in Workers, ExactOK(u), UNCHANGED <<scenario, configVars>>, sent'[u] = sent[u],
           isRunning' => isRunning,
           w'[u].pc = w[u].pc, w'[u].dests = w[u].dests, w'[u].pending = w[u].pending,
           w'[u].matched = w[u].matched, w'[u].dups = w[u].dups
    PROVE  ExactOK(u)'
<1>1. /\ Commands(u)' = Commands(u) /\ (Live(u)' => Live(u))
      /\ \A dest : /\ ToDuplicate(u, dest)' = ToDuplicate(u, dest)
                   /\ Low(u, dest)' = Low(u, dest) /\ High(u, dest)' = High(u, dest)
  BY Fixed DEF Live
<1>2. /\ Settled(u)' = Settled(u) /\ InLoop(u)' = InLoop(u) /\ Unread(u)' = Unread(u) /\ Owed(u)' = Owed(u)
      /\ \A dest : Begun(u, dest)' = Begun(u, dest) /\ Sent(u, dest)' = Sent(u, dest)
  BY <1>1 DEF Settled, InLoop, Unread, Owed, Begun, Sent, SentTo
<1>3. Unread(u) => MatchingOK(u)'
  <2>1. ToDuplicate(u, w[u].pending.id[2])' = ToDuplicate(u, w[u].pending.id[2])
    BY DEF Commands, Location, ToDuplicate, Original, configVars
  <2>2. {dest \in Settled(u) : ToDuplicate(u, dest)}' = {dest \in Settled(u) : ToDuplicate(u, dest)}
    BY <1>1, <1>2
  <2> QED BY <1>2, <2>1, <2>2 DEF MatchingOK, ExactOK
<1>4. ASSUME NEW dest, DestOK(u, dest) PROVE DestOK(u, dest)'
  <2>1. /\ ToDuplicate(u, dest)' = ToDuplicate(u, dest) /\ Begun(u, dest)' = Begun(u, dest)
        /\ Low(u, dest)' = Low(u, dest) /\ High(u, dest)' = High(u, dest) /\ Sent(u, dest)' = Sent(u, dest)
    BY <1>1, <1>2
  <2> QED BY <1>1, <1>2, <1>4, <2>1 DEF DestOK
<1> QED BY <1>1, <1>2, <1>3, <1>4 DEF ExactOK

\* A step of thread t, and its fields afterwards.
LEMMA ExactStep ==
    ASSUME ExactInv, NEW t \in Workers, UNCHANGED <<scenario, configVars, isRunning>>,
           \A u \in Workers \ {t} : sent'[u] = sent[u] /\ w'[u] = w[u],
           ExactOK(t)'
    PROVE  ExactInv'
<1>1. ASSUME NEW u \in Workers \ {t} PROVE ExactOK(u)'
  BY <1>1, ExactKept DEF ExactInv
<1> QED BY <1>1 DEF ExactInv

LEMMA initiateDuplicationExact ==
    ASSUME ExactInv, WorkInv, NEW t \in Workers, initiateDuplication(t)
    PROVE  ExactInv'
<1>1. ThreadsOK /\ ExactOK(t)
  BY WorkThreads DEF ExactInv
<1>2. /\ w[t].pc = "idle" /\ UNCHANGED <<scenario, configVars, isRunning, sent>>
      /\ \/ w' = w
         \/ Becomes(t, "declined", w[t].req, w[t].dests, w[t].pending, w[t].matched,
                    w[t].dups, w[t].raced)
         \/ Becomes(t, "match", Original(t), DOMAIN Commands(t), w[t].pending,
                    w[t].matched, w[t].dups, w[t].raced)
  BY <1>1, initiateDuplicationStep
<1>3. w[t].matched = <<>> /\ sent[t] = <<>> /\ Once(w[t].matched)
  BY <1>1, <1>2 DEF ExactOK
<1>4. CASE w' = w
  BY <1>2, <1>4, ExactKept DEF ExactInv
<1>5. CASE /\ \A u \in Workers \ {t} : w'[u] = w[u]
           /\ w'[t].pc = "declined" /\ w'[t].matched = w[t].matched
  <2>1. ExactOK(t)'
    BY <1>3, <1>5 DEF ExactOK, Unread, InLoop, Once
  <2> QED BY <1>2, <1>5, <2>1, ExactStep
<1>6. CASE /\ w'[t].pc = "match" /\ w'[t].matched = w[t].matched /\ w'[t].dests = DOMAIN Commands(t)
           /\ \A u \in Workers \ {t} : w'[u] = w[u]
  <2>1. Commands(t)' = Commands(t)
    BY <1>2, Fixed
  <2>2. Settled(t)' = {}
    BY <1>6, <2>1 DEF Settled
  <2>3. DestsOf(w'[t].matched) = {}
    BY <1>3, <1>6 DEF DestsOf, Range
  <2>4. {dest \in Settled(t) : ToDuplicate(t, dest)}' = {}
    BY <2>2
  <2>5. MatchingOK(t)'
    BY <1>2, <1>3, <1>6, <2>3, <2>4 DEF MatchingOK
  <2>6. ExactOK(t)'
    BY <1>3, <1>6, <2>5 DEF ExactOK, InLoop, Once
  <2> QED BY <1>2, <1>6, <2>6, ExactStep
<1> QED BY <1>2, <1>4, <1>5, <1>6 DEF Becomes

LEMMA matchDestinationExact ==
    ASSUME ExactInv, WorkInv, DirectivesInv, TodoInv, NEW t \in Workers, matchDestination(t)
    PROVE  ExactInv'
<1> DEFINE dest == NextOf(w[t].dests)
           m == matchesFilter(server.codec, Commands(t)[dest], w[t].req)
           pending == [id |-> <<Location(t), dest, m.ref>>, match |-> m.match]
<1>1. ThreadsOK /\ Good(t) /\ ExactOK(t)
  BY WorkThreads DEF WorkInv, ExactInv
<1>2. /\ w[t].pc = "match" /\ w[t].dests # {} /\ UNCHANGED <<scenario, configVars, isRunning, sent>>
      /\ \/ m = NoMatch /\ Becomes(t, "match", w[t].req, w[t].dests \ {dest}, w[t].pending,
                                   w[t].matched, w[t].dups, w[t].raced)
         \/ m # NoMatch /\ Becomes(t, "write", w[t].req, w[t].dests \ {dest}, pending,
                   w[t].matched, w[t].dups, w[t].raced)
  BY <1>1, matchDestinationStep
<1>3. dest \in w[t].dests /\ dest \in DOMAIN Commands(t) /\ w[t].req = Original(t)
  BY <1>1, <1>2, MatchHere
<1>4. m # NoMatch <=> ToDuplicate(t, dest)
  BY <1>3, MatchMeans
<1>5. pending.id[2] = dest
  OBVIOUS
<1> HIDE DEF pending, m, dest
<1>6. MatchingOK(t) /\ Once(w[t].matched)
  BY <1>1, <1>2 DEF ExactOK, Unread
<1>7. /\ Commands(t)' = Commands(t) /\ \A x : ToDuplicate(t, x)' = ToDuplicate(t, x)
  BY <1>2, Fixed
<1>8. Settled(t) = DOMAIN Commands(t) \ w[t].dests
  BY <1>2 DEF Settled
<1>9. CASE /\ m = NoMatch /\ w'[t].pc = "match" /\ w'[t].dests = w[t].dests \ {dest}
           /\ w'[t].matched = w[t].matched /\ \A u \in Workers \ {t} : w'[u] = w[u]
  <2>1. Settled(t)' = Settled(t) \cup {dest}
    BY <1>3, <1>7, <1>8, <1>9 DEF Settled
  <2>2. {x \in Settled(t) : ToDuplicate(t, x)}' = {x \in Settled(t) : ToDuplicate(t, x)}
    BY <1>4, <1>7, <1>9, <2>1
  <2>3. MatchingOK(t)'
    BY <1>2, <1>6, <1>9, <2>2 DEF MatchingOK
  <2>4. ExactOK(t)'
    BY <1>6, <1>9, <2>3 DEF ExactOK, InLoop, Once
  <2> QED BY <1>2, <1>9, <2>4, ExactStep
<1>10. CASE /\ m # NoMatch /\ w'[t].pc = "write" /\ w'[t].dests = w[t].dests \ {dest}
            /\ w'[t].pending = pending
            /\ w'[t].matched = w[t].matched /\ \A u \in Workers \ {t} : w'[u] = w[u]
  <2>1. Settled(t)' = Settled(t)
    BY <1>3, <1>5, <1>7, <1>8, <1>10 DEF Settled
  <2>2. {x \in Settled(t) : ToDuplicate(t, x)}' = {x \in Settled(t) : ToDuplicate(t, x)}
    BY <1>7, <2>1
  <2>3. ToDuplicate(t, w[t].pending.id[2])'
    <3>1. \A x : x = dest => ToDuplicate(t, x)'
      BY <1>4, <1>7, <1>10
    <3>2. w'[t].pending.id[2] = dest
      BY <1>5, <1>10
    <3> QED BY <3>1, <3>2 DEF ToDuplicate, Commands, Original
  <2>4. MatchingOK(t)'
    BY <1>2, <1>5, <1>6, <1>10, <2>2, <2>3 DEF MatchingOK
  <2>5. ExactOK(t)'
    BY <1>6, <1>10, <2>4 DEF ExactOK, InLoop, Once
  <2> QED BY <1>2, <1>10, <2>5, ExactStep
<1> QED BY <1>2, <1>9, <1>10 DEF Becomes

LEMMA storeMatchExact ==
    ASSUME ExactInv, WorkInv, NEW t \in Workers, storeMatch(t)
    PROVE  ExactInv'
<1> DEFINE id == w[t].pending.id
           Hit(u) == u \in Writing(t, id) \/ (Unread(u) /\ id \in Range(w[u].matched))
<1>1. ThreadsOK /\ Good(t) /\ ExactOK(t)
  BY WorkThreads DEF WorkInv, ExactInv
<1>2. /\ w[t].pc = "write" /\ UNCHANGED <<scenario, configVars, isRunning, sent>>
      /\ w'[t].pc = "match" /\ w'[t].dests = w[t].dests /\ w'[t].matched = Append(w[t].matched, id)
      /\ \A u \in Workers \ {t} :
           w'[u] = IF Hit(u) THEN [w[u] EXCEPT !.raced = TRUE] ELSE w[u]
  BY <1>1, storeMatchStep
<1>3. MatchingOK(t) /\ Once(w[t].matched) /\ IdOK(t, id) /\ IsList(w[t].matched)
  BY <1>1, <1>2 DEF ExactOK, Unread, Good, ThreadOK
<1> HIDE DEF Hit
<1>4. /\ Commands(t)' = Commands(t) /\ \A x : ToDuplicate(t, x)' = ToDuplicate(t, x)
  BY <1>2, Fixed
<1>5. ASSUME NEW u \in Workers \ {t} PROVE ExactOK(u)'
  <2>1. DOMAIN w[u] = {"pc", "req", "dests", "pending", "matched", "dups", "raced"}
    BY <1>1, ThreadFields DEF ThreadsOK, ThreadOK
  <2>2. /\ w'[u].pc = w[u].pc /\ w'[u].dests = w[u].dests /\ w'[u].pending = w[u].pending
        /\ w'[u].matched = w[u].matched /\ w'[u].dups = w[u].dups
    <3>1. CASE w'[u] = [w[u] EXCEPT !.raced = TRUE]
      BY <2>1, <3>1
    <3>2. CASE w'[u] = w[u]
      BY <3>2
    <3> QED BY <1>2, <3>1, <3>2
  <2> QED BY <1>2, <2>2, ExactKept DEF ExactInv
<1>6. ExactOK(t)'
  <2>1. /\ Settled(t) = DOMAIN Commands(t) \ (w[t].dests \cup {id[2]})
        /\ Settled(t)' = DOMAIN Commands(t) \ w[t].dests
    BY <1>2, <1>4 DEF Settled
  <2>2. id[2] \in DOMAIN Commands(t) /\ id[2] \notin w[t].dests /\ ToDuplicate(t, id[2])
    BY <1>2, <1>3 DEF MatchingOK, IdOK
  <2>3. DestsOf(w[t].matched) = {x \in Settled(t) : ToDuplicate(t, x)} /\ sent[t] = <<>>
    BY <1>3 DEF MatchingOK
  <2> HIDE DEF id
  <2>4. id[2] \notin DestsOf(w[t].matched)
    BY <2>1, <2>3
  <2>5. Once(w'[t].matched) /\ DestsOf(w'[t].matched) = DestsOf(w[t].matched) \cup {id[2]}
    BY <1>2, <1>3, <2>4, AppendOnce
  <2>6. {x \in Settled(t) : ToDuplicate(t, x)}' = {x \in Settled(t) : ToDuplicate(t, x)} \cup {id[2]}
    BY <1>4, <2>1, <2>2
  <2>7. MatchingOK(t)'
    BY <1>2, <2>3, <2>5, <2>6 DEF MatchingOK
  <2> QED BY <1>2, <2>5, <2>7 DEF ExactOK, InLoop
<1> QED BY <1>5, <1>6 DEF ExactInv

LEMMA addValidationHeadersDupExact ==
    ASSUME ExactInv, WorkInv, DirectivesInv, TodoInv, NEW t \in Workers, addValidationHeadersDup(t)
    PROVE  ExactInv'
<1>1. ThreadsOK /\ ExactOK(t)
  BY WorkThreads DEF ExactInv
<1>2. w[t].pc = "match" /\ w[t].dests = {} /\ UNCHANGED <<scenario, configVars, isRunning, sent>>
  BY <1>1, addValidationHeadersDupStep
<1>3. w'[t].pc = "filter" /\ w'[t].matched = w[t].matched /\ \A u \in Workers \ {t} : w'[u] = w[u]
  BY <1>1, addValidationHeadersDupStep DEF Becomes
<1>4. MatchingOK(t) /\ Once(w[t].matched)
  BY <1>1, <1>2 DEF ExactOK, Unread
<1>5. sent[t] = <<>> /\ DestsOf(w[t].matched) = {x \in DOMAIN Commands(t) : ToDuplicate(t, x)}
  BY <1>2, <1>4 DEF MatchingOK, Settled
<1>6. /\ Commands(t)' = Commands(t) /\ \A x : ToDuplicate(t, x)' = ToDuplicate(t, x)
  BY <1>2, Fixed
<1>7. ASSUME NEW dest \in DOMAIN Commands(t) PROVE DestOK(t, dest)'
  <2>1. Sent(t, dest) = 0 /\ Sent(t, dest)' = Sent(t, dest)
    BY <1>2, <1>5, NothingSent DEF Sent, SentTo
  <2>2. ToDuplicate(t, dest)' = ToDuplicate(t, dest) /\ ~Begun(t, dest)'
    BY <1>3, <1>6 DEF Begun
  <2>3. DestsOf(w'[t].matched) = DestsOf(w[t].matched)
    BY <1>3
  <2> QED BY <1>5, <2>1, <2>2, <2>3 DEF DestOK
<1>8. ExactOK(t)'
  BY <1>3, <1>4, <1>6, <1>7 DEF ExactOK, Unread, Once
<1> QED BY <1>2, <1>3, <1>8, ExactStep

\* The destination whose turn it is.
LEMMA LoopHead ==
    ASSUME ExactInv, WorkInv, DirectivesInv, TodoInv, NEW t \in Workers, InLoop(t),
           w[t].matched # <<>>, NEW dest, dest = Head(w[t].matched)[2]
    PROVE  /\ dest \in DOMAIN Commands(t) /\ dest \in DestsOf(w[t].matched) /\ ToDuplicate(t, dest)
           /\ FilterAt(t, Head(w[t].matched)).dest = dest
           /\ Low(t, dest) \in Nat /\ High(t, dest) \in Nat /\ Sent(t, dest) \in Nat
           /\ w[t].dups \in Nat /\ DestOK(t, dest)
           /\ Once(Tail(w[t].matched)) /\ DestsOf(Tail(w[t].matched)) = DestsOf(w[t].matched) \ {dest}
<1>1. /\ IdOK(t, Head(w[t].matched)) /\ IsList(w[t].matched) /\ w[t].dups \in Nat
  BY LoopOK
<1>2. dest \in DOMAIN Commands(t) /\ FilterAt(t, Head(w[t].matched)).dest = dest
  BY <1>1, FilterAtOK DEF IdOK
<1>3. Once(w[t].matched) /\ DestOK(t, dest)
  BY <1>2 DEF ExactInv, ExactOK
<1>4. /\ Once(Tail(w[t].matched)) /\ DestsOf(Tail(w[t].matched)) = DestsOf(w[t].matched) \ {dest}
      /\ dest \in DestsOf(w[t].matched)
  BY <1>1, <1>3, TailOnce
<1>5. ToDuplicate(t, dest)
  BY <1>3, <1>4 DEF DestOK
<1> QED BY <1>1, <1>2, <1>3, <1>4, <1>5, PercentType, SentType

\* The turn of a destination ends.
LEMMA TurnEnds ==
    ASSUME ExactInv, WorkInv, DirectivesInv, TodoInv, NEW t \in Workers, InLoop(t),
           w[t].matched # <<>>, NEW dest, dest = Head(w[t].matched)[2],
           UNCHANGED <<scenario, configVars, isRunning, sent>>,
           \A u \in Workers \ {t} : w'[u] = w[u],
           w'[t].pc = "filter", w'[t].matched = Tail(w[t].matched),
           Sent(t, dest) <= High(t, dest), Live(t) => Low(t, dest) <= Sent(t, dest)
    PROVE  ExactInv'
<1>1. /\ ToDuplicate(t, dest) /\ Once(Tail(w[t].matched))
      /\ DestsOf(Tail(w[t].matched)) = DestsOf(w[t].matched) \ {dest}
  BY LoopHead
<1>2. /\ Commands(t)' = Commands(t) /\ Live(t)' = Live(t)
      /\ \A x : /\ ToDuplicate(t, x)' = ToDuplicate(t, x) /\ Low(t, x)' = Low(t, x)
                /\ High(t, x)' = High(t, x) /\ Sent(t, x)' = Sent(t, x)
  BY Fixed DEF Live, Sent, SentTo
<1>3. ASSUME NEW x \in DOMAIN Commands(t) PROVE DestOK(t, x)'
  <2>1. /\ ToDuplicate(t, x)' = ToDuplicate(t, x) /\ Low(t, x)' = Low(t, x)
        /\ High(t, x)' = High(t, x) /\ Sent(t, x)' = Sent(t, x) /\ Live(t)' = Live(t)
    BY <1>2
  <2>2. ~Begun(t, x)' /\ DestsOf(w'[t].matched) = DestsOf(w[t].matched) \ {dest}
    BY <1>1 DEF Begun
  <2>3. DestOK(t, x)
    BY DEF ExactInv, ExactOK
  <2>4. CASE x = dest
    BY <1>1, <2>1, <2>2, <2>4 DEF DestOK
  <2>5. CASE x # dest
    <3>1. ~Begun(t, x)
      BY <2>5 DEF Begun
    <3> QED BY <2>1, <2>2, <2>3, <2>5, <3>1 DEF DestOK
  <2> QED BY <2>4, <2>5
<1>4. ExactOK(t)'
  BY <1>1, <1>2, <1>3 DEF ExactOK, Unread, Once
<1> QED BY <1>4, ExactStep

\* The turn of a destination starts or goes on.
LEMMA TurnGoesOn ==
    ASSUME ExactInv, WorkInv, DirectivesInv, TodoInv, NEW t \in Workers, InLoop(t),
           w[t].matched # <<>>, NEW dest, dest = Head(w[t].matched)[2],
           UNCHANGED <<scenario, configVars, isRunning>>,
           \A u \in Workers \ {t} : w'[u] = w[u] /\ sent'[u] = sent[u],
           w'[t].pc \in {"curl", "count"}, w'[t].matched = w[t].matched,
           \A x : x # dest => SentTo(t, x)' = SentTo(t, x),
           NEW n, n = Cardinality(SentTo(t, dest)') + Owed(t)',
           Low(t, dest) <= n, n <= High(t, dest)
    PROVE  ExactInv'
<1>1. ToDuplicate(t, dest) /\ dest \in DestsOf(w[t].matched)
  BY LoopHead
<1>2. /\ Commands(t)' = Commands(t) /\ Live(t)' = Live(t)
      /\ \A x : /\ ToDuplicate(t, x)' = ToDuplicate(t, x) /\ Low(t, x)' = Low(t, x)
                /\ High(t, x)' = High(t, x)
  BY Fixed DEF Live
<1>3. ASSUME NEW x \in DOMAIN Commands(t) PROVE DestOK(t, x)'
  <2>1. /\ ToDuplicate(t, x)' = ToDuplicate(t, x) /\ Low(t, x)' = Low(t, x)
        /\ High(t, x)' = High(t, x) /\ Live(t)' = Live(t)
    BY <1>2
  <2>2. Begun(t, x)' <=> x = dest
    BY DEF Begun
  <2>3. DestOK(t, x)
    BY DEF ExactInv, ExactOK
  <2>4. CASE x = dest
    <3>1. Sent(t, x)' + Owed(t)' = n
      BY <2>4 DEF Sent
    <3> QED BY <1>1, <2>1, <2>2, <2>4, <3>1 DEF DestOK
  <2>5. CASE x # dest
    <3>1. ~Begun(t, x) /\ Sent(t, x)' = Sent(t, x)
      BY <2>5 DEF Begun, Sent
    <3> QED BY <2>1, <2>2, <2>3, <2>5, <3>1 DEF DestOK
  <2> QED BY <2>4, <2>5
<1>4. Once(w[t].matched)
  BY DEF ExactInv, ExactOK
<1>5. ExactOK(t)'
  BY <1>2, <1>3, <1>4 DEF ExactOK, Unread, Once
<1> QED BY <1>5, ExactStep

LEMMA nextFilterExact ==
    ASSUME ExactInv, WorkInv, DirectivesInv, TodoInv, NEW t \in Workers, nextFilter(t)
    PROVE  ExactInv'
<1>1. ThreadsOK /\ ExactOK(t)
  BY WorkThreads DEF ExactInv
<1>2. w[t].pc = "filter" /\ UNCHANGED <<scenario, configVars, isRunning, sent>>
  BY <1>1, nextFilterStep
<1>3. InLoop(t)
  BY <1>2 DEF InLoop
<1>4. CASE w[t].matched = <<>>
  <2>1. w'[t].pc = "done" /\ w'[t].matched = w[t].matched /\ \A u \in Workers \ {t} : w'[u] = w[u]
    BY <1>1, <1>4, nextFilterStep DEF Becomes
  <2>2. /\ Commands(t)' = Commands(t) /\ Live(t)' = Live(t)
        /\ \A x : /\ ToDuplicate(t, x)' = ToDuplicate(t, x) /\ Low(t, x)' = Low(t, x)
                  /\ High(t, x)' = High(t, x) /\ Sent(t, x)' = Sent(t, x)
    BY <1>2, Fixed DEF Live, Sent, SentTo
  <2>3. ASSUME NEW x \in DOMAIN Commands(t) PROVE DestOK(t, x)'
    <3>1. /\ ToDuplicate(t, x)' = ToDuplicate(t, x) /\ Low(t, x)' = Low(t, x)
          /\ High(t, x)' = High(t, x) /\ Sent(t, x)' = Sent(t, x) /\ Live(t)' = Live(t)
      BY <2>2
    <3>2. ~Begun(t, x)' /\ ~Begun(t, x)
      BY <1>2, <2>1 DEF Begun
    <3>3. DestOK(t, x)
      BY <1>1, <1>3 DEF ExactOK
    <3> QED BY <2>1, <3>1, <3>2, <3>3 DEF DestOK
  <2>4. ExactOK(t)'
    BY <1>1, <1>4, <2>1, <2>2, <2>3 DEF ExactOK, Unread, Once
  <2> QED BY <1>2, <2>1, <2>4, ExactStep
<1>5. CASE w[t].matched # <<>>
  <2>1. PICK dest : dest = Head(w[t].matched)[2]
    OBVIOUS
  <2>2. /\ dest \in DOMAIN Commands(t) /\ dest \in DestsOf(w[t].matched)
        /\ FilterAt(t, Head(w[t].matched)).dest = dest
        /\ Low(t, dest) \in Nat /\ High(t, dest) \in Nat /\ DestOK(t, dest)
    BY <1>3, <1>5, <2>1, LoopHead
  <2>3. Sent(t, dest) = 0
    BY <1>2, <2>2 DEF DestOK, Begun
  <2>4. PICK rand \in Rands : \E n :
              /\ n = toDuplicateInt(Commands(t)[dest].mDuplicationPercentage, rand)
              /\ \/ n = 0 /\ Becomes(t, "filter", w[t].req, w[t].dests, w[t].pending,
                                     Tail(w[t].matched), w[t].dups, w[t].raced)
                 \/ n # 0 /\ Becomes(t, "curl", w[t].req, w[t].dests, w[t].pending,
                                     w[t].matched, n, w[t].raced)
    BY <1>1, <1>5, <2>2, nextFilterStep
  <2>5. PICK n : /\ n = toDuplicateInt(Commands(t)[dest].mDuplicationPercentage, rand)
                 /\ \/ n = 0 /\ Becomes(t, "filter", w[t].req, w[t].dests, w[t].pending,
                                        Tail(w[t].matched), w[t].dups, w[t].raced)
                    \/ n # 0 /\ Becomes(t, "curl", w[t].req, w[t].dests, w[t].pending,
                                        w[t].matched, n, w[t].raced)
    BY <2>4
  <2>6. n \in Nat /\ Low(t, dest) <= n /\ n <= High(t, dest)
    BY <2>2, <2>5, PercentType, toDuplicateIntType DEF Low, High
  <2>7. CASE n = 0
    <3>1. /\ w'[t].pc = "filter" /\ w'[t].matched = Tail(w[t].matched)
          /\ \A u \in Workers \ {t} : w'[u] = w[u]
      BY <2>5, <2>7 DEF Becomes
    <3>2. Sent(t, dest) <= High(t, dest) /\ Low(t, dest) <= Sent(t, dest)
      BY <2>2, <2>3, <2>6, <2>7
    <3> QED BY <1>2, <1>3, <1>5, <2>1, <3>1, <3>2, TurnEnds
  <2>8. CASE n # 0
    <3>1. /\ w'[t].pc = "curl" /\ w'[t].matched = w[t].matched /\ w'[t].dups = n
          /\ \A u \in Workers \ {t} : w'[u] = w[u]
      BY <2>5, <2>8 DEF Becomes
    <3>2. \A x : SentTo(t, x)' = SentTo(t, x)
      BY <1>2 DEF SentTo
    <3>3. n = Cardinality(SentTo(t, dest)') + Owed(t)'
      <4>1. Owed(t)' = n
        BY <3>1 DEF Owed
      <4>2. Cardinality(SentTo(t, dest)') = 0
        BY <2>3, <3>2 DEF Sent
      <4> QED BY <2>6, <4>1, <4>2
    <3> QED BY <1>2, <1>3, <1>5, <2>1, <2>6, <3>1, <3>2, <3>3, TurnGoesOn
  <2> QED BY <2>7, <2>8
<1> QED BY <1>4, <1>5

LEMMA CallDest ==
    ASSUME NEW t \in Workers
    PROVE  Call(t).dest = FilterAt(t, Head(w[t].matched)).dest
<1> DEFINE f == FilterAt(t, Head(w[t].matched))
<1>1. ASSUME NEW r, NEW g PROVE performCurlCall(r, g).dest = g.dest
  BY DEF performCurlCall
<1>2. Call(t) = performCurlCall(DuplicateOf(t, f, Commands(t)[f.dest]), f)
  BY DEF Call
<1> HIDE DEF f
<1>3. Call(t).dest = f.dest
  BY <1>1, <1>2
<1> QED BY <1>3 DEF f

LEMMA duplicateExact ==
    ASSUME ExactInv, WorkInv, DirectivesInv, TodoInv, NEW t \in Workers, duplicate(t)
    PROVE  ExactInv'
<1>1. ThreadsOK /\ Good(t)
  BY WorkThreads DEF WorkInv
<1>2. w[t].pc = "curl" /\ UNCHANGED <<scenario, configVars, isRunning>>
  BY <1>1, duplicateStep
<1>3. InLoop(t) /\ w[t].matched # <<>> /\ w[t].dups # 0
  BY <1>1, <1>2 DEF InLoop, Good
<1>4. PICK dest : dest = Head(w[t].matched)[2]
  OBVIOUS
<1>5. /\ FilterAt(t, Head(w[t].matched)).dest = dest
      /\ Low(t, dest) \in Nat /\ High(t, dest) \in Nat /\ Sent(t, dest) \in Nat
      /\ w[t].dups \in Nat /\ DestOK(t, dest)
  BY <1>3, <1>4, LoopHead
<1>6. Low(t, dest) <= Sent(t, dest) + w[t].dups /\ Sent(t, dest) + w[t].dups <= High(t, dest)
  BY <1>2, <1>4, <1>5 DEF DestOK, Begun, Owed
<1>7. CASE /\ ~Live(t) /\ UNCHANGED sent /\ w'[t].pc = "filter" /\ w'[t].matched = Tail(w[t].matched)
           /\ \A u \in Workers \ {t} : w'[u] = w[u]
  <2>1. Sent(t, dest) <= High(t, dest)
    BY <1>5, <1>6
  <2> QED BY <1>2, <1>3, <1>4, <1>7, <2>1, TurnEnds
<1>8. CASE /\ sent' = [sent EXCEPT ![t] = Append(@, Call(t))]
           /\ w'[t].pc = "count" /\ w'[t].matched = w[t].matched /\ w'[t].dups = w[t].dups
           /\ \A u \in Workers \ {t} : w'[u] = w[u]
  <2> DEFINE call == Call(t)
             k == Len(sent[t]) + 1
  <2>1. call.dest = dest
    BY <1>5, CallDest
  <2> HIDE DEF call
  <2>2. sent'[t] = Append(sent[t], call) /\ \A u \in Workers \ {t} : sent'[u] = sent[u]
    BY <1>8 DEF WorkInv, call
  <2>3. /\ Len(sent[t]) \in Nat /\ DOMAIN sent[t] = 1 .. Len(sent[t])
        /\ DOMAIN sent'[t] = 1 .. Len(sent[t]) + 1 /\ sent'[t][k] = call
        /\ \A i \in 1 .. Len(sent[t]) : sent'[t][i] = sent[t][i]
    <3>1. IsList(sent[t])
      BY DEF WorkInv
    <3>2. sent[t] \in Seq(Range(sent[t]) \cup {call})
      BY <3>1 DEF IsList
    <3> QED BY <2>2, <3>2
  <2>4. ASSUME NEW x PROVE SentTo(t, x)' = SentTo(t, x) \cup (IF x = dest THEN {k} ELSE {})
    BY <2>1, <2>3 DEF SentTo
  <2>5. k \notin SentTo(t, dest)
    BY <2>3 DEF SentTo
  <2> HIDE DEF k
  <2>6. SentTo(t, dest)' = SentTo(t, dest) \cup {k}
    BY <2>4
  <2>7. Cardinality(SentTo(t, dest)') = Sent(t, dest) + 1
    BY <2>5, <2>6, SentType, FS_AddElement DEF Sent
  <2>8. Owed(t)' = w[t].dups - 1
    BY <1>8 DEF Owed
  <2>9. Cardinality(SentTo(t, dest)') + Owed(t)' = Sent(t, dest) + w[t].dups
    BY <1>5, <2>7, <2>8
  <2>10. \A x : x # dest => SentTo(t, x)' = SentTo(t, x)
    BY <2>4
  <2> QED BY <1>2, <1>3, <1>4, <1>6, <1>8, <2>2, <2>9, <2>10, TurnGoesOn
<1> QED BY <1>1, <1>7, <1>8, duplicateStep DEF Becomes, Live

LEMMA countDuplicateExact ==
    ASSUME ExactInv, WorkInv, DirectivesInv, TodoInv, NEW t \in Workers, countDuplicate(t)
    PROVE  ExactInv'
<1>1. ThreadsOK /\ Good(t)
  BY WorkThreads DEF WorkInv
<1>2. w[t].pc = "count" /\ UNCHANGED <<scenario, configVars, isRunning, sent>>
  BY <1>1, countDuplicateStep
<1>3. InLoop(t) /\ w[t].matched # <<>> /\ w[t].dups # 0
  BY <1>1, <1>2 DEF InLoop, Good
<1>4. PICK dest : dest = Head(w[t].matched)[2]
  OBVIOUS
<1>5. /\ Low(t, dest) \in Nat /\ High(t, dest) \in Nat /\ Sent(t, dest) \in Nat
      /\ w[t].dups \in Nat /\ DestOK(t, dest)
  BY <1>3, <1>4, LoopHead
<1>6. /\ Low(t, dest) <= Sent(t, dest) + (w[t].dups - 1)
      /\ Sent(t, dest) + (w[t].dups - 1) <= High(t, dest)
  BY <1>2, <1>4, <1>5 DEF DestOK, Begun, Owed
<1>7. CASE w[t].dups = 1
  <2>1. /\ w'[t].pc = "filter" /\ w'[t].matched = Tail(w[t].matched)
        /\ \A u \in Workers \ {t} : w'[u] = w[u]
    BY <1>1, <1>7, countDuplicateStep DEF Becomes
  <2>2. Sent(t, dest) <= High(t, dest) /\ Low(t, dest) <= Sent(t, dest)
    BY <1>5, <1>6, <1>7
  <2> QED BY <1>2, <1>3, <1>4, <2>1, <2>2, TurnEnds
<1>8. CASE w[t].dups # 1
  <2>1. /\ w'[t].pc = "curl" /\ w'[t].matched = w[t].matched /\ w'[t].dups = w[t].dups - 1
        /\ \A u \in Workers \ {t} : w'[u] = w[u]
    BY <1>1, <1>8, countDuplicateStep DEF Becomes
  <2>2. \A x : SentTo(t, x)' = SentTo(t, x)
    BY <1>2 DEF SentTo
  <2>3. Cardinality(SentTo(t, dest)') + Owed(t)' = Sent(t, dest) + (w[t].dups - 1)
    <3>1. Owed(t)' = w[t].dups - 1
      BY <2>1 DEF Owed
    <3> QED BY <2>2, <3>1 DEF Sent
  <2> QED BY <1>2, <1>3, <1>4, <1>6, <2>1, <2>2, <2>3, TurnGoesOn
<1> QED BY <1>7, <1>8

\* At each step of runOne a destination is still to be tried, or was matched if
\* its filters ask for it, or had its turn; and what it was sent lies between
\* the bounds of its percentage, given the calls that are still to be made.
THEOREM ExactInvariant == Spec => []ExactInv
<1>1. NewThread.pc = "idle" /\ NewThread.matched = <<>> /\ Once(<<>>)
  BY DEF NewThread, Once
<1>2. Init => ExactInv
  BY <1>1 DEF Init, ExactInv, ExactOK, Unread, InLoop
<1>3. ExactInv /\ WorkInv /\ DirectivesInv /\ TodoInv /\ [Next]_vars => ExactInv'
  <2> SUFFICES ASSUME ExactInv, WorkInv, DirectivesInv, TodoInv, [Next]_vars PROVE ExactInv'
    OBVIOUS
  <2>1. CASE \E t \in Workers : RunOne(t)
    <3>1. PICK t \in Workers : RunOne(t)
      BY <2>1
    <3> QED BY <3>1, initiateDuplicationExact, matchDestinationExact, storeMatchExact,
               addValidationHeadersDupExact, nextFilterExact, duplicateExact, countDuplicateExact
            DEF RunOne
  <2>2. CASE ReadDirective \/ Start
    <3>1. phase = "config" /\ UNCHANGED <<w, sent>>
      BY <2>2, DirectiveRead DEF Start, workVars
    <3>2. \A t \in Workers : w'[t] = NewThread /\ sent'[t] = <<>>
      BY <3>1 DEF WorkInv
    <3> QED BY <1>1, <3>2 DEF ExactInv, ExactOK, Unread, InLoop
  <2>3. CASE stop \/ (\E stat \in DOMAIN counts : getCount(stat)) \/ UNCHANGED vars
    <3>1. UNCHANGED <<scenario, configVars, w, sent>>
      BY <2>3 DEF stop, getCount, vars, workVars
    <3>2. isRunning' = FALSE \/ isRunning' = isRunning
      BY <2>3, Zenon DEF stop, getCount, vars, workVars
    <3>3. isRunning' => isRunning
      BY <3>2, Zenon
    <3> QED BY <3>1, <3>3, ExactKept DEF ExactInv
  <2> QED BY <2>1, <2>2, <2>3 DEF Next
<1> QED BY <1>2, <1>3, WorkInvariant, DirectivesInvariant, TodoInvariant, PTL DEF Spec

\* When runOne ends, each destination got as many duplicates as its percentage
\* says if its filters ask for them, and none otherwise; only the end of the pool
\* makes it fewer. For any directives, destinations, requests and interleaving.
THEOREM DuplicatesAreExact == Spec => []DuplicatesExact
<1>1. ExactInv => DuplicatesExact
  <2> SUFFICES ASSUME ExactInv, NEW t \in Workers, w[t].pc = "done", NEW dest \in DOMAIN Commands(t)
               PROVE  IF ToDuplicate(t, dest)
                      THEN /\ Sent(t, dest) <= High(t, dest)
                           /\ Synchronous(t) \/ isRunning => Sent(t, dest) >= Low(t, dest)
                      ELSE Sent(t, dest) = 0
    BY DEF DuplicatesExact, Sent, High, Low
  <2>1. DestOK(t, dest) /\ w[t].matched = <<>>
    BY DEF ExactInv, ExactOK, InLoop
  <2>2. DestsOf(w[t].matched) = {}
    BY <2>1 DEF DestsOf, Range
  <2> QED BY <2>1, <2>2 DEF DestOK, Live
<1> QED BY <1>1, ExactInvariant, PTL

-----------------------------------------------------------------------------
(* What a duplicate consists of.                                           *)

\* The n-th smallest of some positions exists: the first place at which n of
\* them are not above it.
LEMMA NthOfIn ==
    ASSUME NEW N \in Nat, NEW S \in SUBSET (1 .. N), NEW n \in 1 .. Cardinality(S)
    PROVE  NthOf(S, n) \in S /\ Cardinality({j \in S : j <= NthOf(S, n)}) = n
<1> DEFINE Below(i) == {j \in S : j <= i}
<1>0. \A j \in S : j \in Nat /\ 1 <= j /\ j <= N
  OBVIOUS
<1>1. IsFiniteSet(S) /\ Cardinality(S) \in Nat
  <2>1. IsFiniteSet(1 .. N)
    BY FS_Interval
  <2> QED BY <2>1, FS_Subset, FS_CardinalityType
<1>2. ASSUME NEW i PROVE IsFiniteSet(Below(i)) /\ Cardinality(Below(i)) \in Nat
  <2>1. Below(i) \subseteq S
    OBVIOUS
  <2> HIDE DEF Below
  <2> QED BY <1>1, <2>1, FS_Subset, FS_CardinalityType
<1> DEFINE Enough == {i \in 0 .. N : n <= Cardinality(Below(i))}
<1>3. N \in Enough
  <2>1. Below(N) = S
    BY <1>0
  <2> HIDE DEF Below
  <2> QED BY <2>1
<1>4. PICK i \in Enough : \A x \in Enough : i <= x
  <2>1. Enough \in SUBSET Nat /\ Enough # {}
    BY <1>3
  <2> HIDE DEF Enough
  <2> QED BY <2>1, MinIn
<1>5. i # 0
  <2>1. Below(0) = {}
    <3>1. \A j \in S : ~(j <= 0)
      BY <1>0
    <3> QED BY <3>1
  <2>2. Cardinality(Below(0)) = 0
    BY <2>1, FS_EmptySet
  <2>3. n \in Nat /\ 1 <= n
    BY <1>1
  <2>4. n <= Cardinality(Below(i))
    BY <1>4
  <2> HIDE DEF Below
  <2> QED BY <2>2, <2>3, <2>4
<1>6. i - 1 \in 0 .. N /\ i \in 1 .. N /\ i - 1 \notin Enough
  <2>1. i \in 1 .. N /\ ~(i <= i - 1)
    BY <1>4, <1>5
  <2> HIDE DEF Enough
  <2> QED BY <1>4, <2>1
<1>7. ~(n <= Cardinality(Below(i - 1))) /\ n <= Cardinality(Below(i))
  <2> HIDE DEF Below
  <2> QED BY <1>4, <1>6
<1>8. i \in S
  <2>1. ASSUME i \notin S PROVE Below(i) = Below(i - 1)
    <3>1. ASSUME NEW j \in S PROVE j <= i <=> j <= i - 1
      BY <1>0, <1>6, <2>1, <3>1
    <3> QED BY <3>1
  <2> HIDE DEF Below
  <2> QED BY <1>7, <2>1
<1>9. Below(i) = Below(i - 1) \cup {i} /\ i \notin Below(i - 1)
  <2>1. ASSUME NEW j \in S PROVE j <= i <=> j <= i - 1 \/ j = i
    BY <1>0, <1>6, <2>1
  <2>2. i <= i /\ ~(i <= i - 1)
    BY <1>6
  <2> QED BY <1>8, <2>1, <2>2
<1>10. Cardinality(Below(i)) = n
  <2> HIDE DEF Below, Enough
  <2>1. Cardinality(Below(i)) = Cardinality(Below(i - 1)) + 1
    BY <1>2, <1>9, FS_AddElement
  <2>2. n \in Nat
    BY <1>1
  <2> QED BY <1>2, <1>7, <2>1, <2>2
<1>11. \E k \in S : Cardinality({j \in S : j <= k}) = n
  BY <1>8, <1>10
<1> QED BY <1>11 DEF NthOf

\* Pick takes the entries at these positions, each once.
LEMMA PickIn ==
    ASSUME NEW s, NEW N \in Nat, NEW S \in SUBSET (1 .. N), DOMAIN s = 1 .. N
    PROVE  /\ \A n \in DOMAIN Pick(s, S) : \E i \in S : Pick(s, S)[n] = s[i]
           /\ \A n, m \in DOMAIN Pick(s, S) : n # m =>
                \E i, j \in S : i # j /\ Pick(s, S)[n] = s[i] /\ Pick(s, S)[m] = s[j]
<1>1. DOMAIN Pick(s, S) = 1 .. Cardinality(S)
  BY DEF Pick
<1>2. ASSUME NEW n \in 1 .. Cardinality(S)
      PROVE  /\ NthOf(S, n) \in S /\ Cardinality({j \in S : j <= NthOf(S, n)}) = n
             /\ Pick(s, S)[n] = s[NthOf(S, n)]
  BY <1>2, NthOfIn DEF Pick
<1>3. ASSUME NEW n \in 1 .. Cardinality(S), NEW m \in 1 .. Cardinality(S), n # m
      PROVE  NthOf(S, n) # NthOf(S, m)
  BY <1>2, <1>3
<1> QED BY <1>1, <1>2, <1>3

LEMMA PickNone ==
    ASSUME NEW s
    PROVE  Pick(s, {}) = <<>>
<1>1. Cardinality({}) = 0
  BY FS_EmptySet
<1>2. Pick(s, {}) = [n \in 1 .. 0 |-> s[NthOf({}, n)]]
  BY <1>1 DEF Pick
<1> QED BY <1>2

\* No key twice, but for the patterns.
Keys(s) == {s[i].key : i \in DOMAIN s}
KeysOnce(s) == \A i, j \in DOMAIN s : i < j /\ s[i].key = s[j].key => s[i].key = <<"X-MATCHED-PATTERN">>

LEMMA ConcatOnce ==
    ASSUME NEW s, IsList(s), KeysOnce(s), NEW r, IsList(r), KeysOnce(r),
           \A k \in Keys(s) \cap Keys(r) : k = <<"X-MATCHED-PATTERN">>
    PROVE  IsList(s \o r) /\ KeysOnce(s \o r) /\ Keys(s \o r) = Keys(s) \cup Keys(r)
           /\ Range(s \o r) = Range(s) \cup Range(r)
<1>1. IsList(s \o r) /\ Range(s \o r) = Range(s) \cup Range(r)
  BY ConcatList
<1>2. \A x : Keys(x) = {h.key : h \in Range(x)}
  BY DEF Keys, Range
<1>3. Keys(s \o r) = Keys(s) \cup Keys(r)
  BY <1>1, <1>2
<1>4. s \in Seq(Range(s) \cup Range(r)) /\ r \in Seq(Range(s) \cup Range(r))
  BY DEF IsList
<1>5. /\ Len(s \o r) = Len(s) + Len(r) /\ Len(s) \in Nat /\ Len(r) \in Nat
      /\ \A i \in 1 .. Len(s) : (s \o r)[i] = s[i]
      /\ \A i \in 1 .. Len(r) : (s \o r)[Len(s) + i] = r[i]
      /\ DOMAIN s = 1 .. Len(s) /\ DOMAIN r = 1 .. Len(r) /\ DOMAIN (s \o r) = 1 .. Len(s) + Len(r)
  BY <1>4
<1> DEFINE sr == s \o r
<1>6. /\ DOMAIN sr = 1 .. Len(s) + Len(r) /\ \A i \in 1 .. Len(s) : sr[i] = s[i]
      /\ \A i \in 1 .. Len(r) : sr[Len(s) + i] = r[i]
  BY <1>5
<1> HIDE DEF sr
<1>7. ASSUME NEW i \in DOMAIN sr, NEW j \in DOMAIN sr, i < j, sr[i].key = sr[j].key
      PROVE  sr[i].key = <<"X-MATCHED-PATTERN">>
  <2>1. CASE j \in 1 .. Len(s)
    <3>1. i \in 1 .. Len(s)
      BY <1>5, <1>6, <1>7, <2>1
    <3> QED BY <1>5, <1>6, <1>7, <2>1, <3>1 DEF KeysOnce
  <2>2. CASE j \notin 1 .. Len(s) /\ i \in 1 .. Len(s)
    <3>1. j - Len(s) \in 1 .. Len(r) /\ j = Len(s) + (j - Len(s))
      BY <1>5, <1>6, <1>7, <2>2
    <3>2. sr[j] = r[j - Len(s)] /\ sr[i] = s[i]
      BY <1>6, <2>2, <3>1
    <3>3. sr[i].key \in Keys(s) /\ sr[i].key \in Keys(r)
      BY <1>5, <1>7, <2>2, <3>1, <3>2 DEF Keys
    <3> QED BY <3>3
  <2>3. CASE j \notin 1 .. Len(s) /\ i \notin 1 .. Len(s)
    <3>1. /\ j - Len(s) \in 1 .. Len(r) /\ j = Len(s) + (j - Len(s))
          /\ i - Len(s) \in 1 .. Len(r) /\ i = Len(s) + (i - Len(s)) /\ i - Len(s) < j - Len(s)
      BY <1>5, <1>6, <1>7, <2>3
    <3>2. sr[j] = r[j - Len(s)] /\ sr[i] = r[i - Len(s)]
      BY <1>6, <3>1
    <3> QED BY <1>5, <1>7, <3>1, <3>2 DEF KeysOnce
  <2> QED BY <2>1, <2>2, <2>3
<1> QED BY <1>1, <1>3, <1>7 DEF KeysOnce, sr

LEMMA SomeOnce ==
    ASSUME NEW h
    PROVE  IsList(<<h>>) /\ KeysOnce(<<h>>) /\ Keys(<<h>>) = {h.key} /\ Range(<<h>>) = {h}
<1>1. IsList(<<h>>) /\ Range(<<h>>) = {h}
  BY SingleList
<1>2. DOMAIN <<h>> = {1} /\ <<h>>[1] = h
  OBVIOUS
<1> QED BY <1>1, <1>2 DEF KeysOnce, Keys

LEMMA NoneOnce == IsList(<<>>) /\ KeysOnce(<<>>) /\ Keys(<<>>) = {} /\ Range(<<>>) = {}
BY DEF IsList, KeysOnce, Keys, Range

LEMMA CommonOnce ==
    /\ IsList(CommonHeaders) /\ KeysOnce(CommonHeaders)
    /\ Keys(CommonHeaders) = {<<"ELAPSED_TIME_BY_DUP">>, <<"Expect">>, <<"X-DUPLICATED-REQUEST">>,
                              <<"User-RealAgent">>}
<1> DEFINE a == Header("ELAPSED_TIME_BY_DUP", <<"ms">>)
           b == Header("Expect", <<>>)
           e == Header("X-DUPLICATED-REQUEST", <<"1">>)
           g == Header("User-RealAgent", <<"mod-dup">>)
<1>1. /\ a.key = <<"ELAPSED_TIME_BY_DUP">> /\ b.key = <<"Expect">>
      /\ e.key = <<"X-DUPLICATED-REQUEST">> /\ g.key = <<"User-RealAgent">>
  BY DEF Header
<1>2. CommonHeaders = <<a, b, e, g>>
  BY DEF CommonHeaders
<1> HIDE DEF a, b, e, g
<1> DEFINE s == <<a, b, e, g>>
<1>3. DOMAIN s = 1 .. 4 /\ s[1] = a /\ s[2] = b /\ s[3] = e /\ s[4] = g
  OBVIOUS
<1>4. s = [i \in 1 .. 4 |-> s[i]]
  OBVIOUS
<1> HIDE DEF s
<1>5. IsList(s)
  BY <1>4, ListOf
<1>6. Keys(s) = {s[1].key, s[2].key, s[3].key, s[4].key}
  BY <1>3 DEF Keys
<1>7. \A i, j \in 1 .. 4 : i < j => s[i].key # s[j].key
  BY <1>1, <1>3
<1> QED BY <1>1, <1>2, <1>3, <1>5, <1>6, <1>7 DEF KeysOnce, s

\* The patterns of the answer's headers.
LEMMA PatternKeys ==
    ASSUME NEW out, IsList(out), NEW p,
           p = Pick(out, {i \in DOMAIN out : out[i].key = <<"X-MATCHED-PATTERN">>})
    PROVE  IsList(p) /\ KeysOnce(p) /\ \A h \in Range(p) : h.key = <<"X-MATCHED-PATTERN">>
<1> DEFINE S == {i \in DOMAIN out : out[i].key = <<"X-MATCHED-PATTERN">>}
<1>1. Len(out) \in Nat /\ DOMAIN out = 1 .. Len(out)
  BY ListDomain
<1>2. S \in SUBSET (1 .. Len(out)) /\ p = Pick(out, S)
  BY <1>1
<1>3. \A i \in S : out[i].key = <<"X-MATCHED-PATTERN">>
  OBVIOUS
<1>4. ASSUME NEW N \in Nat, NEW T \in SUBSET (1 .. N), DOMAIN out = 1 .. N
      PROVE  IsList(Pick(out, T)) /\ \A n \in DOMAIN Pick(out, T) : \E i \in T : Pick(out, T)[n] = out[i]
  <2>1. IsList(Pick(out, T))
    BY <1>4, PickList
  <2>2. \A n \in DOMAIN Pick(out, T) : \E i \in T : Pick(out, T)[n] = out[i]
    BY <1>4, PickIn
  <2> QED BY <2>1, <2>2
<1>5. IsList(Pick(out, S)) /\ \A n \in DOMAIN Pick(out, S) : \E i \in S : Pick(out, S)[n] = out[i]
  <2> HIDE DEF S
  <2> QED BY <1>1, <1>2, <1>4
<1> HIDE DEF S
<1>6. IsList(p)
  BY <1>2, <1>5
<1>7. \A n \in DOMAIN p : \E i \in S : p[n] = out[i]
  BY <1>2, <1>5
<1>8. \A n \in DOMAIN p : p[n].key = <<"X-MATCHED-PATTERN">>
  BY <1>3, <1>7
<1> QED BY <1>6, <1>8 DEF KeysOnce, Range

\* The headers mod_dup adds itself.
OwnHeaders(r, f) ==
    LET patterns == Pick(r.mHeadersOut, {i \in DOMAIN r.mHeadersOut :
                                            r.mHeadersOut[i].key = <<"X-MATCHED-PATTERN">>})
        withBody == f.dupType = DuplicationType.COMPLETE_REQUEST /\ r.mBody # <<>>
        dupFormat == <<Header("Content-Type", <<"application/x-dup-serialized">>),
                       Header("Duplication-Type", <<"Response">>)>> \o patterns
        length == <<Header("Content-Length", <<"n">>)>>
    IN CommonHeaders \o addValidationHeadersCompare(r, f)
       \o (IF WithAnswer(f) THEN dupFormat \o length ELSE IF withBody THEN length ELSE <<>>)

OwnKeys == NeverCopied \cup {<<"Content-Type">>, <<"X_COMP_LOG">>, <<"X-MATCHED-PATTERN">>}

LEMMA OwnOnce ==
    ASSUME NEW r, IsList(r.mHeadersOut), NEW f
    PROVE  /\ IsList(OwnHeaders(r, f)) /\ KeysOnce(OwnHeaders(r, f))
           /\ \A h \in Range(OwnHeaders(r, f)) : h \in Range(CommonHeaders) \/ h.key \in OwnKeys
<1> DEFINE patterns == Pick(r.mHeadersOut, {i \in DOMAIN r.mHeadersOut :
                                            r.mHeadersOut[i].key = <<"X-MATCHED-PATTERN">>})
           withBody == f.dupType = DuplicationType.COMPLETE_REQUEST /\ r.mBody # <<>>
           type == Header("Content-Type", <<"application/x-dup-serialized">>)
           dup == Header("Duplication-Type", <<"Response">>)
           size == Header("Content-Length", <<"n">>)
           log == Header("X_COMP_LOG", <<"ON">>)
           compare == addValidationHeadersCompare(r, f)
           last == IF WithAnswer(f) THEN <<type, dup>> \o patterns \o <<size>>
                   ELSE IF withBody THEN <<size>> ELSE <<>>
<1>1. OwnHeaders(r, f) = CommonHeaders \o compare \o last
  BY DEF OwnHeaders
<1>2. /\ type.key = <<"Content-Type">> /\ dup.key = <<"Duplication-Type">>
      /\ size.key = <<"Content-Length">> /\ log.key = <<"X_COMP_LOG">>
  BY DEF Header
<1>3. IsList(patterns) /\ KeysOnce(patterns) /\ \A h \in Range(patterns) : h.key = <<"X-MATCHED-PATTERN">>
  BY PatternKeys
<1>4. compare = <<log>> \/ compare = <<>>
  BY DEF addValidationHeadersCompare
<1>5. last = <<type, dup>> \o patterns \o <<size>> \/ last = <<size>> \/ last = <<>>
  OBVIOUS
<1> HIDE DEF patterns, type, dup, size, log, compare, last
<1>6. \A s : \A k \in Keys(s) : \E h \in Range(s) : k = h.key
  BY DEF Keys, Range
<1>7. /\ IsList(<<type, dup>>) /\ KeysOnce(<<type, dup>>) /\ Keys(<<type, dup>>) = {type.key, dup.key}
      /\ Range(<<type, dup>>) = {type, dup}
  <2> DEFINE s == <<type, dup>>
  <2>1. DOMAIN s = 1 .. 2 /\ s[1] = type /\ s[2] = dup /\ s = [i \in 1 .. 2 |-> s[i]]
    OBVIOUS
  <2> HIDE DEF s
  <2>2. IsList(s)
    BY <2>1, ListOf
  <2>3. Range(s) = {type, dup} /\ Keys(s) = {type.key, dup.key}
    BY <2>1 DEF Range, Keys
  <2>4. \A i, j \in 1 .. 2 : i < j => s[i].key # s[j].key
    BY <1>2, <2>1
  <2> QED BY <2>1, <2>2, <2>3, <2>4 DEF KeysOnce, s
<1>8. Keys(patterns) \subseteq {<<"X-MATCHED-PATTERN">>}
  BY <1>3, <1>6
<1> DEFINE format == <<type, dup>> \o patterns
<1>9. /\ IsList(format) /\ KeysOnce(format) /\ Keys(format) = {type.key, dup.key} \cup Keys(patterns)
      /\ Range(format) = {type, dup} \cup Range(patterns)
  BY <1>2, <1>3, <1>7, <1>8, ConcatOnce
<1>10. /\ IsList(<<size>>) /\ KeysOnce(<<size>>) /\ Keys(<<size>>) = {size.key} /\ Range(<<size>>) = {size}
  BY SomeOnce
<1> HIDE DEF format
<1>11. /\ IsList(format \o <<size>>) /\ KeysOnce(format \o <<size>>)
       /\ Keys(format \o <<size>>) = Keys(format) \cup {size.key}
       /\ Range(format \o <<size>>) = Range(format) \cup {size}
  <2>1. \A k \in Keys(format) \cap Keys(<<size>>) : k = <<"X-MATCHED-PATTERN">>
    BY <1>2, <1>8, <1>9, <1>10
  <2> QED BY <1>9, <1>10, <2>1, ConcatOnce
<1> DEFINE LastKeys == {<<"Content-Type">>, <<"Duplication-Type">>, <<"Content-Length">>, <<"X-MATCHED-PATTERN">>}
<1>12. IsList(last) /\ KeysOnce(last) /\ Keys(last) \subseteq LastKeys /\ \A h \in Range(last) : h.key \in LastKeys
  <2>1. CASE last = <<type, dup>> \o patterns \o <<size>>
    <3>1. last = format \o <<size>>
      BY <2>1 DEF format
    <3>2. \A h \in Range(last) : h.key \in LastKeys
      BY <1>2, <1>3, <1>9, <1>11, <3>1
    <3> QED BY <1>2, <1>8, <1>9, <1>11, <3>1, <3>2
  <2>2. CASE last = <<size>>
    BY <1>2, <1>10, <2>2
  <2>3. CASE last = <<>>
    BY <2>3, NoneOnce
  <2> QED BY <1>5, <2>1, <2>2, <2>3
<1>13. IsList(compare) /\ KeysOnce(compare) /\ Keys(compare) \subseteq {<<"X_COMP_LOG">>}
       /\ \A h \in Range(compare) : h.key = <<"X_COMP_LOG">>
  <2>1. CASE compare = <<log>>
    BY <1>2, <2>1, SomeOnce
  <2>2. CASE compare = <<>>
    BY <2>2, NoneOnce
  <2> QED BY <1>4, <2>1, <2>2
<1> DEFINE first == CommonHeaders \o compare
<1>14. /\ IsList(first) /\ KeysOnce(first) /\ Range(first) = Range(CommonHeaders) \cup Range(compare)
       /\ Keys(first) \subseteq {<<"ELAPSED_TIME_BY_DUP">>, <<"Expect">>, <<"X-DUPLICATED-REQUEST">>,
                                 <<"User-RealAgent">>, <<"X_COMP_LOG">>}
  <2>1. \A k \in Keys(CommonHeaders) \cap Keys(compare) : k = <<"X-MATCHED-PATTERN">>
    BY <1>13, CommonOnce
  <2>2. /\ IsList(first) /\ KeysOnce(first) /\ Range(first) = Range(CommonHeaders) \cup Range(compare)
        /\ Keys(first) = Keys(CommonHeaders) \cup Keys(compare)
    BY <1>13, <2>1, CommonOnce, ConcatOnce
  <2> QED BY <1>13, <2>2, CommonOnce
<1> HIDE DEF first
<1>15. IsList(first \o last) /\ KeysOnce(first \o last) /\ Range(first \o last) = Range(first) \cup Range(last)
  <2>1. \A k \in Keys(first) \cap Keys(last) : k = <<"X-MATCHED-PATTERN">>
    BY <1>12, <1>14
  <2> QED BY <1>12, <1>14, <2>1, ConcatOnce
<1>16. OwnHeaders(r, f) = first \o last
  BY <1>1 DEF first
<1>17. ASSUME NEW h \in Range(first \o last) PROVE h \in Range(CommonHeaders) \/ h.key \in OwnKeys
  <2>1. LastKeys \cup {<<"X_COMP_LOG">>} \subseteq OwnKeys
    BY DEF OwnKeys, NeverCopied
  <2> QED BY <1>12, <1>13, <1>14, <1>15, <1>17, <2>1
<1> QED BY <1>15, <1>16, <1>17

\* addOrigHeaders adds no key that is there already, and none twice.
LEMMA OrigOnce ==
    ASSUME NEW headersIn, IsList(headersIn), NEW slist, IsList(slist), KeysOnce(slist),
           NEW all, all = addOrigHeaders(headersIn, slist)
    PROVE  KeysOnce(all) /\ Range(all) \subseteq Range(slist) \cup Range(headersIn)
<1> DEFINE taken == NeverCopied \cup {slist[i].key : i \in DOMAIN slist}
           copied == {i \in DOMAIN headersIn :
                        /\ headersIn[i].key \notin taken
                        /\ \A j \in 1 .. i - 1 : headersIn[j].key # headersIn[i].key}
           p == Pick(headersIn, copied)
<1>1. all = slist \o p
  BY DEF addOrigHeaders
<1>2. Len(headersIn) \in Nat /\ DOMAIN headersIn = 1 .. Len(headersIn)
  BY ListDomain
<1>3. Keys(slist) \subseteq taken
  BY DEF Keys
<1>4. copied \in SUBSET (1 .. Len(headersIn)) /\ \A i \in copied : headersIn[i].key \notin taken
  BY <1>2
<1>5. ASSUME NEW i \in copied, NEW j \in copied, i # j PROVE headersIn[i].key # headersIn[j].key
  <2>1. i \in Nat /\ j \in Nat /\ 1 <= i /\ 1 <= j
    BY <1>4, <1>5
  <2>2. CASE i < j
    <3>1. i \in 1 .. j - 1
      BY <2>1, <2>2
    <3> QED BY <1>5, <3>1
  <2>3. CASE j < i
    <3>1. j \in 1 .. i - 1
      BY <2>1, <2>3
    <3> QED BY <1>5, <3>1
  <2> QED BY <1>5, <2>1, <2>2, <2>3
<1> HIDE DEF taken, copied
<1>6. IsList(p)
  BY <1>2, <1>4, PickList
<1>7. /\ \A n \in DOMAIN p : \E i \in copied : p[n] = headersIn[i]
      /\ \A n, m \in DOMAIN p : n # m =>
                \E i, j \in copied : i # j /\ p[n] = headersIn[i] /\ p[m] = headersIn[j]
  BY <1>2, <1>4, PickIn
<1> HIDE DEF p
<1>8. \A n, m \in DOMAIN p : n # m => p[n].key # p[m].key
  BY <1>5, <1>7
<1>9. DOMAIN p \subseteq Nat
  BY <1>6, ListDomain
<1>10. KeysOnce(p)
  BY <1>8, <1>9 DEF KeysOnce
<1>11. \A k \in Keys(p) : k \notin taken
  BY <1>4, <1>7 DEF Keys
<1>12. KeysOnce(slist \o p) /\ Range(slist \o p) = Range(slist) \cup Range(p)
  <2>1. \A k \in Keys(slist) \cap Keys(p) : k = <<"X-MATCHED-PATTERN">>
    BY <1>3, <1>11
  <2> QED BY <1>6, <1>10, <2>1, ConcatOnce
<1>13. Range(p) \subseteq Range(headersIn)
  BY <1>4, <1>2, <1>7 DEF Range
<1> QED BY <1>1, <1>12, <1>13

\* A call: its headers, and what it takes from the request as it is.
LEMMA CallParts ==
    ASSUME NEW r, IsList(r.mHeadersIn), IsList(r.mHeadersOut), NEW f,
           NEW call, call = performCurlCall(r, f)
    PROVE  /\ call.dest = f.dest /\ call.path = r.mPath /\ call.args = r.mArgs
           /\ call.body \in {<<>>, r.mBody} /\ KeysOnce(call.headers)
           /\ \A h \in Range(call.headers) :
                h \in Range(r.mHeadersIn) \/ h \in Range(CommonHeaders) \/ h.key \in OwnKeys
<1>1. call.dest = f.dest /\ call.path = r.mPath /\ call.args = r.mArgs
  BY DEF performCurlCall
<1>2. call.body \in {<<>>, r.mBody}
  BY DEF performCurlCall
<1>3. call.headers = addOrigHeaders(r.mHeadersIn, OwnHeaders(r, f))
  BY DEF performCurlCall, OwnHeaders
<1>4. /\ IsList(OwnHeaders(r, f)) /\ KeysOnce(OwnHeaders(r, f))
      /\ \A h \in Range(OwnHeaders(r, f)) : h \in Range(CommonHeaders) \/ h.key \in OwnKeys
  BY OwnOnce
<1> DEFINE own == OwnHeaders(r, f)
           all == call.headers
<1> HIDE DEF own, all
<1>5. KeysOnce(all) /\ Range(all) \subseteq Range(own) \cup Range(r.mHeadersIn)
  BY <1>3, <1>4, OrigOnce DEF own, all
<1> QED BY <1>1, <1>2, <1>4, <1>5 DEF own, all

\* The raw substitutions about some part.
About(subs, parts) == Pick(subs, {i \in DOMAIN subs : subs[i].scope \cap parts # {}})

LEMMA rawSubstituteFields ==
    ASSUME NEW subs, NEW k, {"mPath", "mArgs", "mBody"} \subseteq DOMAIN k,
           NEW r, r = rawSubstitute(subs, k)
    PROVE  /\ DOMAIN r = DOMAIN k
           /\ r.mPath = SubstituteAll(k.mPath, About(subs, URL))
           /\ r.mBody = SubstituteAll(k.mBody, About(subs, {"BODY"}))
           /\ r.mArgs = SubstituteAll(k.mArgs, About(subs, {"QUERY_STRING"}))
           /\ \A x \in DOMAIN k \ {"mPath", "mArgs", "mBody"} : r[x] = k[x]
<1> DEFINE path == SubstituteAll(k.mPath, About(subs, URL))
           body == SubstituteAll(k.mBody, About(subs, {"BODY"}))
           args == SubstituteAll(k.mArgs, About(subs, {"QUERY_STRING"}))
<1>1. r = [k EXCEPT !.mPath = path, !.mBody = body, !.mArgs = args]
  BY DEF rawSubstitute, About
<1> HIDE DEF path, body, args
<1>2. /\ DOMAIN r = DOMAIN k /\ r.mPath = path /\ r.mBody = body /\ r.mArgs = args
      /\ \A x \in DOMAIN k \ {"mPath", "mArgs", "mBody"} : r[x] = k[x]
  BY <1>1
<1> QED BY <1>2 DEF path, body, args

\* Each part of the duplicate depends on that part of the request only.
LEMMA substituteRequestFields ==
    ASSUME NEW codec, NEW commands, NEW q, {"mPath", "mArgs", "mHeadersIn", "mBody"} \subseteq DOMAIN q,
           NEW r, r = substituteRequest(codec, commands, q)
    PROVE  LET subs == commands.mSubstitutions
               raw == commands.mRawSubstitutions
           IN /\ DOMAIN r = DOMAIN q
              /\ r.mPath = SubstituteAll(q.mPath, About(raw, URL))
              /\ r.mBody = SubstituteAll(keySubstitute(codec, subs, parseArgs(codec, q.mBody), "BODY", q.mBody),
                                         About(raw, {"BODY"}))
              /\ r.mArgs = SubstituteAll(keySubstitute(codec, subs, q.mParsedArgs, "QUERY_STRING", q.mArgs),
                                         About(raw, {"QUERY_STRING"}))
              /\ r.mHeadersIn = headerSubstitute(subs, q.mHeadersIn)
              /\ \A x \in DOMAIN q \ {"mPath", "mArgs", "mHeadersIn", "mBody"} : r[x] = q[x]
<1> DEFINE subs == commands.mSubstitutions
           raw == commands.mRawSubstitutions
           args == keySubstitute(codec, subs, q.mParsedArgs, "QUERY_STRING", q.mArgs)
           headers == headerSubstitute(subs, q.mHeadersIn)
           body == keySubstitute(codec, subs, parseArgs(codec, q.mBody), "BODY", q.mBody)
           keyed == [q EXCEPT !.mArgs = args, !.mHeadersIn = headers, !.mBody = body]
<1>1. r = rawSubstitute(raw, keyed)
  BY DEF substituteRequest
<1> HIDE DEF args, headers, body
<1>2. /\ DOMAIN keyed = DOMAIN q /\ keyed.mPath = q.mPath /\ keyed.mArgs = args
      /\ keyed.mHeadersIn = headers /\ keyed.mBody = body
      /\ \A x \in DOMAIN q \ {"mPath", "mArgs", "mHeadersIn", "mBody"} : keyed[x] = q[x]
  OBVIOUS
<1> HIDE DEF keyed, raw
<1>3. /\ DOMAIN r = DOMAIN keyed
      /\ r.mPath = SubstituteAll(keyed.mPath, About(raw, URL))
      /\ r.mBody = SubstituteAll(keyed.mBody, About(raw, {"BODY"}))
      /\ r.mArgs = SubstituteAll(keyed.mArgs, About(raw, {"QUERY_STRING"}))
      /\ \A x \in DOMAIN keyed \ {"mPath", "mArgs", "mBody"} : r[x] = keyed[x]
  BY <1>1, <1>2, rawSubstituteFields
<1>4. r.mHeadersIn = headers
  BY <1>2, <1>3
<1>5. \A x \in DOMAIN q \ {"mPath", "mArgs", "mHeadersIn", "mBody"} : r[x] = q[x]
  BY <1>2, <1>3
<1> QED BY <1>2, <1>3, <1>4, <1>5 DEF args, headers, body, raw

LEMMA SubstituteNothing ==
    ASSUME NEW text
    PROVE  SubstituteAll(text, <<>>) = text
<1> DEFINE A(f) == f = [n \in 0 .. Len(<<>>) |-> IF n = 0 THEN text ELSE regex_replace(f[n - 1], <<>>[n])]
           after == CHOOSE f : A(f)
<1>1. 0 .. Len(<<>>) = {0}
  OBVIOUS
<1>2. A([n \in 0 .. Len(<<>>) |-> text])
  BY <1>1
<1>3. A(after)
  <2> HIDE DEF A
  <2> QED BY <1>2
<1>4. after[0] = text
  BY <1>1, <1>3
<1>5. SubstituteAll(text, <<>>) = after[Len(<<>>)]
  BY DEF SubstituteAll
<1> HIDE DEF after
<1> QED BY <1>4, <1>5

LEMMA NoSubstitutions ==
    ASSUME NEW codec, NEW commands, commands.mSubstitutions = <<>>, commands.mRawSubstitutions = <<>>,
           NEW q, {"mPath", "mArgs", "mHeadersIn", "mBody"} \subseteq DOMAIN q,
           q.mHeadersIn \in KeyValList,
           NEW r, r = substituteRequest(codec, commands, q)
    PROVE  r.mPath = q.mPath /\ r.mArgs = q.mArgs /\ r.mBody = q.mBody /\ r.mHeadersIn = q.mHeadersIn
<1>1. \A parts : About(<<>>, parts) = <<>>
  <2>1. ASSUME NEW parts PROVE {i \in DOMAIN <<>> : <<>>[i].scope \cap parts # {}} = {}
    OBVIOUS
  <2> QED BY <2>1, PickNone DEF About
<1>2. \A key, part : SubsFor(<<>>, key, part) = <<>>
  <2>1. ASSUME NEW key, NEW part PROVE {i \in DOMAIN <<>> : <<>>[i].field = key /\ part \in <<>>[i].scope} = {}
    OBVIOUS
  <2> QED BY <2>1, PickNone DEF SubsFor
<1>3. \A keyVals, part, text : keySubstitute(codec, <<>>, keyVals, part, text) = text
  BY <1>2 DEF keySubstitute
<1>4. headerSubstitute(<<>>, q.mHeadersIn) = q.mHeadersIn
  <2> DEFINE headers == q.mHeadersIn
  <2>1. headers \in KeyValList
    OBVIOUS
  <2> HIDE DEF headers
  <2>2. ASSUME NEW i \in DOMAIN headers PROVE Substituted(<<>>, headers[i], "HEADERS") = headers[i]
    <3> DEFINE kv == headers[i]
    <3>1. kv \in [key : Text, val : Text]
      BY <2>1, <2>2, ElementType DEF KeyValList
    <3> HIDE DEF kv
    <3>2. Substituted(<<>>, kv, "HEADERS") = [kv EXCEPT !.val = SubstituteAll(kv.val, SubsFor(<<>>, kv.key, "HEADERS"))]
      BY DEF Substituted
    <3>3. Substituted(<<>>, kv, "HEADERS") = [kv EXCEPT !.val = kv.val]
      BY <1>2, <3>2, SubstituteNothing
    <3>4. [kv EXCEPT !.val = kv.val] = kv
      BY <3>1
    <3> QED BY <3>3, <3>4 DEF kv
  <2>3. headerSubstitute(<<>>, headers) = [i \in DOMAIN headers |-> headers[i]]
    BY <2>2 DEF headerSubstitute
  <2>4. headers = [i \in DOMAIN headers |-> headers[i]]
    BY <2>1 DEF KeyValList
  <2> QED BY <2>3, <2>4 DEF headers
<1> QED BY <1>1, <1>3, <1>4, SubstituteNothing, substituteRequestFields

-----------------------------------------------------------------------------
(* Every call a thread made is the request with the substitutions of its   *)
(* destination.                                                            *)

\* The request runOne works on, when the headers of the answer were added.
RequestKept(t) ==
    /\ DOMAIN w[t].req = DOMAIN Original(t) /\ IsList(w[t].req.mHeadersOut)
    /\ \A k \in DOMAIN Original(t) \ {"mHeadersOut"} : w[t].req[k] = Original(t)[k]

TakenFrom(call, r) ==
    /\ call.path = r.mPath /\ call.args = r.mArgs /\ call.body \in {<<>>, r.mBody}
    /\ KeysOnce(call.headers)
    /\ \A h \in Range(call.headers) :
          h \in Range(r.mHeadersIn) \/ h \in Range(CommonHeaders) \/ h.key \in OwnKeys

CallOK(t, call) ==
    /\ call.dest \in DOMAIN Commands(t)
    /\ TakenFrom(call, substituteRequest(server.codec, Commands(t)[call.dest], Original(t)))

CallInv ==
    \A t \in Workers : /\ InLoop(t) => RequestKept(t)
                       /\ \A call \in Range(sent[t]) : CallOK(t, call)

LEMMA OriginalHeaders ==
    ASSUME TodoInv, NEW t \in Workers
    PROVE  /\ {"mPath", "mArgs", "mHeadersIn", "mBody", "mParsedArgs", "mHeadersOut"} \subseteq DOMAIN Original(t)
           /\ Original(t).mHeadersIn \in KeyValList
<1> DEFINE r == scenario.requests[t].info
<1>1. r \in RequestInfo
  BY LocationOK
<1>2. DOMAIN Original(t) = DOMAIN r /\ \A k \in DOMAIN r \ {"mParsedArgs"} : Original(t)[k] = r[k]
  BY OriginalFields
<1> HIDE DEF r
<1>3. "mHeadersIn" \in DOMAIN r \ {"mParsedArgs"} /\ r.mHeadersIn \in KeyValList
  BY <1>1 DEF RequestInfo
<1> QED BY <1>1, <1>2, <1>3, RequestFields

\* The parts of the duplicate that are sent are those of the original request
\* with the substitutions, whether a copy was made or not.
LEMMA DuplicateParts ==
    ASSUME TodoInv, NEW t \in Workers, RequestKept(t), NEW f, NEW commands,
           NEW a, a = DuplicateOf(t, f, commands),
           NEW b, b = substituteRequest(server.codec, commands, Original(t))
    PROVE  /\ a.mPath = b.mPath /\ a.mArgs = b.mArgs /\ a.mBody = b.mBody
           /\ a.mHeadersIn = b.mHeadersIn /\ IsList(a.mHeadersIn) /\ IsList(a.mHeadersOut)
<1> DEFINE o == Original(t)
           q == w[t].req
           codec == server.codec
           subs == commands.mSubstitutions
           raw == commands.mRawSubstitutions
<1>1. /\ {"mPath", "mArgs", "mHeadersIn", "mBody", "mParsedArgs", "mHeadersOut"} \subseteq DOMAIN o
      /\ o.mHeadersIn \in KeyValList
  BY OriginalHeaders
<1>2. DOMAIN q = DOMAIN o /\ IsList(q.mHeadersOut) /\ \A k \in DOMAIN o \ {"mHeadersOut"} : q[k] = o[k]
  BY DEF RequestKept
<1>3. \/ subs = <<>> /\ raw = <<>> /\ a = q
      \/ a = substituteRequest(codec, commands, q)
  BY DEF DuplicateOf
<1>4. b = substituteRequest(codec, commands, o)
  OBVIOUS
<1> HIDE DEF o, q, codec, subs, raw
<1>5. /\ q.mPath = o.mPath /\ q.mArgs = o.mArgs /\ q.mBody = o.mBody
      /\ q.mHeadersIn = o.mHeadersIn /\ q.mParsedArgs = o.mParsedArgs
  BY <1>1, <1>2
<1>6. IsList(o.mHeadersIn)
  BY <1>1, SeqList DEF KeyValList
<1>7. CASE subs = <<>> /\ raw = <<>> /\ a = q
  <2>1. b.mPath = o.mPath /\ b.mArgs = o.mArgs /\ b.mBody = o.mBody /\ b.mHeadersIn = o.mHeadersIn
    BY <1>1, <1>4, <1>7, NoSubstitutions DEF subs, raw
  <2> QED BY <1>2, <1>5, <1>6, <1>7, <2>1
<1>8. CASE a = substituteRequest(codec, commands, q)
  <2>1. /\ a.mPath = SubstituteAll(q.mPath, About(raw, URL))
        /\ a.mBody = SubstituteAll(keySubstitute(codec, subs, parseArgs(codec, q.mBody), "BODY", q.mBody),
                                   About(raw, {"BODY"}))
        /\ a.mArgs = SubstituteAll(keySubstitute(codec, subs, q.mParsedArgs, "QUERY_STRING", q.mArgs),
                                   About(raw, {"QUERY_STRING"}))
        /\ a.mHeadersIn = headerSubstitute(subs, q.mHeadersIn)
        /\ \A x \in DOMAIN q \ {"mPath", "mArgs", "mHeadersIn", "mBody"} : a[x] = q[x]
    BY <1>1, <1>2, <1>8, substituteRequestFields DEF subs, raw
  <2>2. /\ b.mPath = SubstituteAll(o.mPath, About(raw, URL))
        /\ b.mBody = SubstituteAll(keySubstitute(codec, subs, parseArgs(codec, o.mBody), "BODY", o.mBody),
                                   About(raw, {"BODY"}))
        /\ b.mArgs = SubstituteAll(keySubstitute(codec, subs, o.mParsedArgs, "QUERY_STRING", o.mArgs),
                                   About(raw, {"QUERY_STRING"}))
        /\ b.mHeadersIn = headerSubstitute(subs, o.mHeadersIn)
    BY <1>1, <1>4, substituteRequestFields DEF subs, raw
  <2>3. a.mPath = b.mPath /\ a.mArgs = b.mArgs /\ a.mBody = b.mBody /\ a.mHeadersIn = b.mHeadersIn
    BY <1>5, <2>1, <2>2
  <2>4. a.mHeadersOut = q.mHeadersOut
    <3>1. "mHeadersOut" \in DOMAIN q \ {"mPath", "mArgs", "mHeadersIn", "mBody"}
      BY <1>1, <1>2
    <3> QED BY <2>1, <3>1
  <2>5. IsList(a.mHeadersIn)
    <3> DEFINE h == o.mHeadersIn
    <3>1. a.mHeadersIn = headerSubstitute(subs, h)
      BY <2>2, <2>3
    <3>2. Len(h) \in Nat /\ DOMAIN h = 1 .. Len(h)
      BY <1>6, ListDomain
    <3> HIDE DEF h
    <3>3. headerSubstitute(subs, h) = [i \in 1 .. Len(h) |-> Substituted(subs, h[i], "HEADERS")]
      BY <3>2 DEF headerSubstitute
    <3>4. headerSubstitute(subs, h) = [i \in 1 .. Len(h) |-> headerSubstitute(subs, h)[i]]
      BY <3>3
    <3> QED BY <3>1, <3>2, <3>4, ListOf
  <2> QED BY <1>2, <2>3, <2>4, <2>5
<1> QED BY <1>3, <1>7, <1>8

LEMMA NewCall ==
    ASSUME TodoInv, DirectivesInv, NEW t \in Workers, RequestKept(t), w[t].matched # <<>>,
           IdOK(t, Head(w[t].matched)), NEW call, call = Call(t)
    PROVE  CallOK(t, call)
<1> DEFINE f == FilterAt(t, Head(w[t].matched))
           commands == Commands(t)[f.dest]
           a == DuplicateOf(t, f, commands)
           b == substituteRequest(server.codec, commands, Original(t))
<1>1. call = performCurlCall(a, f)
  BY DEF Call
<1>2. /\ a.mPath = b.mPath /\ a.mArgs = b.mArgs /\ a.mBody = b.mBody
      /\ a.mHeadersIn = b.mHeadersIn /\ IsList(a.mHeadersIn) /\ IsList(a.mHeadersOut)
  <2> HIDE DEF f, commands
  <2> QED BY DuplicateParts
<1> HIDE DEF a
<1>3. /\ call.dest = f.dest /\ call.path = a.mPath /\ call.args = a.mArgs
      /\ call.body \in {<<>>, a.mBody} /\ KeysOnce(call.headers)
      /\ \A h \in Range(call.headers) :
            h \in Range(a.mHeadersIn) \/ h \in Range(CommonHeaders) \/ h.key \in OwnKeys
  <2> HIDE DEF f
  <2> QED BY <1>1, <1>2, CallParts
<1>4. b = substituteRequest(server.codec, Commands(t)[call.dest], Original(t))
  BY <1>3
<1> HIDE DEF b, f, commands
<1>5. TakenFrom(call, b)
  BY <1>2, <1>3 DEF TakenFrom
<1>6. call.dest \in DOMAIN Commands(t)
  BY <1>3, FilterAtOK DEF IdOK, f
<1> QED BY <1>4, <1>5, <1>6 DEF CallOK

\* A step that leaves the request of the thread and what it sent.
LEMMA CallKept ==
    ASSUME UNCHANGED <<scenario, configVars>>, NEW u \in Workers, sent'[u] = sent[u],
           InLoop(u) => RequestKept(u), \A call \in Range(sent[u]) : CallOK(u, call),
           InLoop(u)' => InLoop(u) /\ w'[u].req = w[u].req
    PROVE  /\ (InLoop(u) => RequestKept(u))'
           /\ (\A call \in Range(sent[u]) : CallOK(u, call))'
<1>1. Original(u)' = Original(u) /\ Commands(u)' = Commands(u) /\ server' = server
  BY DEF Original, Commands, Location, configVars
<1>2. ASSUME NEW call PROVE CallOK(u, call)' <=> CallOK(u, call)
  BY <1>1 DEF CallOK
<1>3. InLoop(u)' => RequestKept(u)'
  BY <1>1 DEF RequestKept
<1> QED BY <1>2, <1>3

\* The steps before and in the loop that neither change the request nor send.
LEMMA OtherCall ==
    ASSUME CallInv, UNCHANGED <<scenario, configVars, sent>>,
           \A u \in Workers : InLoop(u)' => InLoop(u) /\ w'[u].req = w[u].req
    PROVE  CallInv'
<1>1. ASSUME NEW u \in Workers
      PROVE  /\ (InLoop(u) => RequestKept(u))'
             /\ (\A call \in Range(sent[u]) : CallOK(u, call))'
  BY <1>1, CallKept DEF CallInv
<1> QED BY <1>1 DEF CallInv

LEMMA MatchingCall ==
    ASSUME CallInv, WorkInv, NEW t \in Workers,
           initiateDuplication(t) \/ matchDestination(t) \/ storeMatch(t)
    PROVE  CallInv'
<1>1. ThreadsOK
  BY WorkThreads
<1> DEFINE Quiet == /\ UNCHANGED <<scenario, configVars, sent>>
                    /\ \A u \in Workers : InLoop(u)' => InLoop(u) /\ w'[u].req = w[u].req
<1>2. initiateDuplication(t) => Quiet
  <2> HAVE initiateDuplication(t)
  <2>1. UNCHANGED <<scenario, configVars, sent>>
    BY <1>1, initiateDuplicationStep
  <2>2. \/ w' = w
        \/ w'[t].pc \in {"declined", "match"} /\ \A u \in Workers \ {t} : w'[u] = w[u]
    BY <1>1, initiateDuplicationStep DEF Becomes
  <2> QED BY <2>1, <2>2 DEF InLoop
<1>3. matchDestination(t) => Quiet
  <2> HAVE matchDestination(t)
  <2>1. UNCHANGED <<scenario, configVars, sent>>
    BY <1>1, matchDestinationStep
  <2>2. w'[t].pc \in {"write", "match"} /\ \A u \in Workers \ {t} : w'[u] = w[u]
    BY <1>1, matchDestinationStep DEF Becomes
  <2> QED BY <2>1, <2>2 DEF InLoop
<1>4. storeMatch(t) => Quiet
  <2> HAVE storeMatch(t)
  <2>1. UNCHANGED <<scenario, configVars, sent>> /\ w'[t].pc = "match"
    BY <1>1, storeMatchStep
  <2>2. \A u \in Workers \ {t} : w'[u] = [w[u] EXCEPT !.raced = TRUE] \/ w'[u] = w[u]
    BY <1>1, storeMatchStep
  <2>3. \A u \in Workers \ {t} : w'[u].pc = w[u].pc /\ w'[u].req = w[u].req
    <3>1. \A u \in Workers : DOMAIN w[u] = {"pc", "req", "dests", "pending", "matched", "dups", "raced"}
      BY <1>1, ThreadFields DEF ThreadsOK, ThreadOK
    <3> QED BY <2>2, <3>1
  <2> QED BY <2>1, <2>3 DEF InLoop
<1>5. Quiet
  BY <1>2, <1>3, <1>4
<1> QED BY <1>5, OtherCall

LEMMA addValidationHeadersDupCall ==
    ASSUME CallInv, WorkInv, TodoInv, NEW t \in Workers, addValidationHeadersDup(t)
    PROVE  CallInv'
<1> DEFINE matched == w[t].matched
           o == Original(t)
           New(read) == [w[t].req EXCEPT !.mHeadersOut = Reported(@, matched, read)]
<1>1. ThreadsOK /\ Good(t)
  BY WorkThreads DEF WorkInv
<1>2. /\ w[t].pc = "match" /\ UNCHANGED <<scenario, configVars, sent>>
      /\ \A u \in Workers \ {t} : w'[u] = w[u]
      /\ \E read : w'[t].req = New(read)
  BY <1>1, addValidationHeadersDupStep DEF Becomes
<1>3. PICK read : w'[t].req = New(read)
  BY <1>2
<1>4. w[t].req = o /\ IsList(matched)
  BY <1>1, <1>2 DEF Good, ThreadOK
<1> DEFINE out == Reported(o.mHeadersOut, matched, read)
<1>5. w'[t].req = [o EXCEPT !.mHeadersOut = out]
  BY <1>3, <1>4
<1>6. "mHeadersOut" \in DOMAIN o /\ IsList(o.mHeadersOut)
  BY OriginalOut
<1>7. IsList(out)
  <2> HIDE DEF o, matched
  <2> QED BY <1>4, <1>6, ReportedRange
<1> HIDE DEF o, matched, out
<1>8. /\ DOMAIN w'[t].req = DOMAIN o /\ w'[t].req.mHeadersOut = out
      /\ \A k \in DOMAIN o \ {"mHeadersOut"} : w'[t].req[k] = o[k]
  BY <1>5, <1>6
<1>9. Original(t)' = o
  BY <1>2 DEF Original, configVars, o
<1>10. RequestKept(t)'
  BY <1>7, <1>8, <1>9 DEF RequestKept
<1>11. (\A call \in Range(sent[t]) : CallOK(t, call))'
  <2>1. Commands(t)' = Commands(t) /\ server' = server /\ Original(t)' = Original(t)
    BY <1>2 DEF Original, Commands, Location, configVars
  <2>2. ASSUME NEW call PROVE CallOK(t, call)' <=> CallOK(t, call)
    BY <2>1 DEF CallOK
  <2> QED BY <1>2, <2>2 DEF CallInv
<1>12. ASSUME NEW u \in Workers \ {t}
       PROVE  /\ (InLoop(u) => RequestKept(u))'
              /\ (\A call \in Range(sent[u]) : CallOK(u, call))'
  <2>1. InLoop(u)' => InLoop(u) /\ w'[u].req = w[u].req
    BY <1>2 DEF InLoop
  <2> QED BY <1>2, <2>1, CallKept DEF CallInv
<1> QED BY <1>10, <1>11, <1>12 DEF CallInv

\* The loop leaves the request, and each call is made from it anew.
LEMMA LoopCall ==
    ASSUME CallInv, WorkInv, NEW t \in Workers, nextFilter(t) \/ countDuplicate(t)
    PROVE  CallInv'
<1>1. ThreadsOK
  BY WorkThreads
<1>2. /\ UNCHANGED <<scenario, configVars, sent>> /\ w[t].pc \in {"filter", "count"}
      /\ w'[t].req = w[t].req /\ \A u \in Workers \ {t} : w'[u] = w[u]
  BY <1>1, nextFilterStep, countDuplicateStep DEF Becomes
<1>3. \A u \in Workers : InLoop(u)' => InLoop(u) /\ w'[u].req = w[u].req
  BY <1>2 DEF InLoop
<1> QED BY <1>2, <1>3, OtherCall

LEMMA duplicateCall ==
    ASSUME CallInv, WorkInv, DirectivesInv, TodoInv, NEW t \in Workers, duplicate(t)
    PROVE  CallInv'
<1>1. ThreadsOK /\ Good(t) /\ IsList(sent[t])
  BY WorkThreads DEF WorkInv
<1>2. w[t].pc = "curl" /\ UNCHANGED <<scenario, configVars>>
  BY <1>1, duplicateStep
<1>3. /\ w'[t].req = w[t].req /\ \A u \in Workers \ {t} : w'[u] = w[u]
      /\ \/ UNCHANGED sent
         \/ sent' = [sent EXCEPT ![t] = Append(@, Call(t))]
  BY <1>1, duplicateStep DEF Becomes
<1>4. \A u \in Workers : InLoop(u)' => InLoop(u) /\ w'[u].req = w[u].req
  BY <1>2, <1>3 DEF InLoop
<1>5. CASE UNCHANGED sent
  BY <1>2, <1>4, <1>5, OtherCall
<1>6. CASE sent' = [sent EXCEPT ![t] = Append(@, Call(t))]
  <2>1. PICK call : call = Call(t)
    OBVIOUS
  <2>2. InLoop(t) /\ RequestKept(t)
    BY <1>2 DEF InLoop, CallInv
  <2>3. w[t].matched # <<>>
    BY <1>1, <1>2 DEF Good
  <2>4. CallOK(t, call)
    BY <2>1, <2>2, <2>3, LoopOK, NewCall
  <2>5. sent'[t] = Append(sent[t], call) /\ \A u \in Workers \ {t} : sent'[u] = sent[u]
    BY <1>6, <2>1 DEF WorkInv
  <2>6. Range(sent'[t]) = Range(sent[t]) \cup {call}
    <3>1. IsList(<<call>>) /\ Range(<<call>>) = {call}
      BY SingleList
    <3>2. Range(sent[t] \o <<call>>) = Range(sent[t]) \cup {call}
      BY <1>1, <3>1, ConcatList
    <3>3. Append(sent[t], call) = sent[t] \o <<call>>
      <4>1. sent[t] \in Seq(Range(sent[t]) \cup {call})
        BY <1>1 DEF IsList
      <4> QED BY <4>1
    <3> QED BY <2>5, <3>2, <3>3
  <2>7. Original(t)' = Original(t) /\ Commands(t)' = Commands(t) /\ server' = server
    BY <1>2 DEF Original, Commands, Location, configVars
  <2>8. ASSUME NEW x PROVE CallOK(t, x)' <=> CallOK(t, x)
    BY <2>7 DEF CallOK
  <2>9. (\A x \in Range(sent[t]) : CallOK(t, x))'
    BY <2>4, <2>6, <2>8 DEF CallInv
  <2>10. RequestKept(t)'
    BY <1>3, <2>2, <2>7 DEF RequestKept
  <2>11. ASSUME NEW u \in Workers \ {t}
         PROVE  /\ (InLoop(u) => RequestKept(u))'
                /\ (\A x \in Range(sent[u]) : CallOK(u, x))'
    BY <1>2, <1>4, <2>5, <2>11, CallKept DEF CallInv
  <2> QED BY <2>9, <2>10, <2>11 DEF CallInv
<1> QED BY <1>3, <1>5, <1>6

\* What a thread has sent so far was made from the request as it was handed over,
\* and the request itself has only got headers of the answer since.
THEOREM CallInvariant == Spec => []CallInv
<1>1. NewThread.pc = "idle" /\ Range(<<>>) = {}
  BY DEF NewThread, Range
<1>2. Init => CallInv
  BY <1>1 DEF Init, CallInv, InLoop
<1>3. CallInv /\ WorkInv /\ DirectivesInv /\ TodoInv /\ [Next]_vars => CallInv'
  <2> SUFFICES ASSUME CallInv, WorkInv, DirectivesInv, TodoInv, [Next]_vars PROVE CallInv'
    OBVIOUS
  <2>1. CASE \E t \in Workers : RunOne(t)
    <3>1. PICK t \in Workers : RunOne(t)
      BY <2>1
    <3> QED BY <3>1, MatchingCall, addValidationHeadersDupCall, LoopCall, duplicateCall DEF RunOne
  <2>2. CASE ReadDirective \/ Start
    <3>1. phase = "config" /\ UNCHANGED <<w, sent>>
      BY <2>2, DirectiveRead DEF Start, workVars
    <3>2. \A t \in Workers : w'[t] = NewThread /\ sent'[t] = <<>>
      BY <3>1 DEF WorkInv
    <3> QED BY <1>1, <3>2 DEF CallInv, InLoop
  <2>3. CASE stop \/ (\E stat \in DOMAIN counts : getCount(stat)) \/ UNCHANGED vars
    <3>1. UNCHANGED <<scenario, configVars, w, sent>>
      BY <2>3 DEF stop, getCount, vars, workVars
    <3>2. \A u \in Workers : InLoop(u)' => InLoop(u) /\ w'[u].req = w[u].req
      BY <3>1 DEF InLoop
    <3> QED BY <3>1, <3>2, OtherCall
  <2> QED BY <2>1, <2>2, <2>3 DEF Next
<1> QED BY <1>2, <1>3, WorkInvariant, DirectivesInvariant, TodoInvariant, PTL DEF Spec

\* Every duplicate is the original request with the substitutions of its own
\* destination, whatever was sent before it and to whom.
THEOREM DuplicatesAreIndependent == Spec => []DuplicatesIndependent
<1>1. CallInv => DuplicatesIndependent
  <2> SUFFICES ASSUME CallInv, NEW t \in Workers, NEW call \in Range(sent[t]),
                      NEW r, r = substituteRequest(server.codec, Commands(t)[call.dest], Original(t))
               PROVE  /\ call.path = r.mPath /\ call.args = r.mArgs
                      /\ call.body \in {<<>>, r.mBody}
                      /\ \A h \in Range(call.headers) :
                            h.key \in {r.mHeadersIn[i].key : i \in DOMAIN r.mHeadersIn} =>
                                \/ h \in Range(r.mHeadersIn)
                                \/ h \in Range(CommonHeaders)
                                \/ h.key \in OwnKeys
    BY DEF DuplicatesIndependent, OwnKeys
  <2>1. TakenFrom(call, r)
    BY DEF CallInv, CallOK
  <2> QED BY <2>1 DEF TakenFrom
<1> QED BY <1>1, CallInvariant, PTL

\* performCurlCall sends no header but X-MATCHED-PATTERN twice, also not one of
\* its own that the request has too (HeadersOnce).
THEOREM HeadersSentOnce == Spec => []HeadersOnce
<1>1. CallInv => HeadersOnce
  BY DEF CallInv, CallOK, TakenFrom, KeysOnce, HeadersOnce
<1> QED BY <1>1, CallInvariant, PTL

-----------------------------------------------------------------------------
(* The query string that keySubstitute builds is read again as the keys    *)
(* and values it was built from. First one argument: its words, its key    *)
(* and its value.                                                          *)

Mapped(f, text, new) ==
    /\ IsList(new) /\ Len(new) = Len(text) /\ DOMAIN new = DOMAIN text
    /\ \A i \in DOMAIN text : new[i] = IF text[i] \in DOMAIN f THEN f[text[i]] ELSE text[i]

LEMMA MapWordsIs ==
    ASSUME NEW f, NEW text, IsList(text)
    PROVE  Mapped(f, text, MapWords(f, text))
<1> DEFINE new == MapWords(f, text)
<1>1. Len(text) \in Nat /\ DOMAIN text = 1 .. Len(text)
  BY ListDomain
<1>2. /\ new = [i \in DOMAIN text |-> new[i]]
      /\ \A i \in DOMAIN text : new[i] = IF text[i] \in DOMAIN f THEN f[text[i]] ELSE text[i]
  BY DEF MapWords
<1> HIDE DEF new
<1>3. IsList(new) /\ Len(new) = Len(text) /\ DOMAIN new = DOMAIN text
  BY <1>1, <1>2, ListOf
<1> QED BY <1>2, <1>3 DEF Mapped, new

LEMMA SameList ==
    ASSUME NEW s, IsList(s), NEW r, IsList(r), Len(s) = Len(r), \A i \in DOMAIN s : s[i] = r[i]
    PROVE  s = r
<1>1. /\ DOMAIN s = 1 .. Len(s) /\ s = [i \in 1 .. Len(s) |-> s[i]]
      /\ r = [i \in 1 .. Len(r) |-> r[i]]
  BY ListDomain
<1> QED BY <1>1

Without(word, text) == \A i \in DOMAIN text : text[i] # word
Sayable(text) ==
    \A i \in DOMAIN text : text[i] # "&" /\ (text[i] \in DOMAIN Unescaped => text[i] \in DOMAIN Escaped)

Encoded(codec, text, e) == IsList(e) /\ Len(e) = Len(text) /\ Without("&", e) /\ decode(codec, e) = text

\* decode undoes encode, for both codecs, and encode brings no separator in.
LEMMA RoundTrip ==
    ASSUME NEW codec, NEW text, IsList(text), Sayable(text)
    PROVE  Encoded(codec, text, encode(codec, text))
<1> DEFINE ToSpace == [plus \in {"+"} |-> " "]
           FromPlus == [plus \in {"+"} |-> "%2b"]
           a == MapWords(Escaped, text)
           b == MapWords(FromPlus, a)
           x == MapWords(ToSpace, b)
<1>0. DOMAIN ToSpace = {"+"} /\ DOMAIN FromPlus = {"+"} /\ FromPlus["+"] = "%2b"
  OBVIOUS
<1>1. Mapped(Escaped, text, a)
  BY MapWordsIs
<1> HIDE DEF ToSpace, FromPlus, a
<1>2. Mapped(FromPlus, a, b)
  BY <1>1, MapWordsIs DEF Mapped
<1>3. \A i \in DOMAIN text : a[i] # "&" /\ b[i] # "&" /\ b[i] # "+"
  <2> TAKE i \in DOMAIN text
  <2>1. i \in DOMAIN a /\ a[i] = IF text[i] \in DOMAIN Escaped THEN Escaped[text[i]] ELSE text[i]
    BY <1>1 DEF Mapped
  <2>2. a[i] # "&"
    BY <2>1, CodecAssumption DEF Sayable
  <2>3. b[i] = IF a[i] = "+" THEN "%2b" ELSE a[i]
    BY <1>0, <1>2, <2>1 DEF Mapped
  <2> QED BY <2>2, <2>3
<1>4. \A i \in DOMAIN text : /\ IF a[i] \in DOMAIN Unescaped THEN Unescaped[a[i]] = text[i] ELSE a[i] = text[i]
                             /\ IF b[i] \in DOMAIN Unescaped THEN Unescaped[b[i]] = text[i] ELSE b[i] = text[i]
  <2> TAKE i \in DOMAIN text
  <2>1. i \in DOMAIN a /\ a[i] = IF text[i] \in DOMAIN Escaped THEN Escaped[text[i]] ELSE text[i]
    BY <1>1 DEF Mapped
  <2>2. b[i] = IF a[i] = "+" THEN "%2b" ELSE a[i]
    BY <1>0, <1>2, <2>1 DEF Mapped
  <2>3. IF a[i] \in DOMAIN Unescaped THEN Unescaped[a[i]] = text[i] ELSE a[i] = text[i]
    BY <2>1, CodecAssumption DEF Sayable
  <2>4. CASE a[i] = "+"
    <3>1. text[i] = "+"
      BY <2>1, <2>4, CodecAssumption
    <3> QED BY <2>2, <2>3, <2>4, <3>1, CodecAssumption
  <2>5. CASE a[i] # "+"
    BY <2>2, <2>3, <2>5
  <2> QED BY <2>4, <2>5
<1>5. CASE codec = "apache"
  <2>1. encode(codec, text) = a
    BY <1>5 DEF encode, a
  <2>2. decode(codec, a) = MapWords(Unescaped, a)
    BY <1>5 DEF decode
  <2>3. Mapped(Unescaped, a, MapWords(Unescaped, a))
    BY <1>1, MapWordsIs DEF Mapped
  <2>4. MapWords(Unescaped, a) = text
    <3> DEFINE r == MapWords(Unescaped, a)
    <3> HIDE DEF r
    <3>1. IsList(r) /\ Len(r) = Len(text) /\ \A i \in DOMAIN r : r[i] = text[i]
      BY <1>1, <1>4, <2>3 DEF Mapped, r
    <3>2. r = text
      BY <3>1, SameList
    <3> QED BY <3>2 DEF r
  <2> QED BY <1>1, <1>3, <2>1, <2>2, <2>4 DEF Mapped, Encoded, Without
<1>6. CASE codec # "apache"
  <2>1. encode(codec, text) = b
    BY <1>6 DEF encode, a, FromPlus
  <2>2. decode(codec, b) = MapWords(Unescaped, x)
    BY <1>6 DEF decode, ToSpace
  <2> HIDE DEF b
  <2>3. Mapped(ToSpace, b, x)
    BY <1>2, MapWordsIs DEF Mapped
  <2> HIDE DEF x
  <2>4. IsList(x) /\ Len(x) = Len(text) /\ DOMAIN x = DOMAIN text /\ \A i \in DOMAIN text : x[i] = b[i]
    BY <1>0, <1>1, <1>2, <1>3, <2>3 DEF Mapped
  <2>5. Mapped(Unescaped, x, MapWords(Unescaped, x))
    BY <2>4, MapWordsIs
  <2>6. MapWords(Unescaped, x) = text
    <3> DEFINE r == MapWords(Unescaped, x)
    <3> HIDE DEF r
    <3>1. IsList(r) /\ Len(r) = Len(text) /\ \A i \in DOMAIN r : r[i] = text[i]
      BY <1>4, <2>4, <2>5 DEF Mapped, r
    <3>2. r = text
      BY <3>1, SameList
    <3> QED BY <3>2 DEF r
  <2> QED BY <1>1, <1>2, <1>3, <2>1, <2>2, <2>6 DEF Mapped, Encoded, Without
<1> QED BY <1>5, <1>6

LEMMA SubSeqIs ==
    ASSUME NEW s, IsList(s), NEW m \in 1 .. Len(s) + 1, NEW n \in m - 1 .. Len(s)
    PROVE  /\ IsList(SubSeq(s, m, n)) /\ Len(SubSeq(s, m, n)) = n - m + 1
           /\ DOMAIN SubSeq(s, m, n) = 1 .. n - m + 1
           /\ \A i \in 1 .. n - m + 1 : SubSeq(s, m, n)[i] = s[m + i - 1]
<1>1. s \in Seq(Range(s))
  BY DEF IsList
<1>2. /\ SubSeq(s, m, n) \in Seq(Range(s)) /\ Len(SubSeq(s, m, n)) = n - m + 1
      /\ \A i \in 1 .. n - m + 1 : SubSeq(s, m, n)[i] = s[m + i - 1]
  BY <1>1, SubSeqProperties
<1>3. IsList(SubSeq(s, m, n))
  BY <1>2, SeqList
<1> QED BY <1>2, <1>3, ListDomain

Joined(s, r, u) ==
    /\ IsList(u) /\ Len(u) = Len(s) + Len(r) /\ DOMAIN u = 1 .. Len(s) + Len(r)
    /\ \A i \in 1 .. Len(s) : u[i] = s[i]
    /\ \A i \in 1 .. Len(r) : u[Len(s) + i] = r[i]

LEMMA ConcatIs ==
    ASSUME NEW s, IsList(s), NEW r, IsList(r)
    PROVE  Joined(s, r, s \o r)
<1>1. s \in Seq(Range(s) \cup Range(r)) /\ r \in Seq(Range(s) \cup Range(r))
  BY DEF IsList
<1>2. /\ Len(s \o r) = Len(s) + Len(r)
      /\ \A i \in 1 .. Len(s) : (s \o r)[i] = s[i]
      /\ \A i \in 1 .. Len(r) : (s \o r)[Len(s) + i] = r[i]
  BY <1>1
<1>3. IsList(s \o r)
  BY ConcatList
<1>4. DOMAIN (s \o r) = 1 .. Len(s \o r)
  BY <1>3, ListDomain
<1> QED BY <1>2, <1>3, <1>4 DEF Joined

\* The key and value of an argument, as parseArgs makes them.
ArgOK(kv) ==
    /\ kv = [key |-> kv.key, val |-> kv.val] /\ IsList(kv.key) /\ IsList(kv.val)
    /\ \A i \in DOMAIN kv.key : kv.key[i] \notin DOMAIN Upper \cup {"=", "&"}

FirstEq(token) == SelectInSeq(token, LAMBDA word : word = "=")

LEMMA FirstEqIs ==
    ASSUME NEW token, IsList(token)
    PROVE  /\ FirstEq(token) = 0 => Without("=", token)
           /\ FirstEq(token) # 0 => /\ FirstEq(token) \in 1 .. Len(token) /\ token[FirstEq(token)] = "="
                                    /\ \A i \in 1 .. Len(token) : i < FirstEq(token) => token[i] # "="
<1> DEFINE S == {i \in 1 .. Len(token) : token[i] = "="}
<1>1. FirstEq(token) = IF S # {} THEN Min(S) ELSE 0
  BY DEF FirstEq, SelectInSeq
<1>2. Len(token) \in Nat /\ DOMAIN token = 1 .. Len(token) /\ S \in SUBSET (1 .. Len(token))
  BY ListDomain
<1>3. \A i \in 1 .. Len(token) : i \in S <=> token[i] = "="
  OBVIOUS
<1> HIDE DEF S
<1> DEFINE m == FirstEq(token)
<1> HIDE DEF m
<1>4. (m = 0 <=> S = {}) /\ (m # 0 => m \in S /\ \A x \in S : m <= x)
  BY <1>1, <1>2, FirstIn DEF m
<1>5. m = 0 => Without("=", token)
  BY <1>2, <1>3, <1>4 DEF Without
<1>6. m # 0 => /\ m \in 1 .. Len(token) /\ token[m] = "="
               /\ \A i \in 1 .. Len(token) : i < m => token[i] # "="
  <2> HAVE m # 0
  <2>1. m \in S /\ m \in 1 .. Len(token) /\ \A x \in S : m <= x
    BY <1>2, <1>4
  <2>2. ASSUME NEW i \in 1 .. Len(token), i < m PROVE i \notin S
    BY <1>2, <2>1, <2>2
  <2> QED BY <1>3, <2>1, <2>2
<1> QED BY <1>5, <1>6 DEF m

LEMMA KeyValIs ==
    ASSUME NEW codec, NEW token, NEW eq, eq = FirstEq(token)
    PROVE  KeyVal(codec, token) =
                IF eq = 0 THEN [key |-> to_upper(token), val |-> <<>>]
                ELSE [key |-> to_upper(SubSeq(token, 1, eq - 1)),
                      val |-> decode(codec, SubSeq(token, eq + 1, Len(token)))]
BY DEF KeyVal, FirstEq

LEMMA UpperKept ==
    ASSUME NEW key, IsList(key), \A i \in DOMAIN key : key[i] \notin DOMAIN Upper
    PROVE  to_upper(key) = key
<1> DEFINE u == to_upper(key)
<1>1. Mapped(Upper, key, u)
  BY MapWordsIs DEF to_upper
<1> HIDE DEF u
<1>2. u = key
  BY <1>1, SameList DEF Mapped
<1> QED BY <1>2 DEF u

\* What ArgText writes for an argument is a token, and read as this argument.
TokenOf(codec, kv, u) == IsList(u) /\ u # <<>> /\ Without("&", u) /\ KeyVal(codec, u) = kv

LEMMA KeyValBack ==
    ASSUME NEW codec, NEW kv, ArgOK(kv), Sayable(kv.val), kv.key # <<>> \/ kv.val # <<>>
    PROVE  TokenOf(codec, kv, ArgText(codec, kv))
<1> DEFINE key == kv.key
           val == kv.val
           e == encode(codec, val)
<1>1. kv = [key |-> key, val |-> val] /\ IsList(key) /\ IsList(val)
      /\ \A i \in DOMAIN key : key[i] \notin DOMAIN Upper \cup {"=", "&"}
  BY DEF ArgOK
<1>2. to_upper(key) = key
  BY <1>1, UpperKept
<1>3. Encoded(codec, val, e)
  BY <1>1, RoundTrip
<1>4. Len(key) \in Nat /\ DOMAIN key = 1 .. Len(key)
  BY <1>1, ListDomain
<1>5. CASE val = <<>>
  <2>1. ArgText(codec, kv) = key
    BY <1>5 DEF ArgText
  <2>2. FirstEq(key) = 0
    BY <1>1, <1>4, FirstEqIs
  <2>3. KeyVal(codec, key) = [key |-> key, val |-> <<>>]
    BY <1>2, <2>2, KeyValIs
  <2>4. KeyVal(codec, key) = kv
    BY <1>1, <1>5, <2>3
  <2> QED BY <1>1, <1>5, <2>1, <2>4 DEF TokenOf, Without
<1>6. CASE val # <<>>
  <2> DEFINE one == <<"=">>
             l == key \o one
             u == l \o e
             k == Len(key)
  <2>1. ArgText(codec, kv) = u
    BY <1>6 DEF ArgText
  <2>2. IsList(one) /\ Len(one) = 1 /\ one[1] = "="
    BY SingleList
  <2>3. IsList(e) /\ Len(e) \in Nat /\ DOMAIN e = 1 .. Len(e) /\ Without("&", e) /\ decode(codec, e) = val
    BY <1>3, ListDomain DEF Encoded
  <2> HIDE DEF one, e, key, val
  <2>4. /\ IsList(l) /\ Len(l) = k + 1 /\ DOMAIN l = 1 .. k + 1 /\ k \in Nat
        /\ \A i \in 1 .. k : l[i] = key[i]
        /\ \A i \in 1 .. 1 : l[k + i] = one[i]
    <3>1. Joined(key, one, l)
      BY <1>1, <2>2, ConcatIs
    <3> HIDE DEF l
    <3> QED BY <1>4, <2>2, <3>1 DEF Joined
  <2>5. l[k + 1] = "="
    BY <2>2, <2>4
  <2> HIDE DEF l, k
  <2>6. /\ IsList(u) /\ Len(u) = (k + 1) + Len(e) /\ DOMAIN u = 1 .. (k + 1) + Len(e)
        /\ \A i \in 1 .. k + 1 : u[i] = l[i]
        /\ \A i \in 1 .. Len(e) : u[(k + 1) + i] = e[i]
    <3>1. Joined(l, e, u)
      BY <2>3, <2>4, ConcatIs
    <3> HIDE DEF u
    <3> QED BY <2>4, <3>1 DEF Joined
  <2> HIDE DEF u
  <2>7. (\A i \in 1 .. k : u[i] = key[i]) /\ u[k + 1] = "="
    BY <2>4, <2>5, <2>6
  <2>8. FirstEq(u) = k + 1
    <3> DEFINE m == FirstEq(u)
    <3> HIDE DEF m
    <3>1. (m = 0 => Without("=", u))
          /\ (m # 0 => /\ m \in 1 .. Len(u) /\ u[m] = "="
                       /\ \A i \in 1 .. Len(u) : i < m => u[i] # "=")
      BY <2>6, FirstEqIs DEF m
    <3>2. m # 0
      BY <2>3, <2>4, <2>6, <2>7, <3>1 DEF Without
    <3>3. ~(k + 1 < m)
      BY <2>3, <2>4, <2>6, <2>7, <3>1, <3>2
    <3>4. ~(m < k + 1)
      <4>1. \A i \in 1 .. k : u[i] # "="
        BY <1>1, <1>4, <2>7 DEF k
      <4> QED BY <2>3, <2>4, <2>6, <3>1, <3>2, <4>1
    <3>5. m = k + 1
      BY <2>3, <2>4, <2>6, <3>1, <3>2, <3>3, <3>4
    <3> QED BY <3>5 DEF m
  <2>9. SubSeq(u, 1, k) = key
    <3>1. /\ IsList(SubSeq(u, 1, k)) /\ Len(SubSeq(u, 1, k)) = k - 1 + 1
          /\ DOMAIN SubSeq(u, 1, k) = 1 .. k - 1 + 1
          /\ \A i \in 1 .. k - 1 + 1 : SubSeq(u, 1, k)[i] = u[1 + i - 1]
      <4>1. 1 \in 1 .. Len(u) + 1 /\ k \in 1 - 1 .. Len(u)
        BY <2>3, <2>4, <2>6
      <4> QED BY <2>6, <4>1, SubSeqIs
    <3> DEFINE r == SubSeq(u, 1, k)
    <3> HIDE DEF r
    <3>2. IsList(r) /\ Len(r) = k /\ DOMAIN r = 1 .. k /\ \A i \in 1 .. k : r[i] = u[i]
      BY <2>4, <3>1 DEF r
    <3>3. r = key
      BY <1>1, <2>7, <3>2, SameList DEF k
    <3> QED BY <3>3 DEF r
  <2>10. SubSeq(u, k + 2, Len(u)) = e
    <3> DEFINE r == SubSeq(u, k + 2, Len(u))
    <3>1. /\ IsList(r) /\ Len(r) = Len(u) - (k + 2) + 1
          /\ DOMAIN r = 1 .. Len(u) - (k + 2) + 1
          /\ \A i \in 1 .. Len(u) - (k + 2) + 1 : r[i] = u[(k + 2) + i - 1]
      <4>1. k + 2 \in 1 .. Len(u) + 1 /\ Len(u) \in (k + 2) - 1 .. Len(u)
        BY <2>3, <2>4, <2>6
      <4> QED BY <2>6, <4>1, SubSeqIs
    <3> HIDE DEF r
    <3>2. Len(u) - (k + 2) + 1 = Len(e) /\ \A i \in 1 .. Len(e) : (k + 2) + i - 1 = (k + 1) + i
      BY <2>3, <2>4, <2>6
    <3>3. IsList(r) /\ Len(r) = Len(e) /\ DOMAIN r = 1 .. Len(e) /\ \A i \in 1 .. Len(e) : r[i] = e[i]
      BY <2>6, <3>1, <3>2
    <3>4. r = e
      BY <2>3, <3>3, SameList
    <3> QED BY <3>4 DEF r
  <2>11. KeyVal(codec, u) = kv
    <3>1. (k + 1) - 1 = k /\ (k + 1) + 1 = k + 2 /\ k + 1 # 0
      BY <2>4
    <3>2. KeyVal(codec, u) = [key |-> to_upper(SubSeq(u, 1, k)), val |-> decode(codec, SubSeq(u, k + 2, Len(u)))]
      BY <2>8, <3>1, KeyValIs
    <3> QED BY <1>1, <1>2, <2>3, <2>9, <2>10, <3>2
  <2>12. Without("&", u)
    <3>1. ASSUME NEW i \in DOMAIN u PROVE u[i] # "&"
      <4>1. CASE i \in 1 .. k
        BY <1>1, <1>4, <2>7, <4>1 DEF k
      <4>2. CASE i = k + 1
        BY <2>7, <4>2
      <4>3. CASE i \notin 1 .. k + 1
        <5>1. i - (k + 1) \in 1 .. Len(e) /\ i = (k + 1) + (i - (k + 1))
          BY <2>3, <2>4, <2>6, <3>1, <4>3
        <5>2. u[i] = e[i - (k + 1)]
          BY <2>6, <5>1
        <5> QED BY <2>3, <5>1, <5>2 DEF Without
      <4> QED BY <2>4, <2>6, <3>1, <4>1, <4>2, <4>3
    <3> QED BY <3>1 DEF Without
  <2>13. u # <<>>
    BY <2>3, <2>4, <2>6
  <2> QED BY <2>1, <2>6, <2>11, <2>12, <2>13 DEF TokenOf
<1> QED BY <1>5, <1>6

-----------------------------------------------------------------------------
(* Then the text: the tokens of a text to which a separator and a token    *)
(* without separators is added are the old ones and this one.              *)

LEMMA NthOfUnique ==
    ASSUME NEW N \in Nat, NEW S \in SUBSET (1 .. N), NEW n \in 1 .. Cardinality(S),
           NEW i \in S, Cardinality({j \in S : j <= i}) = n
    PROVE  NthOf(S, n) = i
<1> DEFINE Below(x) == {j \in S : j <= x}
           k == NthOf(S, n)
<1>1. k \in S /\ Cardinality(Below(k)) = n
  BY NthOfIn
<1> HIDE DEF k
<1>2. IsFiniteSet(S)
  <2>1. IsFiniteSet(1 .. N)
    BY FS_Interval
  <2> QED BY <2>1, FS_Subset
<1>3. ASSUME NEW a \in S, NEW b \in S, a < b, Cardinality(Below(a)) = Cardinality(Below(b)) PROVE FALSE
  <2>1. Below(a) \subseteq Below(b) /\ b \in Below(b) /\ b \notin Below(a) /\ Below(b) \subseteq S
    <3>1. ASSUME NEW j \in S, j <= a PROVE j <= b
      BY <1>3, <3>1
    <3>2. b <= b /\ ~(b <= a)
      BY <1>3
    <3> QED BY <3>1, <3>2
  <2> HIDE DEF Below
  <2>2. IsFiniteSet(Below(b))
    BY <1>2, <2>1, FS_Subset
  <2>3. Cardinality(Below(b)) = Cardinality(Below(a)) => Below(b) = Below(a)
    BY <2>1, <2>2, FS_Subset
  <2> QED BY <1>3, <2>1, <2>3
<1>4. ~(k < i) /\ ~(i < k)
  <2>1. Cardinality(Below(i)) = Cardinality(Below(k))
    BY <1>1
  <2> HIDE DEF Below
  <2> QED BY <1>1, <1>3, <2>1
<1>5. k = i
  BY <1>1, <1>4
<1> QED BY <1>5 DEF k

\* y is x with one more entry.
Grown(x, p, last, y) == p \in Nat /\ y = [n \in 1 .. p + 1 |-> IF n <= p THEN x[n] ELSE last]

\* One more position, above the others.
LEMMA PickAppend ==
    ASSUME NEW N \in Nat, NEW S \in SUBSET (1 .. N), NEW m \in Nat, N < m, NEW T, T = S \cup {m},
           NEW s, NEW r, \A i \in S : r[i] = s[i]
    PROVE  Grown(Pick(s, S), Cardinality(S), r[m], Pick(r, T))
<1> DEFINE p == Cardinality(S)
<1>1. IsFiniteSet(S) /\ p \in Nat
  <2>1. IsFiniteSet(1 .. N)
    BY FS_Interval
  <2>2. IsFiniteSet(S)
    BY <2>1, FS_Subset
  <2> QED BY <2>2, FS_CardinalityType
<1>2. m \notin S /\ T \in SUBSET (1 .. m) /\ (\A j \in S : j < m) /\ \A j \in S : j \in 1 .. N
  OBVIOUS
<1>3. Cardinality(T) = p + 1
  BY <1>1, <1>2, FS_AddElement
<1>4. ASSUME NEW n \in 1 .. p PROVE NthOf(T, n) = NthOf(S, n) /\ NthOf(S, n) \in S
  <2> DEFINE i == NthOf(S, n)
  <2>1. i \in S /\ Cardinality({j \in S : j <= i}) = n
    BY <1>4, NthOfIn
  <2> HIDE DEF i
  <2>2. {j \in T : j <= i} = {j \in S : j <= i}
    <3>1. i \in Nat /\ i < m
      BY <1>2, <2>1
    <3>2. ~(m <= i)
      BY <3>1
    <3> QED BY <3>2
  <2>3. n \in 1 .. Cardinality(T) /\ i \in T /\ Cardinality({j \in T : j <= i}) = n
    BY <1>1, <1>3, <1>4, <2>1, <2>2
  <2>4. NthOf(T, n) = i
    BY <1>2, <2>3, NthOfUnique
  <2> QED BY <2>1, <2>4 DEF i
<1>5. NthOf(T, p + 1) = m
  <2>1. {j \in T : j <= m} = T
    <3>1. \A j \in T : j <= m
      BY <1>2
    <3> QED BY <3>1
  <2>2. p + 1 \in 1 .. Cardinality(T) /\ m \in T /\ Cardinality({j \in T : j <= m}) = p + 1
    <3>1. Cardinality({j \in T : j <= m}) = Cardinality(T) /\ m \in T
      BY <2>1
    <3> HIDE DEF p
    <3> QED BY <1>1, <1>3, <3>1
  <2> HIDE DEF p
  <2> QED BY <1>2, <2>2, NthOfUnique
<1>6. Pick(r, T) = [n \in 1 .. p + 1 |-> r[NthOf(T, n)]]
  BY <1>3 DEF Pick
<1>7. \A n \in 1 .. p : Pick(s, S)[n] = s[NthOf(S, n)]
  BY DEF Pick
<1> HIDE DEF p
<1>8. ASSUME NEW n \in 1 .. p + 1
      PROVE  r[NthOf(T, n)] = IF n <= p THEN Pick(s, S)[n] ELSE r[m]
  <2>1. CASE n <= p
    <3>1. n \in 1 .. p
      BY <1>1, <1>8, <2>1
    <3>2. NthOf(T, n) = NthOf(S, n) /\ NthOf(S, n) \in S /\ Pick(s, S)[n] = s[NthOf(S, n)]
      BY <1>4, <1>7, <3>1
    <3>3. r[NthOf(S, n)] = s[NthOf(S, n)]
      BY <3>2
    <3> QED BY <2>1, <3>2, <3>3
  <2>2. CASE ~(n <= p)
    <3>1. n = p + 1
      BY <1>1, <1>8, <2>2
    <3> QED BY <1>5, <2>2, <3>1
  <2> QED BY <2>1, <2>2
<1> QED BY <1>1, <1>6, <1>8 DEF Grown, p

LEMMA MaxIn ==
    ASSUME NEW n \in Nat, NEW S \in SUBSET (0 .. n), S # {}
    PROVE  Max(S) \in S /\ \A x \in S : Max(S) >= x
<1> DEFINE T == {x \in 0 .. n : n - x \in S}
<1>1. T \in SUBSET Nat /\ T # {}
  <2>1. PICK x \in S : TRUE
    OBVIOUS
  <2>2. n - x \in 0 .. n /\ n - (n - x) = x
    OBVIOUS
  <2>3. n - x \in T
    BY <2>1, <2>2
  <2>4. \A y \in T : y \in Nat
    OBVIOUS
  <2> HIDE DEF T
  <2> QED BY <2>3, <2>4
<1>2. PICK m \in T : \A x \in T : m <= x
  <2> HIDE DEF T
  <2> QED BY <1>1, MinIn
<1>3. ASSUME NEW x \in S PROVE n - m >= x
  <2>1. n - x \in 0 .. n /\ n - (n - x) = x
    BY <1>3
  <2>2. n - x \in T
    BY <1>3, <2>1
  <2>3. m <= n - x
    BY <1>2, <2>2
  <2> QED BY <1>2, <1>3, <2>3
<1>4. \E y \in S : \A x \in S : y >= x
  BY <1>2, <1>3
<1> QED BY <1>4 DEF Max

Starts(text) == {i \in DOMAIN text : text[i] # "&" /\ (i = 1 \/ text[i - 1] = "&")}
RunFrom(text, i) == {j \in i .. Len(text) : \A k \in i .. j : text[k] # "&"}
TokenAt(text) == [i \in DOMAIN text |-> SubSeq(text, i, Max(RunFrom(text, i)))]

LEMMA TokensAre ==
    ASSUME NEW text
    PROVE  Tokens(text) = Pick(TokenAt(text), Starts(text))
BY DEF Tokens, TokenAt, Starts, RunFrom

\* Where a token ends.
LEMMA RunEnds ==
    ASSUME NEW text, IsList(text), NEW i \in Starts(text)
    PROVE  /\ i \in 1 .. Len(text)
           /\ Max(RunFrom(text, i)) \in i .. Len(text)
           /\ \A k \in i .. Max(RunFrom(text, i)) : text[k] # "&"
           /\ \A j \in RunFrom(text, i) : j <= Max(RunFrom(text, i))
<1> DEFINE S == RunFrom(text, i)
           n == Len(text)
<1>1. n \in Nat /\ DOMAIN text = 1 .. n
  BY ListDomain
<1>2. i \in 1 .. n /\ text[i] # "&"
  BY <1>1 DEF Starts
<1> HIDE DEF n
<1>3. i \in S /\ S \in SUBSET (0 .. n) /\ \A j \in S : j \in i .. n /\ \A k \in i .. j : text[k] # "&"
  <2>1. \A k \in i .. i : text[k] # "&"
    BY <1>1, <1>2
  <2>2. i \in i .. n
    BY <1>1, <1>2
  <2> QED BY <1>1, <1>2, <2>1, <2>2 DEF RunFrom, n
<1> HIDE DEF S
<1>4. Max(S) \in S /\ \A j \in S : Max(S) >= j
  BY <1>1, <1>3, MaxIn
<1>5. \A j \in S : j <= Max(S)
  BY <1>1, <1>2, <1>3, <1>4
<1> QED BY <1>2, <1>3, <1>4, <1>5 DEF S, n

\* t is the text s, a separator and the text u.
Extended(s, u, t) ==
    /\ IsList(t) /\ Len(t) = Len(s) + 1 + Len(u)
    /\ \A i \in 1 .. Len(s) : t[i] = s[i]
    /\ t[Len(s) + 1] = "&"
    /\ \A i \in 1 .. Len(u) : t[Len(s) + 1 + i] = u[i]

LEMMA ExtendedIs ==
    ASSUME NEW s, IsList(s), NEW u, IsList(u)
    PROVE  Extended(s, u, s \o (<<"&">> \o u))
<1> DEFINE one == <<"&">>
           x == one \o u
           t == s \o x
<1>1. IsList(one) /\ Len(one) = 1 /\ one[1] = "&"
  BY SingleList
<1> HIDE DEF one
<1>2. Joined(one, u, x)
  BY <1>1, ConcatIs
<1> HIDE DEF x
<1>3. /\ IsList(x) /\ Len(x) = 1 + Len(u) /\ x[1] = "&" /\ \A i \in 1 .. Len(u) : x[1 + i] = u[i]
  BY <1>1, <1>2 DEF Joined
<1>4. Joined(s, x, t)
  BY <1>3, ConcatIs
<1> HIDE DEF t
<1>5. Len(s) \in Nat /\ Len(u) \in Nat
  BY ListDomain
<1>6. /\ IsList(t) /\ Len(t) = Len(s) + 1 + Len(u)
      /\ \A i \in 1 .. Len(s) : t[i] = s[i]
      /\ \A i \in 1 .. Len(x) : t[Len(s) + i] = x[i]
  BY <1>3, <1>4, <1>5 DEF Joined
<1>7. t[Len(s) + 1] = "&"
  BY <1>3, <1>5, <1>6
<1>8. ASSUME NEW i \in 1 .. Len(u) PROVE t[Len(s) + 1 + i] = u[i]
  <2>1. 1 + i \in 1 .. Len(x) /\ Len(s) + (1 + i) = Len(s) + 1 + i
    BY <1>3, <1>5, <1>8
  <2>2. t[Len(s) + (1 + i)] = x[1 + i]
    BY <1>6, <2>1
  <2> QED BY <1>3, <1>8, <2>1, <2>2
<1>9. Extended(s, u, t)
  BY <1>6, <1>7, <1>8 DEF Extended
<1> QED BY <1>9 DEF t, x, one

LEMMA StartsMore ==
    ASSUME NEW s, IsList(s), NEW u, IsList(u), Without("&", u), u # <<>>, NEW t, Extended(s, u, t)
    PROVE  Starts(t) = Starts(s) \cup {Len(s) + 2}
<1> DEFINE a == Len(s)
           b == Len(u)
<1>1. /\ a \in Nat /\ b \in Nat /\ DOMAIN s = 1 .. a /\ DOMAIN u = 1 .. b /\ DOMAIN t = 1 .. a + 1 + b
      /\ \A i \in 1 .. a : t[i] = s[i]
      /\ t[a + 1] = "&"
      /\ \A i \in 1 .. b : t[a + 1 + i] = u[i] /\ u[i] # "&"
  BY ListDomain DEF Extended, Without
<1>2. b # 0
  BY ListDomain
<1> HIDE DEF a, b
<1>3. ASSUME NEW i \in 1 .. a PROVE i \in Starts(t) <=> i \in Starts(s)
  <2>1. i \in DOMAIN t /\ t[i] = s[i] /\ (i # 1 => i - 1 \in 1 .. a)
    BY <1>1, <1>3
  <2>2. i # 1 => t[i - 1] = s[i - 1]
    BY <1>1, <2>1
  <2> QED BY <1>1, <1>3, <2>1, <2>2 DEF Starts
<1>4. a + 1 \notin Starts(t)
  BY <1>1 DEF Starts
<1>5. a + 2 \in Starts(t)
  <2>1. 1 \in 1 .. b /\ a + 1 + 1 = a + 2 /\ (a + 2) - 1 = a + 1 /\ a + 2 \in 1 .. a + 1 + b
    BY <1>1, <1>2
  <2>2. t[a + 2] # "&"
    BY <1>1, <2>1
  <2> QED BY <1>1, <2>1, <2>2 DEF Starts
<1>6. ASSUME NEW i \in DOMAIN t, i > a + 2 PROVE i \notin Starts(t)
  <2>1. i - a - 2 \in 1 .. b /\ a + 1 + (i - a - 2) = i - 1 /\ i # 1
    BY <1>1, <1>6
  <2>2. t[i - 1] # "&"
    BY <1>1, <2>1
  <2> QED BY <2>1, <2>2 DEF Starts
<1>7. Starts(t) \subseteq DOMAIN t /\ Starts(s) \subseteq 1 .. a
  BY <1>1 DEF Starts
<1>8. ASSUME NEW i \in Starts(t) PROVE i \in Starts(s) \cup {a + 2}
  <2>1. i \in DOMAIN t /\ ~(i > a + 2) /\ i # a + 1
    BY <1>4, <1>6, <1>7, <1>8
  <2>2. i \in 1 .. a \/ i = a + 2
    BY <1>1, <2>1
  <2> QED BY <1>3, <1>8, <2>2
<1>9. ASSUME NEW i \in Starts(s) PROVE i \in Starts(t)
  BY <1>3, <1>7, <1>9
<1> QED BY <1>5, <1>8, <1>9 DEF a

\* The tokens of s stay as they are.
LEMMA TokenKept ==
    ASSUME NEW s, IsList(s), NEW u, IsList(u), NEW t, Extended(s, u, t), NEW i \in Starts(s)
    PROVE  TokenAt(t)[i] = TokenAt(s)[i]
<1> DEFINE a == Len(s)
           b == Len(u)
           m == Max(RunFrom(s, i))
<1>1. /\ a \in Nat /\ b \in Nat /\ DOMAIN s = 1 .. a /\ DOMAIN t = 1 .. a + 1 + b
      /\ IsList(t) /\ Len(t) = a + 1 + b
      /\ \A k \in 1 .. a : t[k] = s[k]
      /\ t[a + 1] = "&"
  BY ListDomain DEF Extended
<1>2. i \in 1 .. a /\ m \in i .. a
  BY RunEnds
<1> HIDE DEF a, b
<1>3. RunFrom(t, i) = RunFrom(s, i)
  <2>1. ASSUME NEW j \in RunFrom(s, i) PROVE j \in RunFrom(t, i)
    <3>1. j \in i .. a /\ \A k \in i .. j : s[k] # "&"
      BY <2>1 DEF RunFrom, a
    <3>2. j \in i .. Len(t) /\ \A k \in i .. j : k \in 1 .. a
      BY <1>1, <1>2, <3>1
    <3>3. \A k \in i .. j : t[k] # "&"
      BY <1>1, <3>1, <3>2
    <3> QED BY <3>2, <3>3 DEF RunFrom
  <2>2. ASSUME NEW j \in RunFrom(t, i) PROVE j \in RunFrom(s, i)
    <3>1. j \in i .. a + 1 + b /\ \A k \in i .. j : t[k] # "&"
      BY <1>1, <2>2 DEF RunFrom
    <3>2. ~(j >= a + 1)
      <4>1. j >= a + 1 => a + 1 \in i .. j
        BY <1>1, <1>2, <3>1
      <4> QED BY <1>1, <3>1, <4>1
    <3>3. j \in i .. a /\ \A k \in i .. j : k \in 1 .. a
      BY <1>1, <1>2, <3>1, <3>2
    <3>4. \A k \in i .. j : s[k] # "&"
      BY <1>1, <3>1, <3>3
    <3> QED BY <3>3, <3>4 DEF RunFrom, a
  <2> QED BY <2>1, <2>2
<1>4. TokenAt(t)[i] = SubSeq(t, i, m) /\ TokenAt(s)[i] = SubSeq(s, i, m)
  <2>1. i \in DOMAIN t /\ i \in DOMAIN s
    BY <1>1, <1>2
  <2> QED BY <1>3, <2>1 DEF TokenAt
<1> HIDE DEF m
<1> DEFINE x == SubSeq(t, i, m)
           y == SubSeq(s, i, m)
<1>5. IsList(x) /\ Len(x) = m - i + 1 /\ DOMAIN x = 1 .. m - i + 1 /\ \A k \in 1 .. m - i + 1 : x[k] = t[i + k - 1]
  <2>1. i \in 1 .. Len(t) + 1 /\ m \in i - 1 .. Len(t)
    BY <1>1, <1>2
  <2> QED BY <1>1, <2>1, SubSeqIs
<1>6. IsList(y) /\ Len(y) = m - i + 1 /\ \A k \in 1 .. m - i + 1 : y[k] = s[i + k - 1]
  <2>1. i \in 1 .. Len(s) + 1 /\ m \in i - 1 .. Len(s)
    BY <1>1, <1>2 DEF a
  <2> QED BY <1>1, <2>1, SubSeqIs
<1> HIDE DEF x, y
<1>7. \A k \in 1 .. m - i + 1 : i + k - 1 \in 1 .. a
  BY <1>1, <1>2
<1>8. \A k \in DOMAIN x : x[k] = y[k]
  BY <1>1, <1>5, <1>6, <1>7
<1>9. x = y
  BY <1>5, <1>6, <1>8, SameList
<1> QED BY <1>4, <1>9 DEF x, y

\* A text without separators from a place on is one token there.
LEMMA TokenToEnd ==
    ASSUME NEW t, IsList(t), NEW i \in Starts(t), NEW u, IsList(u), Len(t) = i - 1 + Len(u),
           \A k \in 1 .. Len(u) : t[i - 1 + k] = u[k] /\ u[k] # "&"
    PROVE  TokenAt(t)[i] = u
<1> DEFINE n == Len(t)
           m == Max(RunFrom(t, i))
<1>1. /\ i \in 1 .. n /\ m \in i .. n /\ \A j \in RunFrom(t, i) : j <= m
  BY RunEnds
<1>2. n \in Nat /\ DOMAIN t = 1 .. n /\ Len(u) \in Nat /\ n = i - 1 + Len(u)
  BY ListDomain
<1> HIDE DEF n
<1>3. n \in RunFrom(t, i)
  <2>1. ASSUME NEW k \in i .. n PROVE t[k] # "&"
    <3>1. k - i + 1 \in 1 .. Len(u) /\ i - 1 + (k - i + 1) = k
      BY <1>1, <1>2, <2>1
    <3> QED BY <3>1
  <2>2. n \in i .. n
    BY <1>1, <1>2
  <2> QED BY <2>1, <2>2 DEF RunFrom, n
<1> HIDE DEF m
<1>4. m = n
  BY <1>1, <1>2, <1>3
<1> DEFINE x == SubSeq(t, i, n)
<1>5. TokenAt(t)[i] = x
  BY <1>1, <1>2, <1>4 DEF TokenAt, m
<1>6. IsList(x) /\ Len(x) = n - i + 1 /\ DOMAIN x = 1 .. n - i + 1 /\ \A k \in 1 .. n - i + 1 : x[k] = t[i + k - 1]
  <2>1. i \in 1 .. Len(t) + 1 /\ n \in i - 1 .. Len(t)
    BY <1>1, <1>2 DEF n
  <2> QED BY <2>1, SubSeqIs
<1> HIDE DEF x
<1>7. n - i + 1 = Len(u) /\ \A k \in 1 .. Len(u) : i + k - 1 = i - 1 + k
  BY <1>1, <1>2
<1>8. Len(x) = Len(u) /\ \A k \in DOMAIN x : x[k] = u[k]
  BY <1>6, <1>7
<1>9. x = u
  BY <1>6, <1>8, SameList
<1> QED BY <1>5, <1>9

\* The text has the tokens texts[1] to texts[m], in this order.
Reads(text, texts, m) == IsList(text) /\ Tokens(text) = [n \in 1 .. m |-> texts[n]]
IsToken(u) == IsList(u) /\ u # <<>> /\ Without("&", u)

LEMMA TokensOne ==
    ASSUME NEW texts, IsToken(texts[1])
    PROVE  Reads(texts[1], texts, 1)
<1> DEFINE u == texts[1]
<1>1. IsList(u) /\ u # <<>> /\ Without("&", u)
  BY DEF IsToken
<1> HIDE DEF u
<1>2. Len(u) \in Nat /\ DOMAIN u = 1 .. Len(u) /\ Len(u) # 0
  BY <1>1, ListDomain
<1>3. \A k \in 1 .. Len(u) : u[k] # "&"
  BY <1>1, <1>2 DEF Without
<1>4. Starts(u) = {} \cup {1}
  <2>1. 1 \in Starts(u)
    BY <1>2, <1>3 DEF Starts
  <2>2. ASSUME NEW i \in Starts(u) PROVE i = 1
    <3>1. i \in 1 .. Len(u) /\ (i = 1 \/ u[i - 1] = "&")
      BY <1>2, <2>2 DEF Starts
    <3>2. i # 1 => i - 1 \in 1 .. Len(u)
      BY <1>2, <3>1
    <3> QED BY <1>3, <3>1, <3>2
  <2> QED BY <2>1, <2>2
<1>5. TokenAt(u)[1] = u
  <2> DEFINE i == 1
  <2>1. i \in Starts(u) /\ Len(u) = i - 1 + Len(u) /\ \A k \in 1 .. Len(u) : u[i - 1 + k] = u[k] /\ u[k] # "&"
    BY <1>2, <1>3, <1>4
  <2> HIDE DEF i
  <2>2. TokenAt(u)[i] = u
    BY <1>1, <2>1, TokenToEnd
  <2> QED BY <2>2 DEF i
<1> DEFINE at == TokenAt(u)
<1> HIDE DEF at
<1> DEFINE none == {}
           first == 1
           S == Starts(u)
<1>6. Grown(Pick(at, none), Cardinality(none), at[first], Pick(at, S))
  <2>1. 0 \in Nat /\ none \in SUBSET (1 .. 0) /\ first \in Nat /\ 0 < first /\ S = none \cup {first}
    BY <1>4
  <2>2. \A i \in none : at[i] = at[i]
    OBVIOUS
  <2> HIDE DEF none, first, S
  <2> QED BY <2>1, <2>2, PickAppend
<1>7. Pick(at, S) = [n \in 1 .. 1 |-> u]
  <2>1. Cardinality(none) = 0
    BY FS_EmptySet
  <2> HIDE DEF none
  <2>2. Pick(at, S) = [n \in 1 .. 0 + 1 |-> IF n <= 0 THEN Pick(at, none)[n] ELSE at[1]]
    BY <1>6, <2>1 DEF Grown
  <2>3. \A n \in 1 .. 0 + 1 : ~(n <= 0)
    OBVIOUS
  <2> QED BY <1>5, <2>2, <2>3 DEF at
<1>8. Tokens(u) = Pick(at, S)
  BY TokensAre DEF at
<1>9. [n \in 1 .. 1 |-> u] = [n \in 1 .. 1 |-> texts[n]]
  <2>1. \A n \in 1 .. 1 : texts[n] = u
    BY DEF u
  <2> QED BY <2>1
<1> QED BY <1>1, <1>7, <1>8, <1>9 DEF Reads, u

LEMMA TokensAppend ==
    ASSUME NEW texts, NEW m \in Nat, NEW s, Reads(s, texts, m), NEW u, IsToken(u), texts[m + 1] = u,
           NEW t, Extended(s, u, t)
    PROVE  Reads(t, texts, m + 1)
<1> DEFINE a == Len(s)
           S == Starts(s)
           at == TokenAt(s)
           new == TokenAt(t)
           p == Cardinality(S)
           T == Starts(t)
<1>1. IsList(s) /\ IsList(u) /\ u # <<>> /\ Without("&", u) /\ IsList(t)
  BY DEF IsToken, Extended, Reads
<1>2. a \in Nat /\ S \in SUBSET (1 .. a) /\ Len(u) \in Nat /\ DOMAIN u = 1 .. Len(u)
  BY <1>1, ListDomain DEF Starts
<1>3. Starts(t) = S \cup {a + 2}
  BY <1>1, StartsMore
<1>4. \A i \in S : new[i] = at[i]
  BY <1>1, TokenKept
<1>5. new[a + 2] = u
  <2>1. /\ Len(t) = a + 1 + Len(u)
        /\ \A k \in 1 .. Len(u) : t[a + 1 + k] = u[k] /\ u[k] # "&"
    BY <1>1, <1>2 DEF Extended, Without
  <2>2. (a + 2) - 1 = a + 1
    BY <1>2
  <2> DEFINE i == a + 2
  <2> HIDE DEF i
  <2>3. i \in Starts(t) /\ Len(t) = i - 1 + Len(u) /\ \A k \in 1 .. Len(u) : t[i - 1 + k] = u[k] /\ u[k] # "&"
    BY <1>3, <2>1, <2>2 DEF i
  <2>4. new[i] = u
    BY <1>1, <2>3, TokenToEnd
  <2> QED BY <2>4 DEF i
<1>6. Tokens(s) = Pick(at, S) /\ Tokens(t) = Pick(new, T)
  BY TokensAre
<1> HIDE DEF S, at, new, a, T
<1>7. p \in Nat /\ Pick(new, T) = [n \in 1 .. p + 1 |-> IF n <= p THEN Pick(at, S)[n] ELSE new[a + 2]]
  <2> DEFINE last == a + 2
  <2>1. last \in Nat /\ a < last /\ T = S \cup {last}
    BY <1>2, <1>3 DEF T
  <2> HIDE DEF last
  <2>2. Grown(Pick(at, S), p, new[last], Pick(new, T))
    BY <1>2, <1>4, <2>1, PickAppend
  <2> QED BY <2>2 DEF Grown, last
<1>8. Pick(at, S) = [n \in 1 .. m |-> texts[n]] /\ DOMAIN Pick(at, S) = 1 .. p
  BY <1>6 DEF Reads, Pick
<1> HIDE DEF p
<1>9. p = m
  <2>1. 1 .. p = 1 .. m
    BY <1>8
  <2> QED BY <1>7, <2>1
<1>10. ASSUME NEW n \in 1 .. m + 1
       PROVE  (IF n <= m THEN Pick(at, S)[n] ELSE new[a + 2]) = texts[n]
  <2>1. n \in 1 .. m \/ (n = m + 1 /\ ~(n <= m))
    BY <1>10
  <2>2. CASE n \in 1 .. m
    BY <1>8, <2>2
  <2>3. CASE n = m + 1 /\ ~(n <= m)
    BY <1>5, <2>3
  <2> QED BY <2>1, <2>2, <2>3
<1>11. Tokens(t) = [n \in 1 .. m + 1 |-> texts[n]]
  BY <1>6, <1>7, <1>9, <1>10
<1> QED BY <1>1, <1>11 DEF Reads

\* What join puts together is taken apart again.
LEMMA TokensJoin ==
    ASSUME NEW texts, IsList(texts), texts # <<>>, \A i \in DOMAIN texts : IsToken(texts[i])
    PROVE  IsList(join(texts)) /\ Tokens(join(texts)) = texts
<1> DEFINE n == Len(texts)
           pieces == [i \in DOMAIN texts |-> (IF i = 1 THEN <<>> ELSE <<"&">>) \o texts[i]]
<1>1. n \in Nat /\ DOMAIN texts = 1 .. n /\ texts = [i \in 1 .. n |-> texts[i]] /\ n # 0
  BY ListDomain
<1>2. join(texts) = FlattenSeq(pieces)
  BY DEF join
<1>3. pieces = [i \in 1 .. n |-> pieces[i]]
  BY <1>1
<1>4. /\ pieces[1] = <<>> \o texts[1]
      /\ \A i \in 1 .. n : i # 1 => pieces[i] = <<"&">> \o texts[i]
  BY <1>1
<1> HIDE DEF pieces, n
<1>5. IsList(pieces) /\ Len(pieces) = n
  BY <1>1, <1>3, ListOf
<1>6. PICK G : Flattens(G, pieces, n) /\ FlattenSeq(pieces) = IF n = 0 THEN pieces ELSE G[n]
  BY <1>5, FlattenIs
<1>7. \A i \in 1 .. n : G[i] = IF i = 1 THEN pieces[i] ELSE G[i - 1] \o pieces[i]
  BY <1>6 DEF Flattens
<1>8. join(texts) = G[n]
  BY <1>1, <1>2, <1>6
<1>9. \A i \in 1 .. n : Reads(G[i], texts, i)
  <2> DEFINE S == {i \in 1 .. n : ~Reads(G[i], texts, i)}
  <2>1. SUFFICES ASSUME S # {} PROVE FALSE
    OBVIOUS
  <2>2. PICK i \in S : \A x \in S : i <= x
    <3>1. S \in SUBSET Nat
      BY <1>1
    <3> HIDE DEF S
    <3> QED BY <2>1, <3>1, MinIn
  <2>3. i \in 1 .. n /\ ~Reads(G[i], texts, i) /\ IsToken(texts[i])
    BY <1>1, <2>2
  <2>4. CASE i = 1
    <3>1. <<>> \o texts[1] = texts[1]
      <4> DEFINE u == texts[1]
      <4>1. u \in Seq(Range(u))
        BY <2>3, <2>4 DEF IsToken, IsList
      <4> HIDE DEF u
      <4>2. <<>> \o u = u
        BY <4>1
      <4> QED BY <4>2 DEF u
    <3>2. G[1] = texts[1]
      BY <1>4, <1>7, <2>3, <2>4, <3>1
    <3>3. Reads(texts[1], texts, 1)
      BY <2>3, <2>4, TokensOne
    <3> QED BY <2>3, <2>4, <3>2, <3>3
  <2>5. CASE i # 1
    <3> DEFINE m == i - 1
               s == G[m]
               u == texts[i]
               t == s \o (<<"&">> \o u)
    <3>1. m \in 1 .. n /\ m \in Nat /\ m + 1 = i /\ ~(i <= m)
      BY <1>1, <2>3, <2>5
    <3>2. Reads(s, texts, m)
      BY <2>2, <3>1
    <3>3. G[i] = t
      BY <1>4, <1>7, <2>3, <2>5
    <3> HIDE DEF s, u, m
    <3>4. IsList(s) /\ IsList(u) /\ IsToken(u) /\ texts[m + 1] = u
      BY <2>3, <3>1, <3>2 DEF Reads, IsToken, u
    <3>5. Extended(s, u, t)
      BY <3>4, ExtendedIs
    <3> HIDE DEF t
    <3>6. Reads(t, texts, m + 1)
      BY <3>1, <3>2, <3>4, <3>5, TokensAppend
    <3> QED BY <2>3, <3>1, <3>3, <3>6
  <2> QED BY <2>4, <2>5
<1>10. Reads(G[n], texts, n)
  <2>1. n \in 1 .. n
    BY <1>1
  <2> QED BY <1>9, <2>1
<1> QED BY <1>1, <1>8, <1>10 DEF Reads

-----------------------------------------------------------------------------
(* What parseArgs makes of a text, and what the substitutions leave of it. *)

LEMMA UpperIs ==
    ASSUME NEW x, IsList(x), Without("&", x), Without("=", x)
    PROVE  IsList(to_upper(x)) /\ \A i \in DOMAIN to_upper(x) : to_upper(x)[i] \notin DOMAIN Upper \cup {"=", "&"}
<1> DEFINE u == to_upper(x)
<1>1. Mapped(Upper, x, u)
  BY MapWordsIs DEF to_upper
<1> HIDE DEF u
<1>2. ASSUME NEW i \in DOMAIN u PROVE u[i] \notin DOMAIN Upper \cup {"=", "&"}
  <2>1. i \in DOMAIN x /\ u[i] = IF x[i] \in DOMAIN Upper THEN Upper[x[i]] ELSE x[i]
    BY <1>1, <1>2 DEF Mapped
  <2>2. CASE x[i] \in DOMAIN Upper
    <3>1. Upper[x[i]] \in Range(Upper)
      BY <2>2 DEF Range
    <3> QED BY <2>1, <2>2, <3>1, CodecAssumption
  <2>3. CASE x[i] \notin DOMAIN Upper
    BY <2>1, <2>3 DEF Without
  <2> QED BY <2>2, <2>3
<1> QED BY <1>1, <1>2 DEF Mapped, u

LEMMA DecodedList ==
    ASSUME NEW codec, NEW x, IsList(x)
    PROVE  IsList(decode(codec, x))
<1> DEFINE ToSpace == [plus \in {"+"} |-> " "]
           y == IF codec = "apache" THEN x ELSE MapWords(ToSpace, x)
<1>1. decode(codec, x) = MapWords(Unescaped, y)
  BY DEF decode
<1> HIDE DEF ToSpace
<1>2. Mapped(ToSpace, x, MapWords(ToSpace, x))
  BY MapWordsIs
<1>3. IsList(y)
  BY <1>2 DEF Mapped
<1> HIDE DEF y
<1>4. Mapped(Unescaped, y, MapWords(Unescaped, y))
  BY <1>3, MapWordsIs
<1> QED BY <1>1, <1>4 DEF Mapped

LEMMA KeyValOK ==
    ASSUME NEW codec, NEW token, IsList(token), Without("&", token)
    PROVE  ArgOK(KeyVal(codec, token))
<1> DEFINE eq == FirstEq(token)
           n == Len(token)
           kv == KeyVal(codec, token)
<1>1. n \in Nat /\ DOMAIN token = 1 .. n
  BY ListDomain
<1>2. kv = IF eq = 0 THEN [key |-> to_upper(token), val |-> <<>>]
           ELSE [key |-> to_upper(SubSeq(token, 1, eq - 1)), val |-> decode(codec, SubSeq(token, eq + 1, n))]
  BY KeyValIs
<1>3. (eq = 0 => Without("=", token))
      /\ (eq # 0 => eq \in 1 .. n /\ \A i \in 1 .. n : i < eq => token[i] # "=")
  BY FirstEqIs
<1> HIDE DEF eq, n, kv
<1>4. CASE eq = 0
  <2> DEFINE key == to_upper(token)
  <2>1. IsList(key) /\ \A i \in DOMAIN key : key[i] \notin DOMAIN Upper \cup {"=", "&"}
    BY <1>3, <1>4, UpperIs
  <2>2. kv = [key |-> key, val |-> <<>>] /\ IsList(<<>>)
    BY <1>2, <1>4 DEF IsList
  <2> HIDE DEF key
  <2>3. kv.key = key /\ kv.val = <<>>
    BY <2>2
  <2>4. ArgOK(kv)
    BY <2>1, <2>2, <2>3 DEF ArgOK
  <2> QED BY <2>4 DEF kv
<1>5. CASE eq # 0
  <2> DEFINE last == eq - 1
             next == eq + 1
             x == SubSeq(token, 1, last)
             y == SubSeq(token, next, n)
             key == to_upper(x)
             val == decode(codec, y)
  <2>1. eq \in 1 .. n /\ last \in 0 .. n /\ 1 \in 1 .. n + 1 /\ last \in 1 - 1 .. n
        /\ next \in 1 .. n + 1 /\ n \in next - 1 .. n
    BY <1>1, <1>3, <1>5
  <2>2. kv = [key |-> key, val |-> val]
    BY <1>2, <1>5
  <2> HIDE DEF next
  <2>3. IsList(y)
    BY <2>1, SubSeqIs DEF n
  <2>4. IsList(val)
    <3> HIDE DEF y
    <3> QED BY <2>3, DecodedList
  <2>5. IsList(x) /\ Without("&", x) /\ Without("=", x)
    <3>0. last = eq - 1
      OBVIOUS
    <3> HIDE DEF last
    <3>1. IsList(x) /\ DOMAIN x = 1 .. last - 1 + 1 /\ \A i \in 1 .. last - 1 + 1 : x[i] = token[1 + i - 1]
      BY <2>1, SubSeqIs DEF n
    <3> HIDE DEF x
    <3>2. ASSUME NEW i \in DOMAIN x PROVE i \in 1 .. n /\ i < eq /\ x[i] = token[i]
      <4>1. i \in 1 .. last - 1 + 1 /\ i \in 1 .. n /\ i < eq /\ 1 + i - 1 = i
        BY <1>1, <2>1, <3>0, <3>1, <3>2
      <4> QED BY <3>1, <4>1
    <3>3. Without("&", x)
      BY <1>1, <3>2 DEF Without
    <3>4. Without("=", x)
      BY <1>3, <1>5, <3>2 DEF Without
    <3> QED BY <3>1, <3>3, <3>4
  <2>6. IsList(key) /\ \A i \in DOMAIN key : key[i] \notin DOMAIN Upper \cup {"=", "&"}
    <3> HIDE DEF x
    <3> QED BY <2>5, UpperIs
  <2> HIDE DEF key, val
  <2>7. kv.key = key /\ kv.val = val
    BY <2>2
  <2>8. ArgOK(kv)
    BY <2>2, <2>4, <2>6, <2>7 DEF ArgOK
  <2> QED BY <2>8 DEF kv
<1> QED BY <1>4, <1>5

LEMMA ParsedArgs ==
    ASSUME NEW codec, NEW text, IsList(text), NEW args, args = parseArgs(codec, text)
    PROVE  IsList(args) /\ \A i \in DOMAIN args : ArgOK(args[i])
<1> DEFINE tokens == Tokens(text)
           S == Starts(text)
           at == TokenAt(text)
           N == Len(text)
<1>1. N \in Nat /\ DOMAIN text = 1 .. N
  BY ListDomain
<1>2. S \in SUBSET (1 .. N) /\ DOMAIN at = 1 .. N
  BY <1>1 DEF Starts, TokenAt
<1>3. tokens = Pick(at, S)
  BY TokensAre
<1>4. ASSUME NEW i \in S PROVE IsList(at[i]) /\ Without("&", at[i])
  <2> DEFINE m == Max(RunFrom(text, i))
             x == SubSeq(text, i, m)
  <2>1. i \in 1 .. N /\ m \in i .. N /\ \A k \in i .. m : text[k] # "&"
    BY <1>4, RunEnds
  <2>2. at[i] = x
    BY <1>1, <2>1 DEF TokenAt
  <2> HIDE DEF m, at
  <2>3. IsList(x) /\ DOMAIN x = 1 .. m - i + 1 /\ \A k \in 1 .. m - i + 1 : x[k] = text[i + k - 1]
    <3>1. i \in 1 .. Len(text) + 1 /\ m \in i - 1 .. Len(text)
      BY <1>1, <2>1
    <3> QED BY <3>1, SubSeqIs
  <2> HIDE DEF x, N
  <2>4. \A k \in 1 .. m - i + 1 : i + k - 1 \in i .. m
    BY <1>1, <2>1
  <2>5. Without("&", x)
    BY <2>1, <2>3, <2>4 DEF Without
  <2> QED BY <2>2, <2>3, <2>5
<1> HIDE DEF at, S, N, tokens
<1>5. Cardinality(S) \in Nat /\ DOMAIN tokens = 1 .. Cardinality(S)
  BY <1>1, <1>2, <1>3, PickList
<1>6. \A n \in DOMAIN tokens : \E i \in S : tokens[n] = at[i]
  <2>1. \A n \in DOMAIN Pick(at, S) : \E i \in S : Pick(at, S)[n] = at[i]
    BY <1>1, <1>2, PickIn
  <2> QED BY <1>3, <2>1
<1>7. args = [i \in DOMAIN tokens |-> KeyVal(codec, tokens[i])]
  BY DEF parseArgs, tokens
<1>8. ASSUME NEW i \in DOMAIN args PROVE ArgOK(args[i])
  <2>1. i \in DOMAIN tokens /\ args[i] = KeyVal(codec, tokens[i])
    BY <1>7, <1>8
  <2>2. IsList(tokens[i]) /\ Without("&", tokens[i])
    BY <1>4, <1>6, <2>1
  <2> QED BY <2>1, <2>2, KeyValOK
<1>9. args = [i \in 1 .. Cardinality(S) |-> args[i]]
  BY <1>5, <1>7
<1>10. IsList(args)
  BY <1>5, <1>9, ListOf
<1> QED BY <1>8, <1>10

LEMMA ReplacedList ==
    ASSUME NEW text, IsList(text), NEW sub, IsList(sub.replacement)
    PROVE  IsList(regex_replace(text, sub))
<1> DEFINE pieces == [i \in DOMAIN text |-> IF text[i] \in sub.re THEN sub.replacement ELSE <<text[i]>>]
<1>1. Len(text) \in Nat /\ DOMAIN text = 1 .. Len(text)
  BY ListDomain
<1>2. regex_replace(text, sub) = FlattenSeq(pieces)
  BY DEF regex_replace
<1>3. \A i \in DOMAIN text : IsList(<<text[i]>>)
  BY SingleList
<1>4. DOMAIN pieces = DOMAIN text /\ \A i \in DOMAIN pieces : IsList(pieces[i])
  BY <1>3
<1>5. pieces = [i \in 1 .. Len(text) |-> pieces[i]]
  BY <1>1
<1> HIDE DEF pieces
<1>6. IsList(pieces)
  BY <1>1, <1>5, ListOf
<1> QED BY <1>2, <1>4, <1>6, FlattenList

\* f holds the text after each of the first m substitutions.
SubstSteps(f, text, subs, m) ==
    f = [n \in 0 .. m |-> IF n = 0 THEN text ELSE regex_replace(f[n - 1], subs[n])]
CanStep(text, subs, m) == \E f : SubstSteps(f, text, subs, m)

LEMMA SubstitutedList ==
    ASSUME NEW text, IsList(text), NEW subs, IsList(subs), \A i \in DOMAIN subs : IsList(subs[i].replacement)
    PROVE  IsList(SubstituteAll(text, subs))
<1> DEFINE n == Len(subs)
           after == CHOOSE f : SubstSteps(f, text, subs, n)
<1>1. n \in Nat /\ DOMAIN subs = 1 .. n
  BY ListDomain
<1>2. SubstituteAll(text, subs) = after[n]
  BY DEF SubstituteAll, SubstSteps
<1> HIDE DEF n
<1>3. \A m \in 0 .. n : CanStep(text, subs, m)
  <2> DEFINE S == {m \in 0 .. n : ~CanStep(text, subs, m)}
  <2>1. SUFFICES ASSUME S # {} PROVE FALSE
    OBVIOUS
  <2>2. PICK m \in S : \A x \in S : m <= x
    <3>1. S \in SUBSET Nat
      BY <1>1
    <3> HIDE DEF S
    <3> QED BY <2>1, <3>1, MinIn
  <2>3. m # 0
    <3> DEFINE f == [k \in 0 .. 0 |-> text]
    <3>1. f = [k \in 0 .. 0 |-> IF k = 0 THEN text ELSE regex_replace(f[k - 1], subs[k])]
      <4>1. \A k \in 0 .. 0 : k = 0
        OBVIOUS
      <4> QED BY <4>1
    <3>2. SubstSteps(f, text, subs, 0)
      <4> HIDE DEF f
      <4> QED BY <3>1 DEF SubstSteps
    <3> QED BY <2>2, <3>2 DEF CanStep
  <2>4. m - 1 \in 0 .. n /\ ~(m <= m - 1) /\ m \in Nat
    BY <1>1, <2>2, <2>3
  <2>5. PICK f : SubstSteps(f, text, subs, m - 1)
    BY <2>2, <2>4 DEF CanStep
  <2> DEFINE g == [k \in 0 .. m |-> IF k < m THEN f[k] ELSE regex_replace(f[k - 1], subs[k])]
  <2>6. ASSUME NEW k \in 0 .. m PROVE g[k] = IF k = 0 THEN text ELSE regex_replace(g[k - 1], subs[k])
    <3>1. k = 0 \/ (k - 1 \in 0 .. m /\ k - 1 < m)
      BY <2>4, <2>6
    <3>2. k = 0 \/ g[k - 1] = f[k - 1]
      BY <3>1
    <3>3. CASE k < m
      <4>1. k \in 0 .. m - 1 /\ g[k] = f[k]
        BY <2>4, <3>3
      <4>2. f[k] = IF k = 0 THEN text ELSE regex_replace(f[k - 1], subs[k])
        BY <2>5, <4>1 DEF SubstSteps
      <4> QED BY <3>2, <4>1, <4>2
    <3>4. CASE ~(k < m)
      <4>1. g[k] = regex_replace(f[k - 1], subs[k]) /\ k # 0
        BY <2>3, <2>4, <3>4
      <4> QED BY <3>2, <4>1
    <3> QED BY <3>3, <3>4
  <2>7. g = [k \in 0 .. m |-> g[k]]
    OBVIOUS
  <2> HIDE DEF g
  <2>8. SubstSteps(g, text, subs, m)
    BY <2>6, <2>7 DEF SubstSteps
  <2> QED BY <2>2, <2>8 DEF CanStep
<1>4. SubstSteps(after, text, subs, n)
  <2>1. n \in 0 .. n
    BY <1>1
  <2>2. \E f : SubstSteps(f, text, subs, n)
    BY <1>3, <2>1 DEF CanStep
  <2> QED BY <2>2
<1> HIDE DEF after
<1>5. \A k \in 0 .. n : after[k] = IF k = 0 THEN text ELSE regex_replace(after[k - 1], subs[k])
  BY <1>4 DEF SubstSteps
<1>6. \A k \in 0 .. n : IsList(after[k])
  <2> DEFINE S == {k \in 0 .. n : ~IsList(after[k])}
  <2>1. SUFFICES ASSUME S # {} PROVE FALSE
    OBVIOUS
  <2>2. PICK k \in S : \A x \in S : k <= x
    <3>1. S \in SUBSET Nat
      BY <1>1
    <3> HIDE DEF S
    <3> QED BY <2>1, <3>1, MinIn
  <2>3. k \in 0 .. n /\ ~IsList(after[k])
    BY <2>2
  <2>4. k # 0
    BY <1>5, <2>3
  <2>5. k \in 1 .. n /\ k - 1 \in 0 .. n /\ ~(k <= k - 1)
    BY <1>1, <2>3, <2>4
  <2>6. IsList(after[k - 1])
    BY <2>2, <2>5
  <2> DEFINE sub == subs[k]
             old == after[k - 1]
  <2>7. after[k] = regex_replace(old, sub) /\ IsList(sub.replacement) /\ IsList(old)
    BY <1>1, <1>5, <2>3, <2>4, <2>5, <2>6
  <2> HIDE DEF sub, old
  <2>8. IsList(after[k])
    BY <2>7, ReplacedList
  <2> QED BY <2>3, <2>8
<1>7. n \in 0 .. n
  BY <1>1
<1> QED BY <1>2, <1>6, <1>7

\* The substitutions for a key are some of the rules.
LEMMA SubsForList ==
    ASSUME NEW commands, SubsOK(commands), NEW key, NEW part,
           NEW subs, subs = SubsFor(commands.mSubstitutions, key, part)
    PROVE  IsList(subs) /\ \A i \in DOMAIN subs : IsList(subs[i].replacement)
<1> DEFINE all == commands.mSubstitutions
           S == {i \in DOMAIN all : all[i].field = key /\ part \in all[i].scope}
           N == Len(all)
<1>1. IsList(all) /\ \A sub \in Range(all) : IsList(sub.replacement)
  BY DEF SubsOK
<1>2. subs = Pick(all, S)
  BY DEF SubsFor
<1> HIDE DEF all
<1>3. N \in Nat /\ DOMAIN all = 1 .. N
  BY <1>1, ListDomain
<1>4. S \in SUBSET (1 .. N) /\ S \subseteq DOMAIN all
  BY <1>3
<1> HIDE DEF S, N
<1>5. IsList(subs)
  BY <1>2, <1>3, <1>4, PickList
<1>6. \A i \in DOMAIN subs : \E j \in S : subs[i] = all[j]
  <2>1. \A i \in DOMAIN Pick(all, S) : \E j \in S : Pick(all, S)[i] = all[j]
    BY <1>3, <1>4, PickIn
  <2> QED BY <1>2, <2>1
<1>7. \A j \in S : all[j] \in Range(all)
  BY <1>4 DEF Range
<1> QED BY <1>1, <1>5, <1>6, <1>7

LEMMA SubstitutedArg ==
    ASSUME NEW commands, SubsOK(commands), NEW kv, ArgOK(kv), NEW part,
           NEW new, new = Substituted(commands.mSubstitutions, kv, part)
    PROVE  /\ ArgOK(new)
           /\ SubsFor(commands.mSubstitutions, kv.key, part) = <<>> => new = kv
<1> DEFINE subs == SubsFor(commands.mSubstitutions, kv.key, part)
           val == SubstituteAll(kv.val, subs)
<1>1. new = [kv EXCEPT !.val = val]
  BY DEF Substituted
<1>2. IsList(subs) /\ \A i \in DOMAIN subs : IsList(subs[i].replacement)
  <2> DEFINE key == kv.key
  <2> HIDE DEF key
  <2>1. subs = SubsFor(commands.mSubstitutions, key, part)
    BY DEF key
  <2> HIDE DEF subs
  <2> QED BY <2>1, SubsForList
<1> HIDE DEF subs
<1>3. kv = [key |-> kv.key, val |-> kv.val] /\ IsList(kv.key) /\ IsList(kv.val)
      /\ \A i \in DOMAIN kv.key : kv.key[i] \notin DOMAIN Upper \cup {"=", "&"}
  BY DEF ArgOK
<1>4. IsList(val)
  <2> DEFINE old == kv.val
  <2>1. IsList(old)
    BY <1>3
  <2> HIDE DEF old
  <2>2. IsList(SubstituteAll(old, subs))
    BY <1>2, <2>1, SubstitutedList
  <2> QED BY <2>2 DEF old
<1>5. subs = <<>> => val = kv.val
  BY SubstituteNothing
<1> HIDE DEF val
<1>6. new = [key |-> kv.key, val |-> val]
  BY <1>1, <1>3
<1>7. new.key = kv.key /\ new.val = val
  BY <1>6
<1>8. ArgOK(new)
  BY <1>3, <1>4, <1>6, <1>7 DEF ArgOK
<1>9. subs = <<>> => new = kv
  BY <1>3, <1>5, <1>6
<1> QED BY <1>8, <1>9 DEF subs

-----------------------------------------------------------------------------
(* The arguments of a duplicate.                                           *)

LEMMA keySubstituteKept ==
    ASSUME NEW codec, NEW commands, SubsOK(commands), NEW part,
           NEW keyVals, IsList(keyVals), \A i \in DOMAIN keyVals : ArgOK(keyVals[i]),
           NEW args, args = [i \in DOMAIN keyVals |-> Substituted(commands.mSubstitutions, keyVals[i], part)],
           \A i \in DOMAIN args : Expressible(args[i]),
           NEW text, parseArgs(codec, text) = keyVals,
           NEW new, new = keySubstitute(codec, commands.mSubstitutions, keyVals, part, text)
    PROVE  parseArgs(codec, new) = args
<1> DEFINE subs == commands.mSubstitutions
           n == Len(keyVals)
           texts == [i \in DOMAIN keyVals |-> ArgText(codec, Substituted(subs, keyVals[i], part))]
           None == \A i \in DOMAIN keyVals : SubsFor(subs, keyVals[i].key, part) = <<>>
<1>1. n \in Nat /\ DOMAIN keyVals = 1 .. n /\ keyVals = [i \in 1 .. n |-> keyVals[i]]
  BY ListDomain
<1>2. DOMAIN args = 1 .. n /\ \A i \in 1 .. n : args[i] = Substituted(subs, keyVals[i], part)
  BY <1>1
<1>3. \A i \in 1 .. n : ArgOK(args[i]) /\ (SubsFor(subs, keyVals[i].key, part) = <<>> => args[i] = keyVals[i])
  <2> TAKE i \in 1 .. n
  <2> DEFINE kv == keyVals[i]
             arg == args[i]
  <2>1. ArgOK(kv) /\ arg = Substituted(subs, kv, part)
    BY <1>1, <1>2
  <2> HIDE DEF kv, arg
  <2>2. ArgOK(arg) /\ (SubsFor(subs, kv.key, part) = <<>> => arg = kv)
    BY <2>1, SubstitutedArg
  <2> QED BY <2>2 DEF kv, arg
<1>4. CASE None
  <2>1. new = text
    BY <1>4 DEF keySubstitute
  <2>2. \A i \in 1 .. n : args[i] = keyVals[i]
    BY <1>1, <1>3, <1>4
  <2>3. args = keyVals
    BY <1>1, <1>2, <2>2
  <2> QED BY <2>1, <2>3
<1>5. CASE ~None
  <2>1. new = join(texts)
    BY <1>5 DEF keySubstitute
  <2>2. n # 0
    BY <1>1, <1>5
  <2>3. texts = [i \in 1 .. n |-> texts[i]] /\ \A i \in 1 .. n : texts[i] = ArgText(codec, args[i])
    BY <1>1, <1>2
  <2> HIDE DEF texts, n
  <2>4. IsList(texts) /\ Len(texts) = n /\ DOMAIN texts = 1 .. n
    BY <1>1, <2>3, ListOf
  <2>5. ASSUME NEW i \in 1 .. n PROVE IsToken(texts[i]) /\ KeyVal(codec, texts[i]) = args[i]
    <3> DEFINE kv == args[i]
    <3>1. ArgOK(kv) /\ Expressible(kv)
      BY <1>2, <1>3, <2>5
    <3>2. texts[i] = ArgText(codec, kv)
      BY <2>3, <2>5
    <3> HIDE DEF kv
    <3>3. Sayable(kv.val) /\ (kv.key # <<>> \/ kv.val # <<>>)
      <4>1. \A j \in DOMAIN kv.val : kv.val[j] \in Range(kv.val)
        BY DEF Range
      <4> QED BY <3>1, <4>1 DEF Expressible, Sayable
    <3>4. TokenOf(codec, kv, texts[i])
      BY <3>1, <3>2, <3>3, KeyValBack
    <3> QED BY <3>4 DEF TokenOf, IsToken, kv
  <2>6. texts # <<>>
    BY <2>2, <2>4
  <2>7. Tokens(new) = texts
    BY <2>1, <2>4, <2>5, <2>6, TokensJoin
  <2>8. parseArgs(codec, new) = [i \in 1 .. n |-> KeyVal(codec, texts[i])]
    BY <2>4, <2>7 DEF parseArgs
  <2>9. args = [i \in 1 .. n |-> args[i]]
    BY <1>2
  <2> QED BY <2>5, <2>8, <2>9
<1> QED BY <1>4, <1>5

LEMMA OriginalArgs ==
    ASSUME TodoInv, NEW t \in Workers, NEW o, o = Original(t)
    PROVE  IsList(o.mArgs) /\ o.mParsedArgs = parseArgs(server.codec, o.mArgs)
<1> DEFINE r == scenario.requests[t].info
           args == parseArgs(server.codec, r.mArgs)
<1>1. r \in RequestInfo /\ r.mParsedArgs = <<>>
  BY LocationOK, DupProcessAssumption DEF TodoInv
<1>2. /\ o.mParsedArgs = r.mParsedArgs \o args
      /\ \A k \in DOMAIN r \ {"mParsedArgs"} : o[k] = r[k]
  <2>1. /\ DOMAIN Original(t) = DOMAIN r
        /\ Original(t).mParsedArgs = r.mParsedArgs \o parseArgs(server.codec, r.mArgs)
        /\ \A k \in DOMAIN r \ {"mParsedArgs"} : Original(t)[k] = r[k]
    BY OriginalFields
  <2> HIDE DEF r
  <2> QED BY <2>1
<1>3. IsList(args)
  BY <1>1, RequestFields, ParsedList
<1> HIDE DEF r
<1>4. "mArgs" \in DOMAIN r \ {"mParsedArgs"} /\ r.mArgs \in Text
  BY <1>1, RequestFields
<1>5. o.mArgs = r.mArgs
  BY <1>2, <1>4
<1>6. IsList(o.mArgs)
  BY <1>4, <1>5, SeqList DEF Text
<1>7. <<>> \o args = args
  <2>1. args \in Seq(Range(args))
    BY <1>3 DEF IsList
  <2> HIDE DEF args
  <2> QED BY <2>1
<1> QED BY <1>1, <1>2, <1>5, <1>6, <1>7

\* keySubstitute rebuilds a query string that says the same but for the
\* substituted values (ArgumentsKept): join and ArgText write what Tokens and
\* KeyVal read back, for every request, every rule and both codecs.
THEOREM ArgumentsAreKept == Spec => []ArgumentsKept
<1>1. CallInv /\ DirectivesInv /\ TodoInv => ArgumentsKept
  <2> SUFFICES ASSUME CallInv, DirectivesInv, TodoInv, NEW t \in Workers, NEW call \in Range(sent[t]),
                      NEW commands, commands = Commands(t)[call.dest],
                      NEW args, args = [i \in DOMAIN Original(t).mParsedArgs |->
                        Substituted(commands.mSubstitutions, Original(t).mParsedArgs[i], "QUERY_STRING")],
                      \A s \in Range(commands.mRawSubstitutions) : "QUERY_STRING" \notin s.scope,
                      \A kv \in Range(args) : Expressible(kv)
               PROVE  parseArgs(server.codec, call.args) = args
    BY DEF ArgumentsKept
  <2> DEFINE o == Original(t)
             codec == server.codec
             keyVals == o.mParsedArgs
             text == o.mArgs
             raw == commands.mRawSubstitutions
             new == keySubstitute(codec, commands.mSubstitutions, keyVals, "QUERY_STRING", text)
             r == substituteRequest(codec, commands, o)
  <2>1. CallOK(t, call)
    BY DEF CallInv
  <2>2. call.args = r.mArgs /\ SubsOK(commands)
    <3>1. CommandsOK(commands, call.dest, conf[Location(t)].highest)
      BY <2>1, LocationOK DEF CallOK, DirectivesInv, Commands
    <3> QED BY <2>1, <3>1 DEF CallOK, TakenFrom, CommandsOK
  <2>3. {"mPath", "mArgs", "mHeadersIn", "mBody"} \subseteq DOMAIN o
    BY OriginalHeaders
  <2>4. IsList(text) /\ keyVals = parseArgs(codec, text)
    BY OriginalArgs
  <2>5. r.mArgs = SubstituteAll(new, About(raw, {"QUERY_STRING"}))
    <3> HIDE DEF o, codec
    <3> QED BY <2>3, substituteRequestFields
  <2>6. About(raw, {"QUERY_STRING"}) = <<>>
    <3> DEFINE S == {i \in DOMAIN raw : raw[i].scope \cap {"QUERY_STRING"} # {}}
    <3>1. S = {}
      <4>1. \A i \in DOMAIN raw : raw[i] \in Range(raw)
        BY DEF Range
      <4> QED BY <4>1
    <3>2. About(raw, {"QUERY_STRING"}) = Pick(raw, S)
      BY DEF About
    <3> QED BY <3>1, <3>2, PickNone
  <2>7. call.args = new
    <3> HIDE DEF new, r
    <3> QED BY <2>2, <2>5, <2>6, SubstituteNothing
  <2> HIDE DEF o, codec, r, raw
  <2>10. args = [i \in DOMAIN keyVals |-> Substituted(commands.mSubstitutions, keyVals[i], "QUERY_STRING")]
    BY DEF o
  <2> HIDE DEF text, keyVals
  <2>8. IsList(keyVals) /\ \A i \in DOMAIN keyVals : ArgOK(keyVals[i])
    BY <2>4, ParsedArgs
  <2>9. \A i \in DOMAIN args : Expressible(args[i])
    BY DEF Range
  <2> DEFINE part == "QUERY_STRING"
  <2>11. /\ args = [i \in DOMAIN keyVals |-> Substituted(commands.mSubstitutions, keyVals[i], part)]
         /\ new = keySubstitute(codec, commands.mSubstitutions, keyVals, part, text)
    BY <2>10
  <2> HIDE DEF new, part
  <2>12. parseArgs(codec, new) = args
    BY <2>2, <2>4, <2>8, <2>9, <2>11, keySubstituteKept
  <2> QED BY <2>7, <2>12 DEF codec
<1> QED BY <1>1, CallInvariant, DirectivesInvariant, TodoInvariant, PTL
=============================================================================
