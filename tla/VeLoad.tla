------------------------------- MODULE VeLoad -------------------------------
(***************************************************************************)
(* The case load of cedar_ve.c (VE_SUPPORT_DVFS).  Each codec channel of a  *)
(* client announces its load with IOCTL_UPDATE_CASE_LOAD_PARAM.  The driver *)
(* keeps it in load_infos, under a spinlock, and then adds up all loads and *)
(* picks the frequency of the engine, without the spinlock.  The release of *)
(* a file removes the load of a client that has died.                       *)
(*                                                                         *)
(* A file stands for its process_channel_id.  pixels is width * height in a *)
(* coarse unit.  The summation is cut at each entry it reads.               *)
(***************************************************************************)
EXTENDS Integers, FiniteSetsExt

CONSTANTS
  LoadFiles,     \* the files
  LoadChannels,  \* the thread channels of a file
  Decoders,      \* the formats below VE_DECODER_FORMAT_MAX
  Encoders,      \* the other formats
  ZeroFormat,    \* format 0, that of a cleared entry: a decoder without a row
  Pixels, Rates, \* what a channel may announce; rate 0 stands for any <= 0
  DefaultRate,   \* 60
  Word,          \* 2^32: total_load_pixels is a u32
  MaxLoads,      \* MAX_VE_LOAD_PARAM_CHANNEL
  Performance,   \* decoder_perform_sun55iw3[format]: its rows, lightest first
  MaxFreq,       \* VE_PERFORMANCE_MAX_FREQ, which stands for the user's setting
  ClkRange,      \* VE_CLK_LOW_WATER .. VE_CLK_HIGH_WATER
  UserFreqs,     \* the arguments of IOCTL_SET_VE_FREQ
  NoLoad         \* an entry that is not used

\* What a channel may announce.
Announcements == [file : LoadFiles, channel : LoadChannels, format : Decoders \cup Encoders,
                  pixels : Pixels, rate : Rates \cup {DefaultRate}]

ASSUME VeLoadAssumption ==
  /\ MaxLoads \in Nat
  /\ Pixels \subseteq Nat /\ Rates \subseteq Nat /\ DefaultRate \in Nat
  /\ Word \in Nat \ {0}
  /\ ZeroFormat \notin Decoders \cup Encoders
  /\ NoLoad \notin Announcements
  /\ \A m \in Decoders : \A k \in DOMAIN Performance[m] :
        Performance[m][k] \in [end : Nat, freq : ClkRange]

LoadEntries == 1 .. MaxLoads

VARIABLES
  load_infos,            \* load_infos[i]: an announcement, or NoLoad
  ve_rate,               \* the rate of ve_clk in MHz
  user_setting_ve_freq,
  load_pc,               \* load_pc[f]: "closed", "user", "sum" or "gone"
  load_i,                \* load_i[f]: the entry that the summation of f is at
  load_sum,              \* load_sum[f]: the announcements it has added
  load_fix,              \* the files whose summation is about to store DefaultRate
  announced,             \* history: what the channels of a file have announced
  undisturbed,           \* history: the files whose call saw no other change
  settled,               \* history: nothing has changed since the last setting
  overwritten            \* history: a DefaultRate hit another announcement

loadVars == <<load_infos, ve_rate, user_setting_ve_freq, load_pc, load_i,
              load_sum, load_fix, announced, undisturbed, settled, overwritten>>

LoadInit ==
  /\ load_infos = [i \in LoadEntries |-> NoLoad]
  /\ ve_rate \in UserFreqs
  /\ user_setting_ve_freq = 0
  /\ load_pc = [f \in LoadFiles |-> "closed"]
  /\ load_i = [f \in LoadFiles |-> 1]
  /\ load_sum = [f \in LoadFiles |-> {}]
  /\ load_fix = {}
  /\ announced = [f \in LoadFiles |-> {}]
  /\ undisturbed = {}
  /\ settled = FALSE
  /\ overwritten = FALSE

LoadGo(f, from, to) == /\ load_pc[f] = from
                       /\ load_pc' = [load_pc EXCEPT ![f] = to]

SumVars == <<load_i, load_sum, load_fix>>
FreqVars == <<ve_rate, user_setting_ve_freq>>

Used == {i \in LoadEntries : load_infos[i] # NoLoad}

EntriesOf(f) == {i \in Used : load_infos[i].file = f}

-----------------------------------------------------------------------------
(* Announcing a load: update_case_load_param_sun55iw3, under the spinlock.  *)

\* Faulty variant: takes an unused entry without looking for the channel's own.
EntryForFirstUnused(f, ch) == LoadEntries \ Used

\* The entry of the channel, or else an unused one.
EntryFor(f, ch) ==
  LET own == {i \in EntriesOf(f) : load_infos[i].channel = ch}
  IN  IF own # {} THEN own ELSE LoadEntries \ Used

Forget(f, ch) == {x \in announced[f] : x.channel # ch}

LoadBegins(f) == /\ LoadGo(f, "user", "sum")
                 /\ load_i' = [load_i EXCEPT ![f] = 1]
                 /\ load_sum' = [load_sum EXCEPT ![f] = {}]
                 /\ undisturbed' = {f}
                 /\ settled' = FALSE
                 /\ UNCHANGED <<FreqVars, load_fix, overwritten>>

LoadUpdate(f, ch, m, p, r) ==
  LET info == [file |-> f, channel |-> ch, format |-> m, pixels |-> p, rate |-> r]
  IN  /\ LoadBegins(f)
      /\ EntryFor(f, ch) # {}
      /\ load_infos' = [load_infos EXCEPT ![Min(EntryFor(f, ch))] = info]
      /\ announced' = [announced EXCEPT ![f] = Forget(f, ch) \cup {info}]

\* is_remove_cur_param: also of a channel that has no entry, which clears an unused one.
LoadRemove(f, ch) ==
  /\ LoadBegins(f)
  /\ EntryFor(f, ch) # {}
  /\ load_infos' = [load_infos EXCEPT ![Min(EntryFor(f, ch))] = NoLoad]
  /\ announced' = [announced EXCEPT ![f] = Forget(f, ch)]

\* The table is full: the update fails, which the ioctl ignores.
LoadFull(f, ch) ==
  /\ LoadBegins(f)
  /\ EntryFor(f, ch) = {}
  /\ UNCHANGED <<load_infos, announced>>

-----------------------------------------------------------------------------
(* adjust_ve_freq_by_case_load_sun55iw3, without the spinlock.              *)

\* An entry without a frame rate gets the default one, by a test and a store
\* between which the entry may be announced anew.
LoadSeesNoRate(f) ==
  /\ load_pc[f] = "sum"
  /\ f \notin load_fix
  /\ load_i[f] \in Used
  /\ load_infos[load_i[f]].rate = 0
  /\ load_fix' = load_fix \cup {f}
  /\ UNCHANGED <<load_infos, FreqVars, load_pc, load_i, load_sum, announced,
                 undisturbed, settled, overwritten>>

LoadAdds(f) == /\ load_pc[f] = "sum"
               /\ load_i[f] \in LoadEntries
               /\ load_i' = [load_i EXCEPT ![f] = @ + 1]
               /\ UNCHANGED <<FreqVars, load_pc, announced, undisturbed, settled>>

\* Faulty variant: the loop ends one entry early.
AddedButLast(f, infos) == LET i == load_i[f] IN
  IF infos[i] = NoLoad \/ i = MaxLoads THEN {} ELSE {[at |-> i, info |-> infos[i]]}

\* The entry number load_i[f], with its number, as something to be added.
Added(f, infos) == LET i == load_i[f] IN
  IF infos[i] = NoLoad THEN {} ELSE {[at |-> i, info |-> infos[i]]}

\* What is left of an entry that was removed after the test.
Cleared == [format |-> ZeroFormat, pixels |-> 0, rate |-> DefaultRate]

LoadStoreRate(f) ==
  LET i == load_i[f] IN
  /\ LoadAdds(f)
  /\ f \in load_fix
  /\ load_fix' = load_fix \ {f}
  /\ load_infos' = IF i \in Used THEN [load_infos EXCEPT ![i].rate = DefaultRate]
                                 ELSE load_infos
  /\ overwritten' = (overwritten \/ (i \in Used /\ load_infos[i].rate \notin {0, DefaultRate}))
  /\ load_sum' = [load_sum EXCEPT ![f] = @ \cup
        IF i \in Used THEN Added(f, load_infos') ELSE {[at |-> i, info |-> Cleared]}]

LoadAdd(f) ==
  /\ LoadAdds(f)
  /\ f \notin load_fix
  /\ load_i[f] \in Used => load_infos[load_i[f]].rate # 0
  /\ load_sum' = [load_sum EXCEPT ![f] = @ \cup Added(f, load_infos)]
  /\ UNCHANGED <<load_infos, load_fix, overwritten>>

Formats(sum) == {x.info.format : x \in sum}

Total(sum) == MapThenSumSet(LAMBDA x : x.info.pixels * x.info.rate, sum) % Word

\* More than two decoders, different formats or an encoder: not estimated.
Estimated(sum) == /\ Cardinality(Formats(sum)) = 1
                  /\ Formats(sum) \subseteq Decoders \cup {ZeroFormat}
                  /\ Cardinality(sum) <= 2

\* The rows that can bear the loads; the first one is taken.
Rows(sum) ==
  LET m == CHOOSE m \in Formats(sum) : TRUE
  IN  IF m = ZeroFormat THEN {}
      ELSE {k \in DOMAIN Performance[m] : Total(sum) <= Performance[m][k].end}

RowFreq(sum) == LET m == CHOOSE m \in Formats(sum) : TRUE
                IN  Performance[m][Min(Rows(sum))].freq

\* What setup_ve_freq is called with.
WantedFreq(sum) == IF Estimated(sum) /\ RowFreq(sum) # MaxFreq
                   THEN RowFreq(sum) ELSE user_setting_ve_freq

LoadEnds(f) == /\ LoadGo(f, "sum", "user")
               /\ load_i[f] \notin LoadEntries
               /\ load_sum' = [load_sum EXCEPT ![f] = {}]
               /\ load_i' = [load_i EXCEPT ![f] = 1]
               /\ UNCHANGED <<load_infos, user_setting_ve_freq, load_fix, announced,
                              undisturbed, overwritten>>

\* Nothing to add, or more than the table of performances has: no change.
NoWish(sum) == sum = {} \/ (Estimated(sum) /\ Rows(sum) = {})

LoadUnchanged(f) ==
  /\ LoadEnds(f)
  /\ NoWish(load_sum[f])
  /\ UNCHANGED <<ve_rate, settled>>

LoadSetup(f) ==
  LET freq == WantedFreq(load_sum[f]) IN
  /\ LoadEnds(f)
  /\ ~NoWish(load_sum[f])
  /\ freq \in ClkRange
  /\ ve_rate' = freq
  /\ settled' = (f \in undisturbed)

\* The clock does not take the rate, or no user has set one yet.
LoadSetupFails(f) ==
  /\ LoadEnds(f)
  /\ ~NoWish(load_sum[f])
  /\ settled' = FALSE
  /\ UNCHANGED ve_rate

-----------------------------------------------------------------------------
(* The rest: IOCTL_SET_VE_FREQ, open and release.                           *)

\* The rate that results, whether it was set or not, becomes the user's setting.
SetVeFreq(f, freq) ==
  /\ load_pc[f] = "user"
  /\ ve_rate' \in {ve_rate} \cup ({freq} \cap ClkRange)
  /\ user_setting_ve_freq' = ve_rate'
  /\ undisturbed' = {}
  /\ settled' = FALSE
  /\ UNCHANGED <<load_infos, load_pc, SumVars, announced, overwritten>>

LoadOpen(f) ==
  /\ LoadGo(f, "closed", "user")
  /\ UNCHANGED <<load_infos, FreqVars, SumVars, announced, undisturbed, settled,
                 overwritten>>

LoadGone(f) == /\ LoadGo(f, "user", "gone")
               /\ UNCHANGED <<FreqVars, SumVars, overwritten>>

\* remove_case_load_param_by_process_id_sun55iw3 looks among these.
ReleaseAmong(f) == EntriesOf(f)

\* The first entry of the file is removed, and only that one.
LoadRelease(f) ==
  /\ LoadGone(f)
  /\ load_infos' = [i \in LoadEntries |->
        IF ReleaseAmong(f) # {} /\ i = Min(ReleaseAmong(f)) THEN NoLoad ELSE load_infos[i]]
  /\ announced' = IF Cardinality(announced[f]) <= 1
                  THEN [announced EXCEPT ![f] = {}] ELSE announced
  /\ undisturbed' = {}
  /\ settled' = FALSE

\* A signal interrupts down_interruptible: release returns before the removal.
LoadReleaseInterrupted(f) ==
  /\ LoadGone(f)
  /\ UNCHANGED <<load_infos, announced, undisturbed, settled>>

-----------------------------------------------------------------------------
LoadFile(f) ==
  \/ \E ch \in LoadChannels :
        \/ \E m \in Decoders \cup Encoders, p \in Pixels, r \in Rates :
              LoadUpdate(f, ch, m, p, r)
        \/ LoadRemove(f, ch) \/ LoadFull(f, ch)
  \/ LoadSeesNoRate(f) \/ LoadStoreRate(f) \/ LoadAdd(f)
  \/ LoadUnchanged(f) \/ LoadSetup(f) \/ LoadSetupFails(f)
  \/ \E freq \in UserFreqs : SetVeFreq(f, freq)
  \/ LoadOpen(f) \/ LoadRelease(f) \/ LoadReleaseInterrupted(f)

LoadNext == \E f \in LoadFiles : LoadFile(f)

LoadSpec == LoadInit /\ [][LoadNext]_loadVars

-----------------------------------------------------------------------------
(* Properties.                                                              *)

WithRate(info) == IF info.rate = 0 THEN [info EXCEPT !.rate = DefaultRate] ELSE info

\* load_infos is what the clients have announced: an open file has one entry
\* for each of its channels, with the latest announcement, and a file that is
\* gone has left nothing unless it had several channels (only one entry is
\* removed) or its release was interrupted.  No call touches another's entry,
\* except by the default rate that is stored without the spinlock.
LoadsAsAnnounced ==
  ~overwritten =>
    \A f \in LoadFiles :
      LET mine == {WithRate(load_infos[i]) : i \in EntriesOf(f)}
          told == {WithRate(x) : x \in announced[f]}
      IN  /\ Cardinality(mine) = Cardinality(EntriesOf(f))
          /\ mine \subseteq told
          /\ load_pc[f] # "gone" => mine = told

\* When a call has set the frequency and nothing has been announced, removed
\* or set meanwhile, the engine has the frequency its present loads call for,
\* although they were added up entry by entry without a lock.
RateFits ==
  settled /\ ~overwritten =>
    LET sum == {[at |-> i, info |-> WithRate(load_infos[i])] : i \in Used}
    IN  ve_rate = WantedFreq(sum)
=============================================================================
