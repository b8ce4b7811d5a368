-------------------------------- MODULE Records --------------------------------
(***************************************************************************)
(* The records that requests, tasks and people change at the same time.    *)
(* The parts share no state with each other, so a behaviour is one of one  *)
(* of them, chosen at the start, and the others stay as they are.          *)
(***************************************************************************)
EXTENDS Naturals, FiniteSets

CONSTANTS
    Journals, JournalSizes, MaxRecords,
    Deadlines, LastDay, Window,
    ConfigFields, MaxVersion, MaxFeedback,
    Owners, Owner, Manuscripts, Attachments, FileSizes, AuthorLimit, TotalLimit,
    MaxPasswords, LastSecond, SessionSeconds,
    Callers, MaxCalls, MaxCost, DayLimit, MonthLimit, DaysInMonth, LastBudgetDay,
    Venues, Authors, ShortlistSize, MaxText, MaxTime,
    Uploads, MaxBackups, MaxRestores,
    Requests

\* Numbers where the code has numbers; what counts from 1 begins there.
ASSUME BoundsAssumption ==
    /\ IsFiniteSet(Journals) /\ JournalSizes \subseteq Nat \ {0} /\ MaxRecords \in Nat
    /\ LastDay \in Nat \ {0} /\ Deadlines \subseteq Nat /\ Window \in Nat
    /\ MaxVersion \in Nat /\ MaxFeedback \in Nat
    /\ IsFiniteSet(Manuscripts \union Attachments) /\ FileSizes \subseteq Nat
    /\ AuthorLimit \in Nat /\ TotalLimit \in Nat
    /\ MaxPasswords \in Nat \ {0} /\ LastSecond \in Nat \ {0} /\ SessionSeconds \in Nat
    /\ MaxCalls \in Nat /\ MaxCost \in Nat /\ LastBudgetDay \in Nat \ {0}
    /\ DayLimit \in Nat /\ MonthLimit \in Nat /\ DaysInMonth \in Nat \ {0}
    /\ MaxText \in Nat \ {0} /\ MaxTime \in Nat \ {0}
    /\ MaxBackups \in Nat /\ MaxRestores \in Nat

VARIABLES
    part,
    source, index, pass,
    today, sitePages, staged, listing, config, checker, edit, readOn,
    configs, feedback, changes, configAt,
    bytes, earlier, gone, sent, changed, quotaAt,
    who, second, account, links, sessions, accountAt,
    budgetDay, status, day, cost, expired, billed, caller,
    text, profile, mech, gate, sem, match, matched, now, shortlistedAt, request, job,
    rows, media, root, kept, attempt, bundle, old, restore, restores

CataloguePart == INSTANCE CatalogueIndex WITH Sizes <- JournalSizes
CallsPart == INSTANCE FreshCalls WITH pages <- sitePages, venue <- listing, Calls <- Deadlines
ConfigsPart == INSTANCE VenueConfigs WITH Fields <- ConfigFields, changed <- changes, at <- configAt
QuotaPart == INSTANCE StorageQuota WITH at <- quotaAt, Authors <- Owners, Sizes <- FileSizes
AccountPart == INSTANCE Accounts WITH now <- second, at <- accountAt
BudgetPart == INSTANCE AIBudget WITH today <- budgetDay, LastDay <- LastBudgetDay
MatchingPart == INSTANCE Matching WITH venue <- matched, Requests <- Authors
BackupPart == INSTANCE Backup WITH Files <- Uploads

catalogueVars == <<source, index, pass>>
callsVars == <<today, sitePages, staged, listing, config, checker, edit, readOn>>
configsVars == <<configs, feedback, changes, configAt>>
quotaVars == <<bytes, earlier, gone, sent, changed, quotaAt>>
accountVars == <<who, second, account, links, sessions, accountAt>>
budgetVars == <<budgetDay, status, day, cost, expired, billed, caller>>
matchingVars == <<text, profile, mech, gate, sem, match, matched, now, shortlistedAt, request, job>>
backupVars == <<rows, media, root, kept, attempt, bundle, old, restore, restores>>
vars == <<part, catalogueVars, callsVars, configsVars, quotaVars, accountVars, budgetVars, matchingVars,
          backupVars>>

\* The part takes a step, the others do not.
CatalogueNext ==
    /\ part = "catalogue" /\ CataloguePart!Next
    /\ UNCHANGED <<part, callsVars, configsVars, quotaVars, accountVars, budgetVars, matchingVars, backupVars>>

CallsNext ==
    /\ part = "calls" /\ CallsPart!Next
    /\ UNCHANGED <<part, catalogueVars, configsVars, quotaVars, accountVars, budgetVars, matchingVars, backupVars>>

ConfigsNext ==
    /\ part = "configs" /\ ConfigsPart!Next
    /\ UNCHANGED <<part, catalogueVars, callsVars, quotaVars, accountVars, budgetVars, matchingVars, backupVars>>

QuotaNext ==
    /\ part = "quota" /\ QuotaPart!Next
    /\ UNCHANGED <<part, catalogueVars, callsVars, configsVars, accountVars, budgetVars, matchingVars, backupVars>>

AccountNext ==
    /\ part = "account" /\ AccountPart!Next
    /\ UNCHANGED <<part, catalogueVars, callsVars, configsVars, quotaVars, budgetVars, matchingVars, backupVars>>

BudgetNext ==
    /\ part = "budget" /\ BudgetPart!Next
    /\ UNCHANGED <<part, catalogueVars, callsVars, configsVars, quotaVars, accountVars, matchingVars, backupVars>>

MatchingNext ==
    /\ part = "matching" /\ MatchingPart!Next
    /\ UNCHANGED <<part, catalogueVars, callsVars, configsVars, quotaVars, accountVars, budgetVars, backupVars>>

BackupNext ==
    /\ part = "backup" /\ BackupPart!Next
    /\ UNCHANGED <<part, catalogueVars, callsVars, configsVars, quotaVars, accountVars, budgetVars, matchingVars>>

Init ==
    /\ part \in {"catalogue", "calls", "configs", "quota", "account", "budget", "matching", "backup"}
    /\ CataloguePart!Init /\ CallsPart!Init /\ ConfigsPart!Init
    /\ QuotaPart!Init /\ AccountPart!Init /\ BudgetPart!Init /\ MatchingPart!Init /\ BackupPart!Init
    \* Parts that stay as they are may stay in one state.
    /\ part # "calls" => sitePages = {}
    /\ part # "account" => who = "author"
    /\ part # "matching" => \A v \in Venues : matched[v].matchable

Next ==
    \/ CatalogueNext
    \/ CallsNext
    \/ ConfigsNext
    \/ QuotaNext
    \/ AccountNext
    \/ BudgetNext
    \/ MatchingNext
    \/ BackupNext

Spec == Init /\ [][Next]_vars

\* The states of the part that works.
TypeOK ==
    CASE part = "catalogue" -> CataloguePart!TypeOK
      [] part = "calls" -> CallsPart!TypeOK
      [] part = "configs" -> ConfigsPart!TypeOK
      [] part = "quota" -> QuotaPart!TypeOK
      [] part = "account" -> AccountPart!TypeOK
      [] part = "budget" -> BudgetPart!TypeOK
      [] part = "matching" -> MatchingPart!TypeOK
      [] part = "backup" -> BackupPart!TypeOK

\* An incomplete pass removes and flags nothing that belongs to the index (_catalogue_pass).
NothingLostOfTheCatalogue == CataloguePart!NothingLostOfTheCatalogue

\* The calls of a checked venue that an author sees are fresh (visible_calls).
CheckedCallsAreFresh == CallsPart!CheckedCallsAreFresh

\* A venue has one active configuration (admin_activate_venue_config and the others).
OneActiveConfig == ConfigsPart!OneActiveConfig

\* The storage limits are passed by at most one file (storage_quota_guard).
PassedByAtMostAFile == QuotaPart!PassedByAtMostAFile

\* What a request changed of an account is not undone by another (save(update_fields)).
ChangesLast == AccountPart!ChangesLast

\* The spend of the day and the month stays under its ceilings (reserve).
UnderCeilings == BudgetPart!UnderCeilings

\* The semantic assessment shown is not older than the mechanical one (author_readiness).
SemanticNotOlder == MatchingPart!SemanticNotOlder

\* A backup or a restore that is broken off destroys neither the last archive nor a file.
NothingDestroyed == BackupPart!NothingDestroyed
=============================================================================
