------------------------------- MODULE Catalog -------------------------------
(***************************************************************************)
(* The categories of a workspace, the transaction rules that suggest them  *)
(* and the currency of an account, with everything that refers to them:    *)
(* operations and the rows of a statement (features/categories,            *)
(* features/transaction_rules, features/accounts).                         *)
(*                                                                         *)
(* A command that changes something holds the row lock of the workspace    *)
(* until it commits and is one step.  Two things do not: reading the       *)
(* directory of categories, which creates the defaults that are missing    *)
(* and is called without the lock (GET, and after the commit of an update) *)
(* and the upload of a statement, which commits the document before the    *)
(* parser has made its rows.                                               *)
(*                                                                         *)
(* Properties and the texts of rules are left out: a rule either is narrow *)
(* (an account or amounts are asked for) or takes any row.                 *)
(***************************************************************************)
EXTENDS Naturals, Sequences, FiniteSets, SequencesExt

CONSTANTS
    Category, System,   \* the slots of categories, the one for "uncategorized"
    Rule, Narrow,       \* rules, by the key of the request that creates them
    Row, NarrowRow,     \* rows of one statement, those narrow rules ask for
    Operation,
    Currency,
    Name, DefaultName,  \* the names members give categories, those that are seeded
    SystemName,
    Fold,               \* name -> the name without regard to case
    NoCategory, NoRule, NoRow

ASSUME CatalogAssumption ==
    /\ System \in Category /\ NoCategory \notin Category
    /\ Narrow \subseteq Rule /\ NoRule \notin Rule
    /\ NarrowRow \subseteq Row /\ NoRow \notin Row
    /\ DefaultName \subseteq Name /\ SystemName \notin DefaultName

VARIABLES
    category,   \* what is in a slot
    rule,       \* what a rule is
    rules,      \* the existing rules in the order of their creation
    row,        \* the rows: their status and suggestion
    operation,  \* what was posted, and to which category
    account,    \* the currency of the account the statement is of
    money,      \* the currency recorded with a document, a row or an entry
    seeding     \* the defaults a reader of the directory found missing

vars == <<category, rule, rules, row, operation, account, money, seeding>>

Free == [status |-> "absent", name |-> SystemName]
NoSuggestion == [rule |-> NoRule, category |-> NoCategory]
Unwritten == [status |-> "absent", category |-> NoCategory]
Unposted == [status |-> "absent", category |-> NoCategory, row |-> NoRow]
Idle == [stage |-> "idle"]

CategoryRecord == [status : {"absent", "active", "archived"}, name : Name \cup {SystemName}]
RuleRecord == [status : {"absent", "active", "inactive"}, category : Category \cup {NoCategory}]
RowRecord ==
    [status : {"absent", "uploaded", "open", "posted"},
     suggested : [rule : Rule \cup {NoRule}, category : Category \cup {NoCategory}]]
OperationRecord == [status : {"absent", "confirmed", "cancelled"},
                    category : Category \cup {NoCategory}, row : Row \cup {NoRow}]
SeedRecord == [stage : {"read"}, system : BOOLEAN, names : SUBSET DefaultName]

Existing == {c \in Category : category[c].status # "absent"}
Active == {c \in Category : category[c].status = "active"}
ExistingRules == {r \in Rule : rule[r].status # "absent"}

TypeOK ==
    /\ category \in [Category -> CategoryRecord]
    /\ rule \in [Rule -> RuleRecord]
    /\ rules \in Seq(Rule) /\ ToSet(rules) = ExistingRules /\ IsInjective(rules)
    /\ row \in [Row -> RowRecord]
    /\ operation \in [Operation -> OperationRecord]
    /\ account \in Currency
    /\ money \in [Row \cup Operation -> Currency]
    /\ seeding \in SeedRecord \cup {Idle}

Init ==
    /\ category = [c \in Category |-> Free]
    /\ rule = [r \in Rule |-> Unwritten]
    /\ rules = <<>>
    /\ row = [x \in Row |-> [status |-> "absent", suggested |-> NoSuggestion]]
    /\ operation = [o \in Operation |-> Unposted]
    /\ account \in Currency
    /\ money = [x \in Row \cup Operation |-> account]
    /\ seeding = Idle

-----------------------------------------------------------------------------
(* Categories.                                                             *)

Put(c, status, name) == category' = [category EXCEPT ![c] = [status |-> status, name |-> name]]

OnlyCategories == UNCHANGED <<rule, rules, row, operation, account, money, seeding>>

\* Mutant: names are compared as they are written.
NameAvailableExact(c, name) == {x \in Existing : category[x].name = name} \subseteq {c}

\* _ensure_name_available; it fails too when several categories have the name.
NameAvailable(c, name) ==
    {x \in Existing : Fold[category[x].name] = Fold[name]} \subseteq {c}

CreateCustom(c, name) ==
    /\ c \notin Existing \cup {System}
    /\ NameAvailable(c, name)
    /\ Put(c, "active", name)
    /\ OnlyCategories

Editable(c) == c \in Existing \ {System}

UpdateCustom(c, name) ==
    /\ Editable(c)
    /\ NameAvailable(c, name)
    /\ Put(c, category[c].status, name)
    /\ OnlyCategories

\* Mutant: only rules that suggested something keep a category active.
UnruledSuggested(c) ==
    \A r \in Rule : rule[r].status = "active" /\ rule[r].category = c
                        => \A x \in Row : row[x].suggested.rule # r

\* No active rule targets the category.
Unruled(c) == \A r \in Rule : rule[r].status = "active" => rule[r].category # c

Archive(c) ==
    /\ Editable(c) /\ c \in Active
    /\ Unruled(c)
    /\ Put(c, "archived", category[c].name)
    /\ OnlyCategories

Restore(c) ==
    /\ Editable(c) /\ c \notin Active
    /\ Put(c, "active", category[c].name)
    /\ OnlyCategories

\* Mutant: what was cancelled does not keep its category.
UnreferencedConfirmed(c) ==
    /\ \A o \in Operation : operation[o].status = "confirmed" => operation[o].category # c
    /\ \A r \in Rule : rule[r].category # c
    /\ \A x \in Row : row[x].suggested.category # c

\* CategoryDeleteDependencies: operations of any status, rules and suggestions
Unreferenced(c) ==
    /\ \A o \in Operation : operation[o].category # c
    /\ \A r \in Rule : rule[r].category # c
    /\ \A x \in Row : row[x].suggested.category # c

DeleteArchived(c) ==
    /\ Editable(c) /\ c \notin Active
    /\ Unreferenced(c)
    /\ category' = [category EXCEPT ![c] = Free]
    /\ OnlyCategories

\* ensure_defaults compares the names as they are written.
MissingSystem == System \notin Existing
MissingNames == {n \in DefaultName : \A c \in Existing : category[c].name # n}

\* The missing categories are put in free slots; the unique index over system
\* keys refuses a second category of the system, and all that comes with it.
Seeded(system, names) ==
    /\ system => System \notin Existing
    /\ \E slot \in [names -> Category \ (Existing \cup {System})] :
          /\ IsInjective(slot)
          /\ category' = [c \in Category |->
                 CASE c = System /\ system -> [status |-> "active", name |-> SystemName]
                   [] \E n \in names : slot[n] = c ->
                          [status |-> "active", name |-> CHOOSE n \in names : slot[n] = c]
                   [] OTHER -> category[c]]

\* The directory is read, without a lock; nothing is written when all is there.
ReadDirectory ==
    /\ seeding = Idle
    /\ MissingSystem \/ MissingNames # {}
    /\ seeding' = [stage |-> "read", system |-> MissingSystem, names |-> MissingNames]
    /\ UNCHANGED <<category, rule, rules, row, operation, account, money>>

WriteDefaults ==
    /\ seeding # Idle
    /\ Seeded(seeding.system, seeding.names)
    /\ seeding' = Idle
    /\ UNCHANGED <<rule, rules, row, operation, account, money>>

AbandonDefaults ==
    /\ seeding # Idle
    /\ seeding' = Idle
    /\ UNCHANGED <<category, rule, rules, row, operation, account, money>>

-----------------------------------------------------------------------------
(* Rules.                                                                  *)

Usable(c) == c = NoCategory \/ c \in Active

\* create_rule_idempotently: the id of the rule follows from the key of the
\* request, so that a repeated request finds the rule and changes nothing.
CreateRule(r, c) ==
    /\ r \notin ExistingRules
    /\ Usable(c)
    /\ rule' = [rule EXCEPT ![r] = [status |-> "active", category |-> c]]
    /\ rules' = Append(rules, r)

OnlyRules == UNCHANGED <<category, row, operation, account, money, seeding>>

\* A rule may keep a category that was archived.
UpdateRule(r, c) ==
    /\ r \in ExistingRules
    /\ Usable(c) \/ c = rule[r].category
    /\ rule' = [rule EXCEPT ![r].category = c]
    /\ UNCHANGED rules /\ OnlyRules

SetRuleActive(r, status) ==
    /\ r \in ExistingRules
    /\ status = "active" => Usable(rule[r].category)
    /\ rule' = [rule EXCEPT ![r].status = status]
    /\ UNCHANGED rules /\ OnlyRules

\* count_direct_raw_suggestions
Unsuggested(r) == \A x \in Row : row[x].suggested.rule # r

DeleteRule(r) ==
    /\ rule[r].status = "inactive"
    /\ Unsuggested(r)
    /\ rule' = [rule EXCEPT ![r] = Unwritten]
    /\ rules' = RemoveFirst(rules, r)
    /\ OnlyRules

\* DefaultMerchantRuleSeeder: the category of that name, which must be active,
\* or a new one; a rule it has with that text already is left as it is.
SeedRules(name, r, c) ==
    /\ LET named == {x \in Existing : Fold[category[x].name] = Fold[name]} IN
       \/ /\ c \in named /\ c \in Active
          /\ UNCHANGED category
       \/ /\ named = {} /\ c \notin Existing \cup {System}
          /\ Put(c, "active", name)
    /\ r \notin ExistingRules
    /\ rule' = [rule EXCEPT ![r] = [status |-> "active", category |-> c]]
    /\ rules' = Append(rules, r)
    /\ UNCHANGED <<row, operation, account, money, seeding>>

\* The rules whose conditions a row meets.
Matching(x) == {r \in Rule : r \in Narrow => x \in NarrowRow}

\* rule_preference_score: a category counts more than an account or amounts
Score(r, narrow) ==
    (IF rule[r].category # NoCategory THEN 2 ELSE 0) + (IF r \in narrow THEN 1 ELSE 0)

\* Mutant: of equal rules the last one is taken.
SelectLast(matching, narrow) ==
    FoldLeft(LAMBDA best, r :
                 IF rule[r].status = "active" /\ r \in matching
                    /\ (best = NoRule \/ Score(r, narrow) >= Score(best, narrow))
                 THEN r ELSE best,
             NoRule, rules)

\* select_best_matching_rule
SelectBest(matching, narrow) ==
    FoldLeft(LAMBDA best, r :
                 IF rule[r].status = "active" /\ r \in matching
                    /\ (best = NoRule \/ Score(r, narrow) > Score(best, narrow))
                 THEN r ELSE best,
             NoRule, rules)

Suggestion(x) ==
    LET best == SelectBest(Matching(x), Narrow) IN
    [rule |-> best, category |-> IF best = NoRule THEN NoCategory ELSE rule[best].category]

\* apply_rules_to_raw_transactions
ApplyRules ==
    /\ \E x \in Row : row[x].status = "open"
    /\ row' = [x \in Row |-> IF row[x].status = "open"
                             THEN [row[x] EXCEPT !.suggested = Suggestion(x)] ELSE row[x]]
    /\ UNCHANGED <<category, rule, rules, operation, account, money, seeding>>

-----------------------------------------------------------------------------
(* Statements, operations and the account.                                 *)

\* The document is committed with the account and the currency read from it.
UploadDocument ==
    /\ \A x \in Row : row[x].status = "absent"
    /\ row' = [x \in Row |-> [row[x] EXCEPT !.status = "uploaded"]]
    /\ money' = [x \in Row \cup Operation |-> IF x \in Row THEN account ELSE money[x]]
    /\ UNCHANGED <<category, rule, rules, operation, account, seeding>>

\* The rows get the currency the upload began with, and their suggestions.
ParseDocument ==
    /\ \E x \in Row : row[x].status = "uploaded"
    /\ row' = [x \in Row |-> [status |-> "open", suggested |-> Suggestion(x)]]
    /\ UNCHANGED <<category, rule, rules, operation, account, money, seeding>>

\* An entry takes the currency of its row, or of the account.
Record(o, c, x, currency) ==
    /\ operation[o].status = "absent"
    /\ operation' = [operation EXCEPT ![o] = [status |-> "confirmed", category |-> c, row |-> x]]
    /\ money' = [money EXCEPT ![o] = currency]

RecordManual(o, c) ==
    /\ c \in Active
    /\ Record(o, c, NoRow, account)
    /\ UNCHANGED <<category, rule, rules, row, account, seeding>>

\* Without a category the operation is uncategorized; the defaults are created
\* in the transaction of the operation.
RecordUncategorized(o) ==
    /\ Seeded(MissingSystem, MissingNames)
    /\ Record(o, System, NoRow, account)
    /\ UNCHANGED <<rule, rules, row, account, seeding>>

ConfirmRow(x, o, c) ==
    /\ row[x].status = "open" /\ c \in Active
    /\ Record(o, c, x, money[x])
    /\ row' = [row EXCEPT ![x].status = "posted"]
    /\ UNCHANGED <<category, rule, rules, account, seeding>>

\* The rule of a confirmation is created and applied in its transaction.
ConfirmAndRemember(x, o, c, r) ==
    /\ row[x].status = "open" /\ c \in Active
    /\ Record(o, c, x, money[x])
    /\ CreateRule(r, c)
    /\ row' = [y \in Row |->
                 IF y = x THEN [row[y] EXCEPT !.status = "posted"]
                 ELSE IF row[y].status = "open"
                 THEN [row[y] EXCEPT !.suggested = Suggestion(y)'] ELSE row[y]]
    /\ UNCHANGED <<category, account, seeding>>

ChangeCategory(o, c) ==
    /\ operation[o].status = "confirmed"
    /\ c \in Active
    /\ operation' = [operation EXCEPT ![o].category = c]
    /\ UNCHANGED <<category, rule, rules, row, account, money, seeding>>

Cancel(o) ==
    /\ operation[o].status = "confirmed"
    /\ operation' = [operation EXCEPT ![o].status = "cancelled"]
    /\ row' = [x \in Row |-> IF x = operation[o].row
                             THEN [row[x] EXCEPT !.status = "open"] ELSE row[x]]
    /\ UNCHANGED <<category, rule, rules, account, money, seeding>>

\* has_financial_history: entries, whatever became of them, documents and rows
HasHistory ==
    \/ \E o \in Operation : operation[o].status # "absent"
    \/ \E x \in Row : row[x].status # "absent"

UpdateAccount(currency) ==
    /\ currency # account
    /\ ~HasHistory
    /\ account' = currency
    /\ UNCHANGED <<category, rule, rules, row, operation, money, seeding>>

-----------------------------------------------------------------------------
Next ==
    \/ \E c \in Category, n \in Name : CreateCustom(c, n) \/ UpdateCustom(c, n)
    \/ \E c \in Category : Archive(c) \/ Restore(c) \/ DeleteArchived(c)
    \/ ReadDirectory \/ WriteDefaults \/ AbandonDefaults
    \/ \E r \in Rule, c \in Category \cup {NoCategory} :
          (CreateRule(r, c) /\ OnlyRules) \/ UpdateRule(r, c)
    \/ \E r \in Rule : DeleteRule(r) \/ \E s \in {"active", "inactive"} : SetRuleActive(r, s)
    \/ \E n \in DefaultName, r \in Rule, c \in Category : SeedRules(n, r, c)
    \/ ApplyRules
    \/ UploadDocument \/ ParseDocument
    \/ \E o \in Operation, c \in Category : RecordManual(o, c) \/ ChangeCategory(o, c)
    \/ \E o \in Operation : RecordUncategorized(o) \/ Cancel(o)
    \/ \E x \in Row, o \in Operation, c \in Category :
          ConfirmRow(x, o, c) \/ \E r \in Rule : ConfirmAndRemember(x, o, c, r)
    \/ \E currency \in Currency : UpdateAccount(currency)

Spec == Init /\ [][Next]_vars

-----------------------------------------------------------------------------
\* An active rule suggests a category that may be used, whatever was archived,
\* restored, deleted, kept or seeded in between.
ActiveRulesUsable ==
    \A r \in Rule : rule[r].status = "active" => Usable(rule[r].category)

\* Nothing that is kept refers to a category or a rule that was deleted: neither
\* an operation (a cancelled one stays in the history), nor a rule that is off,
\* nor the suggestion of a row that was posted and may be taken back.
ReferencesStand ==
    /\ \A o \in Operation :
          operation[o].status # "absent" => operation[o].category \in Existing
    /\ \A r \in ExistingRules : rule[r].category \in Existing \cup {NoCategory}
    /\ \A x \in Row :
          /\ row[x].suggested.rule \in ExistingRules \cup {NoRule}
          /\ row[x].suggested.category \in Existing \cup {NoCategory}

\* Two categories have one name, but for its case, only when it is a name that is
\* seeded: one was renamed, or its name taken, before it was seeded (again).
OnlySeededTwice ==
    \A c, d \in Existing :
        c # d /\ Fold[category[c].name] = Fold[category[d].name]
            => \E n \in DefaultName \cup {SystemName} : Fold[n] = Fold[category[c].name]

\* Whichever rules are narrow and match, the rule that is chosen is active and
\* matches, and no other such rule says more, or says as much and is older.
BestRuleChosen ==
    \A matching \in SUBSET ExistingRules : \A narrow \in SUBSET matching :
        LET candidates == {i \in DOMAIN rules : rule[rules[i]].status = "active"
                                                /\ rules[i] \in matching}
            Says(i) == Score(rules[i], narrow)
            best == {i \in candidates : \A j \in candidates :
                        Says(j) < Says(i) \/ (Says(j) = Says(i) /\ i <= j)}
        IN {SelectBest(matching, narrow)} =
               IF candidates = {} THEN {NoRule} ELSE {rules[i] : i \in best}

\* What was posted or imported keeps the currency of its account: the currency
\* does not change between the upload that read it and the rows that get it.
CurrencyKept ==
    /\ \A o \in Operation : operation[o].status # "absent" => money[o] = account
    /\ \A x \in Row : row[x].status # "absent" => money[x] = account

\* What is kept stays true: nothing refers to what was deleted, and money keeps
\* the currency of its account.
Consistent == TypeOK /\ ReferencesStand /\ CurrencyKept
=============================================================================
