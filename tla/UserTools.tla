------------------------------ MODULE UserTools ------------------------------
(***************************************************************************)
(* The user's tools (quicklinks, snippets, commands and notes) in the      *)
(* store of productivity/lib.rs, as the command line changes them while    *)
(* the palette reads them: a table with one row per tool, and a full-text  *)
(* table that has to follow it by hand.                                    *)
(*                                                                         *)
(* save and delete are transactions of several statements; SQLite lets one *)
(* writer in at a time, shows the others what is committed, and forgets    *)
(* what a writer that fails or dies had done.  A tool is its keyword and   *)
(* its text, which stands for the title, the tags and the payload.         *)
(***************************************************************************)
EXTENDS Naturals, FiniteSets

CONSTANTS
    ToolIds, ToolKeywords, Texts,
    NoKeyword,        \* a tool without a keyword
    NoTool,           \* no row; no transaction
    MaxToolChanges    \* bound on transactions

ASSUME UserToolsAssumption ==
    /\ NoKeyword \notin ToolKeywords
    /\ MaxToolChanges \in Nat

VARIABLES
    toolRows,     \* toolRows[id]: the table productivity_items
    toolTerms,    \* toolTerms[id]: the texts productivity_search has of id
    transaction,  \* the writer's transaction: its next statement and its view
    toolChanges   \* transactions begun

toolVars == <<toolRows, toolTerms, transaction, toolChanges>>

ToolRow == [keyword : ToolKeywords \cup {NoKeyword}, text : Texts]

ASSUME NoToolAssumption == NoTool \notin ToolRow

ToolsInit ==
    /\ toolRows = [id \in ToolIds |-> NoTool]
    /\ toolTerms = [id \in ToolIds |-> {}]
    /\ transaction = NoTool
    /\ toolChanges = 0

(***************************************************************************)
(* Transactions.                                                           *)
(***************************************************************************)
BeginWith(statement, id, row) ==
    /\ transaction = NoTool
    /\ toolChanges < MaxToolChanges
    /\ transaction' = [next |-> statement, id |-> id, row |-> row,
                       rows |-> toolRows, terms |-> toolTerms]
    /\ toolChanges' = toolChanges + 1
    /\ UNCHANGED <<toolRows, toolTerms>>

SaveTool(id, row) == BeginWith("upsert", id, row)
DeleteTool(id) == BeginWith("unindex", id, NoTool)

At(statement) == transaction # NoTool /\ transaction.next = statement
RestUnchanged == UNCHANGED <<toolRows, toolTerms, toolChanges>>

\* Another tool has the keyword: the UNIQUE constraint fails the statement.
KeywordTaken(rows, id, row) ==
    /\ row.keyword # NoKeyword
    /\ \E other \in ToolIds \ {id} : rows[other] # NoTool /\ rows[other].keyword = row.keyword

UpsertRow ==
    /\ At("upsert")
    /\ transaction' =
         IF KeywordTaken(transaction.rows, transaction.id, transaction.row) THEN NoTool
         ELSE [transaction EXCEPT !.rows[transaction.id] = transaction.row,
                                  !.next = "unindex"]
    /\ RestUnchanged

UnindexRow ==
    /\ At("unindex")
    /\ transaction' = [transaction EXCEPT
                          !.terms[transaction.id] = {},
                          !.next = IF transaction.row = NoTool THEN "remove" ELSE "index"]
    /\ RestUnchanged

IndexRow ==
    /\ At("index")
    /\ transaction' = [transaction EXCEPT
                          !.terms[transaction.id] = @ \cup {transaction.row.text},
                          !.next = "commit"]
    /\ RestUnchanged

RemoveRow ==
    /\ At("remove")
    /\ transaction' = [transaction EXCEPT !.rows[transaction.id] = NoTool, !.next = "commit"]
    /\ RestUnchanged

Commit ==
    /\ At("commit")
    /\ toolRows' = transaction.rows
    /\ toolTerms' = transaction.terms
    /\ transaction' = NoTool
    /\ UNCHANGED toolChanges

\* Faulty: every statement stands by itself.
KeepsStatements == toolRows' = transaction.rows /\ toolTerms' = transaction.terms
Rollback == UNCHANGED <<toolRows, toolTerms>>

\* A statement fails, or the process dies.
Abandon ==
    /\ transaction # NoTool
    /\ Rollback
    /\ transaction' = NoTool
    /\ UNCHANGED toolChanges

ToolsNext ==
    \/ \E id \in ToolIds :
          \/ \E row \in ToolRow : SaveTool(id, row)
          \/ DeleteTool(id)
    \/ UpsertRow \/ UnindexRow \/ IndexRow \/ RemoveRow \/ Commit \/ Abandon

ToolsSpec == ToolsInit /\ [][ToolsNext]_toolVars

(***************************************************************************)
(* What a reader finds.                                                    *)
(***************************************************************************)
\* search with a query joins the full-text rows with the rows of the tools.
FoundBy(text) == {id \in ToolIds : toolRows[id] # NoTool /\ text \in toolTerms[id]}
\* by_keyword.
NamedBy(keyword) == {id \in ToolIds : toolRows[id] # NoTool /\ toolRows[id].keyword = keyword}

(***************************************************************************)
(* Properties.                                                             *)
(***************************************************************************)
ToolTable == [ToolIds -> ToolRow \cup {NoTool}]
TermTable == [ToolIds -> SUBSET Texts]
Transaction == [next : {"upsert", "unindex", "index", "remove", "commit"}, id : ToolIds,
                row : ToolRow \cup {NoTool}, rows : ToolTable, terms : TermTable]

ToolsTypeOK ==
    /\ toolRows \in ToolTable
    /\ toolTerms \in TermTable
    /\ toolChanges \in 0..MaxToolChanges
    /\ transaction = NoTool \/ transaction \in Transaction

\* A tool is found by the text it has now and by no earlier one, a removed tool
\* leaves nothing to find, and a keyword names one tool, through saves over an
\* existing tool, keyword conflicts and transactions cut short at any statement
\* (ProductivityStore::save and delete).
ToolsFoundOnce ==
    /\ \A text \in Texts :
          FoundBy(text) = {id \in ToolIds : toolRows[id] # NoTool /\ toolRows[id].text = text}
    /\ \A id \in ToolIds : toolRows[id] = NoTool => toolTerms[id] = {}
    /\ \A keyword \in ToolKeywords : Cardinality(NamedBy(keyword)) <= 1
=============================================================================
