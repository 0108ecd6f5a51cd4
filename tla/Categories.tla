------------------------------ MODULE Categories ------------------------------
(***************************************************************************)
(* routes/categories.js and utils/defaultCategories.js.  Category names    *)
(* that differ only in case, accents or punctuation are one category: both *)
(* the route and the script that adds the default list read all names and  *)
(* keep from their list the ones whose key is new.  The collection has a   *)
(* unique index on the name itself, not on the key, and nothing joins the  *)
(* read to the insertion.                                                  *)
(***************************************************************************)
CONSTANTS
  CategoryName,      \* names, as cleanCategoryName leaves them
  CategoryKey,       \* CategoryKey[n]: normalizeCategoryName of n
  CategoryRequest,   \* POST requests and runs of the script, each served once
  DefaultName        \* DEFAULT_PRODUCT_CATEGORIES

CategoryAssumption ==
  /\ DefaultName \subseteq CategoryName
  /\ DOMAIN CategoryKey = CategoryName
  /\ \A m, n \in DefaultName : CategoryKey[m] = CategoryKey[n] => m = n

ASSUME CategoryAssumption

VARIABLES
  category,     \* the names in the collection
  categoryReq,  \* categoryReq[c]: the request or script run c
  madeBy        \* madeBy[n]: what inserted the category n (history variable)

categoryVars == <<category, categoryReq, madeBy>>

-------------------------------------------------------------------------------

NoCategoryReq == [phase |-> "idle"]

\* wants is what was asked for; adds, what is left of it after the read.
CategoryReq == [phase : {"read", "done"}, op : {"post", "script"},
                wants : SUBSET CategoryName, adds : SUBSET CategoryName,
                seen : SUBSET CategoryName]

KeysOf(N) == {CategoryKey[n] : n \in N}

CategoryInit ==
  /\ category = {}
  /\ categoryReq = [c \in CategoryRequest |-> NoCategoryReq]
  /\ madeBy = [n \in CategoryName |-> {}]

\* Mutant: names are compared as they are.
MissingByName(wants, seen) == {wants \ seen}

\* uniqueRequested, missingDefaultCategories: one name of each key that is
\* asked for and not there; which one depends on the order of the list.
Missing(wants, seen) ==
  {A \in SUBSET wants :
     /\ KeysOf(A) = KeysOf(wants) \ KeysOf(seen)
     /\ \A m, n \in A : CategoryKey[m] = CategoryKey[n] => m = n}

ReadCategories(c, op, W) ==
  /\ categoryReq[c] = NoCategoryReq
  /\ W # {}
  /\ op = "script" => W = DefaultName
  /\ \E A \in Missing(W, category) :
       categoryReq' = [categoryReq EXCEPT
         ![c] = [phase |-> "read", op |-> op, wants |-> W, adds |-> A,
                 seen |-> category]]
  /\ UNCHANGED <<category, madeBy>>

\* Mutant: ordered: true, where the first duplicate ends the insertion.
InsertableOrdered(q) == IF q.adds \cap category = {} THEN q.adds ELSE {}

\* ordered: false inserts every name the unique index lets in, also when the
\* request is then answered 409; the script's upserts do the same.
Insertable(q) == q.adds \ category

InsertCategories(c) ==
  LET q == categoryReq[c] IN
  /\ q.phase = "read"
  /\ category' = category \cup Insertable(q)
  /\ madeBy' = [n \in CategoryName |-> IF n \in Insertable(q) THEN {c}
                                       ELSE madeBy[n]]
  /\ categoryReq' = [categoryReq EXCEPT ![c].phase = "done"]

CategoryArrival ==
  \E c \in CategoryRequest, op \in {"post", "script"} :
    \E W \in SUBSET CategoryName : ReadCategories(c, op, W)

CategoryWrite == \E c \in CategoryRequest : InsertCategories(c)

CategoryNext == CategoryArrival \/ CategoryWrite

CategorySpec == CategoryInit /\ [][CategoryNext]_categoryVars

-------------------------------------------------------------------------------
(* Properties.                                                             *)

\* Every request is one the route or the script makes.
CategoryTypeOK ==
  /\ category \subseteq CategoryName
  /\ categoryReq \in [CategoryRequest -> {NoCategoryReq} \cup CategoryReq]
  /\ madeBy \in [CategoryName -> SUBSET CategoryRequest]

\* Two spellings of one category exist only when the requests that made them
\* overlapped: neither saw the other's name.
TwinsOnlyIfOverlapping ==
  \A m, n \in category : m # n /\ CategoryKey[m] = CategoryKey[n] =>
    \A c \in madeBy[m], d \in madeBy[n] :
      c # d /\ m \notin categoryReq[d].seen /\ n \notin categoryReq[c].seen

\* Whatever it is answered, 201, 200 or 409, a request that was served leaves a
\* category for everything it asked for: a duplicate holds nothing else back.
ServedCategoriesExist ==
  \A c \in CategoryRequest : categoryReq[c].phase = "done" =>
    KeysOf(categoryReq[c].wants) \subseteq KeysOf(category)
===============================================================================
