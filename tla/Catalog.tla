------------------------------- MODULE Catalog -------------------------------
(***************************************************************************)
(* product.service, taxonomy.service for categories and wishlist.service.  *)
(* Rows are deleted softly, so a foreign key goes on pointing at a deleted *)
(* category, and only the handlers' own reads keep references alive.  They *)
(* read outside any transaction and write later.                           *)
(***************************************************************************)
EXTENDS Naturals, FiniteSets

CONSTANTS MaxCategories, MaxProducts, MaxVariants,  \* bounds: rows of one behaviour
          Editors,        \* requests in flight at the same time
          MaxEditions     \* bound: requests of one behaviour

ASSUME CatalogAssumption == MaxCategories \in Nat /\ MaxProducts \in Nat /\ MaxVariants \in Nat /\ MaxEditions \in Nat

VARIABLES shelf,      \* per category: its row
          product,    \* per product: its row
          variant,    \* per variant: its row, and whether inventory has one for it
          hearts,     \* the products on a customer's wishlist
          editor,     \* per request: what it read and is about to write
          editions,   \* requests so far
          blind       \* history: categories and products that were put under a category
                      \* which was deleted, or past the checks of its removal

catalogVars == <<shelf, product, variant, hearts, editor, editions, blind>>

CategoryIds == 1..MaxCategories
Nowhere == 0                          \* no parent, no category
Parents == {Nowhere} \union CategoryIds
ProductIds == 1..MaxProducts
VariantIds == 1..MaxVariants

Lives == {"absent", "live", "deleted"}
CategoryRow == [life : Lives, parent : Parents]
ProductStatus == {"DRAFT", "ACTIVE", "ARCHIVED"}
ProductRow == [life : Lives, category : Parents, status : ProductStatus]
VariantRow == [life : Lives, product : {0} \union ProductIds, stocked : BOOLEAN]

Off == [at |-> "off"]
EditorState ==
  {Off}
    \union [at : {"add category"}, parent : Parents]
    \union [at : {"move category"}, id : CategoryIds, copy : Parents, parent : Parents]
    \union [at : {"count products", "delete category"}, id : CategoryIds]
    \union [at : {"add product"}, category : Parents, status : ProductStatus, variants : 0..MaxVariants]
    \union [at : {"edit product"}, id : ProductIds, copy : ProductRow, category : Parents, status : ProductStatus]
    \union [at : {"delete product", "add variant", "heart", "unheart"}, id : ProductIds]
    \union [at : {"seed stock", "delete variant"}, id : VariantIds]

References == ({"category"} \X CategoryIds) \union ({"product"} \X ProductIds)

CatalogTypeOK ==
  /\ shelf \in [CategoryIds -> CategoryRow]
  /\ product \in [ProductIds -> ProductRow]
  /\ variant \in [VariantIds -> VariantRow]
  /\ hearts \subseteq ProductIds
  /\ editor \in [Editors -> EditorState]
  /\ editions \in 0..MaxEditions
  /\ blind \subseteq References

CatalogInit ==
  /\ shelf = [c \in CategoryIds |-> [life |-> "absent", parent |-> Nowhere]]
  /\ product = [p \in ProductIds |-> [life |-> "absent", category |-> Nowhere, status |-> "DRAFT"]]
  /\ variant = [v \in VariantIds |-> [life |-> "absent", product |-> 0, stocked |-> FALSE]]
  /\ hearts = {}
  /\ editor = [e \in Editors |-> Off]
  /\ editions = 0
  /\ blind = {}

LiveIn(table, id) == table[id].life = "live"

\* Rows take the next free id.
NextIds(table, ids, n) ==
  LET free == {i \in ids : table[i].life = "absent"} IN {i \in free : \A j \in free : i < j + n}

goods == <<product, variant, hearts>>

-----------------------------------------------------------------------------
(* What a handler reads and checks first.                                  *)

Opens(e, request) ==
  /\ editor[e] = Off
  /\ editions < MaxEditions
  /\ editor' = [editor EXCEPT ![e] = request]
  /\ editions' = editions + 1
  /\ UNCHANGED <<shelf, goods, blind>>

\* create finds the parent first, if one is named.
BeginCreateCategory(e, parent) ==
  /\ parent # Nowhere => LiveIn(shelf, parent)
  /\ Opens(e, [at |-> "add category", parent |-> parent])

\* update only refuses the category itself; longer circles and deleted parents pass.
BeginUpdateCategory(e, c, parent) ==
  /\ LiveIn(shelf, c) /\ parent # c
  /\ parent # Nowhere => shelf[parent].life # "absent"
  /\ Opens(e, [at |-> "move category", id |-> c, copy |-> shelf[c].parent, parent |-> parent])

Children(c) == {d \in CategoryIds : LiveIn(shelf, d) /\ shelf[d].parent = c}

BeginRemoveCategory(e, c) ==
  /\ LiveIn(shelf, c) /\ Children(c) = {}
  /\ Opens(e, [at |-> "count products", id |-> c])

\* create asks nothing about the category; the foreign key wants a row, deleted or not.
BeginCreateProduct(e, category, status, n) ==
  /\ category # Nowhere => shelf[category].life # "absent"
  /\ Opens(e, [at |-> "add product", category |-> category, status |-> status, variants |-> n])

BeginUpdateProduct(e, p, category, status) ==
  /\ LiveIn(product, p)
  /\ category # Nowhere => shelf[category].life # "absent"
  /\ Opens(e, [at |-> "edit product", id |-> p, copy |-> product[p], category |-> category, status |-> status])

BeginOnProduct(e, p, what) == LiveIn(product, p) /\ Opens(e, [at |-> what, id |-> p])

\* The wishlist takes products on sale that are not on it yet.
BeginAddHeart(e, p) == product[p].status = "ACTIVE" /\ p \notin hearts /\ BeginOnProduct(e, p, "heart")

BeginRemoveHeart(e, p) == p \in hearts /\ Opens(e, [at |-> "unheart", id |-> p])

BeginRemoveVariant(e, v) == LiveIn(variant, v) /\ Opens(e, [at |-> "delete variant", id |-> v])

-----------------------------------------------------------------------------
(* What it writes.                                                         *)

Ready(e, what) == editor[e].at = what
Shuts(e) == editor' = [editor EXCEPT ![e] = Off]

\* A reference that no check of a removal can have seen.
Unseen(c) ==
  /\ c # Nowhere
  /\ ~LiveIn(shelf, c) \/ \E e \in Editors : editor[e].at \in {"count products", "delete category"} /\ editor[e].id = c

Marked(reference, c) == IF Unseen(c) THEN blind \union {reference} ELSE blind \ {reference}

CreateCategory(e) ==
  /\ Ready(e, "add category")
  /\ \E c \in NextIds(shelf, CategoryIds, 1) :
       /\ shelf' = [shelf EXCEPT ![c] = [life |-> "live", parent |-> editor[e].parent]]
       /\ blind' = Marked(<<"category", c>>, editor[e].parent)
  /\ Shuts(e)
  /\ UNCHANGED <<goods, editions>>

\* The column is written if it differs from the copy.
UpdateCategory(e) ==
  LET c == editor[e].id
      changes == editor[e].parent # editor[e].copy
  IN
  /\ Ready(e, "move category")
  /\ shelf' = IF changes THEN [shelf EXCEPT ![c].parent = editor[e].parent] ELSE shelf
  /\ blind' = IF changes THEN Marked(<<"category", c>>, editor[e].parent) ELSE blind
  /\ Shuts(e)
  /\ UNCHANGED <<goods, editions>>

\* (Slip: a category may go while products are in it.)
ProductsIn_OnSale(c) == {p \in ProductIds : LiveIn(product, p) /\ product[p].category = c /\ product[p].status = "ACTIVE"}

ProductsIn(c) == {p \in ProductIds : LiveIn(product, p) /\ product[p].category = c}

\* remove: the second count, and a refusal if there is anything.
CountProducts(e) ==
  /\ Ready(e, "count products")
  /\ editor' = [editor EXCEPT ![e] = IF ProductsIn(@.id) = {} THEN [at |-> "delete category", id |-> @.id] ELSE Off]
  /\ UNCHANGED <<shelf, goods, editions, blind>>

RemoveCategory(e) ==
  /\ Ready(e, "delete category")
  /\ shelf' = [shelf EXCEPT ![editor[e].id].life = "deleted"]
  /\ Shuts(e)
  /\ UNCHANGED <<goods, editions, blind>>

\* One transaction: the product, its variants and a stock row for each of them.
CreateProduct(e) ==
  LET vs == NextIds(variant, VariantIds, editor[e].variants) IN
  /\ Ready(e, "add product")
  /\ Cardinality(vs) = editor[e].variants
  /\ \E p \in NextIds(product, ProductIds, 1) :
       /\ product' = [product EXCEPT ![p] =
            [life |-> "live", category |-> editor[e].category, status |-> editor[e].status]]
       /\ variant' = [v \in VariantIds |->
            IF v \in vs THEN [life |-> "live", product |-> p, stocked |-> TRUE] ELSE variant[v]]
       /\ blind' = Marked(<<"product", p>>, editor[e].category)
  /\ Shuts(e)
  /\ UNCHANGED <<shelf, hearts, editions>>

\* Columns that differ from the copy are written; the date of publication is left out.
UpdateProduct(e) ==
  LET request == editor[e]
      p == request.id
      moves == request.category # request.copy.category
  IN
  /\ Ready(e, "edit product")
  /\ product' = [product EXCEPT
       ![p].category = IF moves THEN request.category ELSE @,
       ![p].status = IF request.status # request.copy.status THEN request.status ELSE @]
  /\ blind' = IF moves THEN Marked(<<"product", p>>, request.category) ELSE blind
  /\ Shuts(e)
  /\ UNCHANGED <<shelf, variant, hearts, editions>>

RemoveProduct(e) ==
  /\ Ready(e, "delete product")
  /\ product' = [product EXCEPT ![editor[e].id].life = "deleted"]
  /\ Shuts(e)
  /\ UNCHANGED <<shelf, variant, hearts, editions, blind>>

\* addVariant: the variant commits on its own, and is seeded in a second transaction.
AddVariant(e) ==
  /\ Ready(e, "add variant")
  /\ \E v \in NextIds(variant, VariantIds, 1) :
       /\ variant' = [variant EXCEPT ![v] = [life |-> "live", product |-> editor[e].id, stocked |-> FALSE]]
       /\ editor' = [editor EXCEPT ![e] = [at |-> "seed stock", id |-> v]]
  /\ UNCHANGED <<shelf, product, hearts, editions, blind>>

SeedStock(e) ==
  /\ Ready(e, "seed stock")
  /\ variant' = [variant EXCEPT ![editor[e].id].stocked = TRUE]
  /\ Shuts(e)
  /\ UNCHANGED <<shelf, product, hearts, editions, blind>>

\* A failure is swallowed: the request succeeds all the same.
SeedingFails(e) ==
  /\ Ready(e, "seed stock")
  /\ Shuts(e)
  /\ UNCHANGED <<shelf, goods, editions, blind>>

RemoveVariant(e) ==
  /\ Ready(e, "delete variant")
  /\ variant' = [variant EXCEPT ![editor[e].id].life = "deleted"]
  /\ Shuts(e)
  /\ UNCHANGED <<shelf, product, hearts, editions, blind>>

\* (customer, product) is unique: of two requests that add it the second is refused.
AddHeart(e) ==
  /\ Ready(e, "heart")
  /\ hearts' = hearts \union {editor[e].id}
  /\ Shuts(e)
  /\ UNCHANGED <<shelf, product, variant, editions, blind>>

RemoveHeart(e) ==
  /\ Ready(e, "unheart")
  /\ hearts' = hearts \ {editor[e].id}
  /\ Shuts(e)
  /\ UNCHANGED <<shelf, product, variant, editions, blind>>

EditorDies(e) ==
  /\ editor[e] # Off
  /\ Shuts(e)
  /\ UNCHANGED <<shelf, goods, editions, blind>>

\* category.controller, product.controller and wishlist.controller: what is asked for.
CategoryRequest(e) ==
  \/ \E c \in Parents : BeginCreateCategory(e, c)
  \/ \E c \in CategoryIds :
       \/ BeginRemoveCategory(e, c)
       \/ \E parent \in Parents : BeginUpdateCategory(e, c, parent)

ProductRequest(e) ==
  \/ \E c \in Parents, status \in ProductStatus :
       \/ \E n \in 0..MaxVariants : BeginCreateProduct(e, c, status, n)
       \/ \E p \in ProductIds : BeginUpdateProduct(e, p, c, status)
  \/ \E p \in ProductIds :
       \E what \in {"delete product", "add variant"} : BeginOnProduct(e, p, what)
  \/ \E v \in VariantIds : BeginRemoveVariant(e, v)

WishlistRequest(e) == \E p \in ProductIds : BeginAddHeart(e, p) \/ BeginRemoveHeart(e, p)

CatalogWrite(e) ==
  \/ CreateCategory(e) \/ UpdateCategory(e) \/ CountProducts(e) \/ RemoveCategory(e)
  \/ CreateProduct(e) \/ UpdateProduct(e) \/ RemoveProduct(e)
  \/ AddVariant(e) \/ SeedStock(e) \/ SeedingFails(e) \/ RemoveVariant(e)
  \/ AddHeart(e) \/ RemoveHeart(e)

CatalogNext == 
  \E e \in Editors :
    CategoryRequest(e) \/ ProductRequest(e) \/ WishlistRequest(e) \/ CatalogWrite(e) \/ EditorDies(e)

CatalogSpec == CatalogInit /\ [][CatalogNext]_catalogVars

-----------------------------------------------------------------------------

\* A category is never deleted from under the products and categories in it.  Only what
\* is put there once it is deleted, or once its removal has begun to look, is left
\* pointing at a deleted category (taxonomy.service.js:54-66).
CategoriesInUseAreKept ==
  /\ \A c \in CategoryIds :
       LiveIn(shelf, c) /\ <<"category", c>> \notin blind => shelf[c].parent = Nowhere \/ LiveIn(shelf, shelf[c].parent)
  /\ \A p \in ProductIds :
       LiveIn(product, p) /\ <<"product", p>> \notin blind =>
         product[p].category = Nowhere \/ LiveIn(shelf, product[p].category)
=============================================================================
