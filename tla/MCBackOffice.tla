------------------------------ MODULE MCBackOffice ------------------------------
(***************************************************************************)
(* The work of the panel and of the assistant that speaks for it: the      *)
(* refunds of an order, the landing page that is generated, a product with *)
(* its variants and images, the lots of an event, a promotion that ends    *)
(* with the stock, supplies, the modules of the store, its payment         *)
(* providers and its packages; what an assistant is allowed, does and      *)
(* sells.  None writes what another reads (a lot's variant is fixed while  *)
(* it is one), so a behaviour follows one of them, in focus, while the     *)
(* others rest where they start: every behaviour of each is there, their   *)
(* product is not.                                                         *)
(***************************************************************************)
EXTENDS Refunds, Sequences, TLC

CONSTANTS MaxDrafts, Askers, Quota, MaxInFlight, KeptDrafts, KeptPublished,     \* the landing page
          Slots, Combos, MaxImages, NoCombo, None, Skus, MaxShelf,              \* the catalogue
          MaxFlags, Providers, Secretive, Open, MaxSaves,                       \* modules, providers
          Boxes, Products, NoBox, MaxBoxes,                                     \* packages
          MaxBalance, MaxVersion, MaxApplied, MaxCodes, MaxLinks,               \* the assistant
          Items, Prices, Stocked, Off, Fee, Mode, References,                   \* what it sells
          MaxOrders, MaxChanges, MaxQuotes

\* Room for a product's default variant, rows in order, marks that are no row and no combination; units.
ASSUME BackOfficeAssumption ==
    /\ Slots \subseteq Nat /\ IsFiniteSet(Slots) /\ 1 \in Slots /\ None \notin Slots
    /\ Combos \in Seq({Combos[i] : i \in DOMAIN Combos})
    /\ \A i \in 1..Len(Combos) : Combos[i] # NoCombo
    /\ MaxShelf \in Nat /\ MaxDrafts \in Nat

VARIABLES focus,
          draft, used, asked, tasks, writer, site, slow,
          product, variant, options, images,
          event, published, lot, removing, ticket,
          promo, sku, announced, edited,
          supply, ledger, paid, desk,
          enabled, request, crossed,
          config, secret, flag, owner, saves, overtaken,
          box, packed, chooser, muddled,
          about, thing, version, plans, promise, applied, moved,
          codes, links, redeemer, twice,
          price, stock, access, cart, seller, heard, orders, changes, quotes

\* Three units in two lines, with a discount that does not divide, and shipping.
TheOrder == [total |-> <<3, 2>>, units |-> <<2, 1>>, discount |-> 1, shipping |-> 1]
TheSelections == {<<1, 0>>}
TheCombos == <<"a", "b">>

L == INSTANCE Landing WITH Clerks <- Askers, Limit <- Quota, Kept <- KeptDrafts, worker <- writer
C == INSTANCE Catalog WITH MaxStock <- MaxShelf
T == INSTANCE Lots WITH LotIds <- {1, 2}, Buyers <- {1, 2}, Quantities <- {1, 2},
                        Capacities <- {1, 2, 9}, Unlimited <- 9, order <- ticket
U == INSTANCE Supplies WITH Supplies <- {"flour", "salt"}, Clerks <- Workers,
                            Receipts <- {<<1, 2>>, <<2, 9>>, <<1, 0>>}, Changes <- {-2, 1},
                            Counts <- {1}, MaxMoves <- 3, Unpriced <- 99
S == INSTANCE Settings WITH Owners <- Workers
B == INSTANCE Packages WITH Packages <- Boxes, Requests <- Workers, NoPackage <- NoBox,
                            MaxPackages <- MaxBoxes,
                            package <- box, product <- packed, request <- chooser, crossed <- muddled
A == INSTANCE Assistant WITH Calls <- Workers, MaxStock <- MaxBalance, call <- promise,
                             crossed <- moved, doubled <- twice
V == INSTANCE AgentSales WITH Stock <- Stocked, OFF <- Off, FEE <- Fee, Calls <- Workers,
                              call <- seller
Alike == Permutations(Workers)

landingOnly == <<draft, used, asked, tasks, writer, site, slow>>
catalogOnly == <<product, variant, options, images>>
lotsOnly == <<event, published, lot, removing, ticket>>
promoOnly == <<promo, sku, announced, edited>>
suppliesOnly == <<supply, ledger, paid, desk>>
shelfVars == <<catalogOnly, lotsOnly, promoOnly, suppliesOnly>>
modulesOnly == <<enabled, request, crossed>>
setupOnly == <<config, secret, flag, owner, saves, overtaken>>
boxOnly == <<box, packed, chooser, muddled>>
settingVars == <<landingOnly, modulesOnly, setupOnly, boxOnly>>
assistantOnly == <<about, thing, version, plans, promise, applied, moved>>
linksOnly == <<codes, links, redeemer, twice>>
sellerOnly == <<price, stock, access, cart, seller, heard, orders, changes, quotes>>
agentVars == <<assistantOnly, linksOnly, sellerOnly>>
backOfficeVars == <<focus, refundVars, shelfVars, settingVars, agentVars>>

BackOfficeInit ==
    /\ focus \in {"refunds", "landing", "catalog", "lots", "promo", "supplies", "modules", "setup",
                  "box", "assistant", "links", "seller"}
    /\ focus # "box" => box = [p \in Boxes |-> B!Absent]
    /\ focus # "assistant" => about = "order"
    /\ RefundsInit
    /\ focus # "refunds" => payment.method = "provider"
    /\ T!LotsInit
    /\ focus # "lots" => event.capacity = 9
    /\ L!LandingInit /\ C!CatalogInit /\ C!SellOutInit /\ U!SuppliesInit
    /\ S!ModulesInit /\ S!SetupInit /\ B!PackagesInit
    /\ A!AssistantInit /\ A!LinksInit /\ V!AgentSalesInit

OnTheShelf ==
    /\ UNCHANGED <<refundVars, settingVars, agentVars>>
    /\ \/ focus = "catalog" /\ C!CatalogNext /\ UNCHANGED <<lotsOnly, promoOnly, suppliesOnly>>
       \/ focus = "lots" /\ T!LotsNext /\ UNCHANGED <<catalogOnly, promoOnly, suppliesOnly>>
       \/ focus = "promo" /\ C!SellOutNext /\ UNCHANGED <<catalogOnly, lotsOnly, suppliesOnly>>
       \/ focus = "supplies" /\ U!SuppliesNext /\ UNCHANGED <<catalogOnly, lotsOnly, promoOnly>>
InTheSettings ==
    /\ UNCHANGED <<refundVars, shelfVars, agentVars>>
    /\ \/ focus = "landing" /\ L!LandingNext /\ UNCHANGED <<modulesOnly, setupOnly, boxOnly>>
       \/ focus = "modules" /\ S!ModulesNext /\ UNCHANGED <<landingOnly, setupOnly, boxOnly>>
       \/ focus = "setup" /\ S!SetupNext /\ UNCHANGED <<landingOnly, modulesOnly, boxOnly>>
       \/ focus = "box" /\ B!PackagesNext /\ UNCHANGED <<landingOnly, modulesOnly, setupOnly>>
ByTheAssistant ==
    /\ UNCHANGED <<refundVars, shelfVars, settingVars>>
    /\ \/ focus = "assistant" /\ A!AssistantNext /\ UNCHANGED <<linksOnly, sellerOnly>>
       \/ focus = "links" /\ A!LinksNext /\ UNCHANGED <<assistantOnly, sellerOnly>>
       \/ focus = "seller" /\ V!AgentSalesNext /\ UNCHANGED <<assistantOnly, linksOnly>>
BackOfficeNext ==
    /\ UNCHANGED focus
    /\ \/ focus = "refunds" /\ RefundsNext /\ UNCHANGED <<shelfVars, settingVars, agentVars>>
       \/ OnTheShelf \/ InTheSettings \/ ByTheAssistant

BackOfficeSpec == BackOfficeInit /\ [][BackOfficeNext]_backOfficeVars

-----------------------------------------------------------------------------
\* A proposal is charged if it was shown, and the one applied is on air (landing/quota, drafts).
ProposalsAreFair == focus = "landing" => L!QuotaIsFair /\ L!LiveIsOnAir
\* A published product has something to sell, and its variants are the matrix (catalog/service).
CatalogIsSellable == focus = "catalog" => C!PublishedIsSellable /\ C!MatrixIsExact
\* The tickets of the lots add up within the event's capacity (catalog/events), and so do the
\* movements of the supplies, whose average cost is one that was paid (production).
BooksAddUp == /\ focus = "lots" => T!LotsAddUp
              /\ focus = "supplies" => U!LedgerAddsUp /\ U!AverageIsPaid
\* A promotion that ends with the stock has ended once it is gone (catalog/promotions).
SellOutEndsPromotion == focus = "promo" => C!SellOutEndsPromotion
\* No module is on without those it needs, no payment provider offered without what it needs, no
\* package the default that is archived (tenancy/modules, payments/registry, shipping/packages).
SettingsFit == /\ focus = "modules" => S!ModulesFit
               /\ focus = "setup" => S!OfferedIsComplete
               /\ focus = "box" => B!DefaultIsActive
\* The assistant does what the owner read, once, with a credential a code gave once, and sells at the
\* price that was heard (agent/plans, links, internal_agent_sales).
AssistantKeepsItsWord == /\ focus = "assistant" => A!DoneAsRead /\ A!OrderMovedOnce
                         /\ focus = "links" => A!CodeOpensOnce
                         /\ focus = "seller" => V!AgentOrderIsAsHeard
=============================================================================
