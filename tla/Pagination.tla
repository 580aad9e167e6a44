------------------------------ MODULE Pagination ------------------------------
(***************************************************************************)
(* Pages by position, as GET /alerts and GET /devices cut them:            *)
(* core/utils/pagination/pagination.go and the checks of its callers.      *)
(***************************************************************************)
LOCAL INSTANCE Naturals

CONSTANT MaxPageSize  \* pagination.MaxPageSize

ASSUME PageAssumption == MaxPageSize \in Nat \ {0}

\* Variant: there is no largest page.
ValidPositive(page, size) == page >= 1 /\ size >= 1

\* What normalizePagination and ListDevices let through; the rest is refused.
ValidPage(page, size) == page >= 1 /\ size \in 1 .. MaxPageSize

\* Variant: pages are counted from 0.
OffsetFromZero(page, size) == page * size

\* Variant: the offset is in pages.
OffsetInPages(page, size) == page - 1

Offset(page, size) == (page - 1) * size

\* Position p, from 1, is on the page: LIMIT size OFFSET offset.
OnPage(p, page, size) == p \in Offset(page, size) + 1 .. Offset(page, size) + size

\* total_pages and has_next of Meta.
TotalPages(total, size) == (total + size - 1) \div size

\* Variant: the last page, when it is not full, is not announced.
HasNextFull(page, total, size) == page < total \div size

HasNext(page, total, size) == page < TotalPages(total, size)
=============================================================================
