----------------------------- MODULE Catalogue -----------------------------
(***************************************************************************)
(* The shelf: repositories/styles.py and routers/styles.py.  A shelf is    *)
(* the table of styles in the order we set by hand (sort_order, title); a  *)
(* style is [id, category, home, shot, active].                            *)
(***************************************************************************)
EXTENDS Integers, Sequences, FiniteSets, SequencesExt, FiniteSetsExt, Lists

CONSTANT Categories  \* the onboarding directions, in our order

First(rows, n) == SubSeq(rows, 1, Min({n, Len(rows)}))
Ids(rows) == {rows[i].id : i \in DOMAIN rows}

(* list_styles *)
Live(shelf) == {s \in ToSet(shelf) : s.active}
OnHome(shelf) == {s \in ToSet(shelf) : s.home}
InCategory(shelf, c) == {s \in ToSet(shelf) : s.category = c}
ListStyles(shelf, wanted, limit) == First(Kept(shelf, Live(shelf) \cap wanted), limit)

(* rank_for: a stable sort *)
RankFor(rows, liked) ==
  LET lifted == {s \in ToSet(rows) : s.category \in liked}
  IN  Kept(rows, lifted) \o Kept(rows, ToSet(rows) \ lifted)

(* get *)
Opens(shelf, id) == \E i \in DOMAIN shelf : shelf[i].id = id /\ shelf[i].active

(* GET /api/styles/home *)
MutantCutFirst(shelf, liked, limit) ==
  RankFor(ListStyles(shelf, OnHome(shelf), limit), liked)
HomeStyles(shelf, liked, limit) ==
  First(RankFor(ListStyles(shelf, OnHome(shelf), 3 * limit), liked), limit)

(* GET /api/styles: liked directions first, each cut at limit *)
WholeCatalogue(shelf, liked, limit) ==
  LET order == Kept(Categories, liked) \o Kept(Categories, STRING \ liked)
  IN  FlattenSeq([i \in DOMAIN order |->
                    ListStyles(shelf, InCategory(shelf, order[i]), limit)])

(* GET /api/shots/daily *)
Pool(shelf) ==
  LET shots == {s \in Live(shelf) : s.shot}
  IN  [n \in 1..Cardinality(shots) |->
         CHOOSE s \in shots : Cardinality({x \in shots : x.id < s.id}) = n - 1]
Rotation(shelf, day, count) ==
  LET pool == Pool(shelf)
      offset == (day * count) % Len(pool)
  IN  IF pool = <<>> THEN <<>>
      ELSE SubSeq(pool \o pool, offset + 1, offset + Min({count, Len(pool)}))
DailyShots(shelf, day, count, override) ==
  IF override = {} THEN Rotation(shelf, day, count)
  ELSE Kept(shelf, {s \in ToSet(shelf) : s.id \in override})
=============================================================================
