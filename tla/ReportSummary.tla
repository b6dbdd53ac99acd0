--------------------------- MODULE ReportSummary ---------------------------
(***************************************************************************)
(* The image summary of opreport (pp/opreport.cpp, the path taken without *)
(* --symbols).  The input is one profile_class per count group (event or  *)
(* class of the merge), each a list of profile_set: an application image, *)
(* the sample files of the image itself, and its dependent images with    *)
(* their files.  A file is abstracted by the number profile_t::sample_count *)
(* returns for it.  summary_container walks the classes and merges the     *)
(* sets of one application across groups into an app_summary whose deps  *)
(* hold one summary per image (the application's own included); the      *)
(* applications are then sorted, and output_summaries prints those above  *)
(* the threshold with their dependent images.                             *)
(*                                                                         *)
(* The loops are steps of one sequential process: one step per profile_set *)
(* of summary_container (pc = "collect"), the copy of the map and the     *)
(* sorts, then one step per application printed (pc = "output").  Column  *)
(* headers, widths and the percentages (op_ratio) are left out; an output  *)
(* line is the pair of names it prints.                                    *)
(***************************************************************************)
EXTENDS Naturals, Sequences, FiniteSets, SequencesExt

CONSTANTS
    NrGroups,       \* classes.v.size(): the number of count groups
    Images,         \* application images
    Libs,           \* dependent images (libraries, kernel modules)
    ImageOrder,     \* Images in the order of their names (std::map order)
    SampleCounts,   \* what profile_t::sample_count returns for one file
    Threshold,      \* options::threshold, a percentage
    ReverseSort     \* options::reverse_sort

ASSUME /\ NrGroups \in Nat \ {0}
       /\ Images \cap Libs = {}
       /\ ImageOrder \in Seq(Images) /\ Range(ImageOrder) = Images
       /\ Len(ImageOrder) = Cardinality(Images)
       /\ SampleCounts \subseteq Nat
       /\ ReverseSort \in BOOLEAN

Groups == 0..(NrGroups - 1)

\* The files of one image: at most one file per image in the model
FileLists == {<< >>} \cup {<<c>> : c \in SampleCounts}

\* profile_dep_set: a dependent image with at least one file
DepSets == [lib_image : Libs, files : FileLists \ {<< >>}]

\* profile_set: an application, its own files and at most one dependent
ProfileSets == [image : Images, files : FileLists,
                deps : {<< >>} \cup {<<d>> : d \in DepSets}]

\* profile_class.profiles: at most two sets, of different applications
ProfileLists == {<< >>} \cup {<<p>> : p \in ProfileSets}
                \cup {s \in {<<p, q>> : p, q \in ProfileSets} : s[1].image # s[2].image}

ZeroCounts == [g \in Groups |-> 0]

SumSeq(s) == FoldLeft(LAMBDA acc, c : acc + c, 0, s)

VARIABLES
    classes,   \* classes.v: the input, [1..NrGroups -> ProfileLists]
    pc,        \* "collect", "output" or "done"
    ci, pi,    \* loop indices of summary_container (1-based)
    appMap,    \* app_map: image -> app_summary
    total,     \* summary_container::total_counts
    apps,      \* summary_container::apps, after the copy and the sort
    oi,        \* loop index of output_summaries (1-based)
    out        \* the lines printed: an application, or one of its images

vars == <<classes, pc, ci, pi, appMap, total, apps, oi, out>>

-----------------------------------------------------------------------------
(* summary, app_summary and their methods                                  *)

\* Lines 51-65: returns the summary and the subtotal of the files
add_files(summ, files, count_group) ==
    LET subtotal == SumSeq(files) IN
    <<[summ EXCEPT !.counts[count_group] = @ + subtotal], subtotal>>

\* Mutant: a new summary is pushed without its name
FindSummaryNoName(deps, image) ==
    LET j == SelectInSeq(deps, LAMBDA s : s.lib_image = image) IN
    IF j # 0 THEN <<deps, j>>
    ELSE <<Append(deps, [counts |-> ZeroCounts, lib_image |-> ""]), Len(deps) + 1>>

\* Mutant: every image gets a new summary, the existing ones are not searched
FindSummaryAlwaysNew(deps, image) ==
    <<Append(deps, [counts |-> ZeroCounts, lib_image |-> image]), Len(deps) + 1>>

\* Lines 95-108: the index of the summary of image in deps, appended when
\* there is none; returns the new deps and the index.
find_summary(deps, image) ==
    LET j == SelectInSeq(deps, LAMBDA s : s.lib_image = image) IN
    IF j # 0 THEN <<deps, j>>
    ELSE <<Append(deps, [counts |-> ZeroCounts, lib_image |-> image]), Len(deps) + 1>>

\* Lines 117-120 and 127-130: the files of one image are added to its
\* summary and to the application's counts; returns <<app, count>>.
AddSummary(app, image, files, count_group) ==
    LET f == find_summary(app.deps, image)
        r == add_files(f[1][f[2]], files, count_group)
    IN  <<[app EXCEPT !.deps = [f[1] EXCEPT ![f[2]] = r[1]],
                      !.counts[count_group] = @ + r[2]], r[2]>>

\* Mutant: an application with no files of its own gets no summary of
\* its own image
AddProfileSkipEmptyMain(app, profile, count_group) ==
    FoldLeft(LAMBDA acc, d : LET r == AddSummary(acc[1], d.lib_image, d.files, count_group)
                             IN  <<r[1], acc[2] + r[2]>>,
             IF profile.files = << >> THEN <<app, 0>>
             ELSE AddSummary(app, profile.image, profile.files, count_group),
             profile.deps)

\* Lines 111-134: the main image first, then every dependent image;
\* returns <<app, group_total>>.
add_profile(app, profile, count_group) ==
    FoldLeft(LAMBDA acc, d : LET r == AddSummary(acc[1], d.lib_image, d.files, count_group)
                             IN  <<r[1], acc[2] + r[2]>>,
             AddSummary(app, profile.image, profile.files, count_group),
             profile.deps)

\* Lines 41-44 and 84-87: operator< of summary and app_summary
less(a, b) == IF ReverseSort THEN a.counts[0] < b.counts[0] ELSE b.counts[0] < a.counts[0]

\* std::stable_sort with less, as an insertion sort: each element goes
\* before the first one already placed that it is less than.
InsertStable(t, x) ==
    LET after == {j \in 1..Len(t) : less(x, t[j])} IN
    IF after = {} THEN Append(t, x) ELSE InsertAt(t, Min(after), x)

StableSort(s) == FoldLeft(InsertStable, << >>, s)

\* Lines 310-311: (app.counts[0] * 100.0) / total_counts[0] < threshold.
\* With no samples in group 0 the quotient is 0.0 / 0 = NaN, and a
\* comparison with NaN is false.
BelowThreshold(count0, total0) ==
    total0 # 0 /\ count0 * 100 < Threshold * total0

\* Lines 267-297: the images of an application, unless deps holds only one
output_deps(app) ==
    IF Len(app.deps) = 1 THEN << >>
    ELSE LET shown == SelectSeq(app.deps, LAMBDA s : s.counts # ZeroCounts)
         IN  [j \in 1..Len(shown) |-> [kind |-> "dep", app |-> app.image,
                                       image |-> shown[j].lib_image]]

AppLine(app) == [kind |-> "app", app |-> app.image, image |-> app.image]

-----------------------------------------------------------------------------
(* opreport without --symbols (lines 448-459)                              *)

Init ==
    /\ classes \in [1..NrGroups -> ProfileLists]
    /\ pc = "collect"
    /\ ci = 1 /\ pi = 1
    /\ appMap = << >>
    /\ total = ZeroCounts
    /\ apps = << >>
    /\ oi = 1
    /\ out = << >>

\* Mutant: the new application is stored in the map before it is filled
AddProfileStoreFirst ==
    LET p == classes[ci][pi]
        g == ci - 1
        new == [image |-> p.image, counts |-> ZeroCounts, deps |-> << >>]
    IN  /\ pc = "collect" /\ ci <= NrGroups /\ pi <= Len(classes[ci])
        /\ IF p.image \in DOMAIN appMap
             THEN LET r == add_profile(appMap[p.image], p, g) IN
                  /\ appMap' = [appMap EXCEPT ![p.image] = r[1]]
                  /\ total' = [total EXCEPT ![g] = @ + r[2]]
             ELSE LET r == add_profile(new, p, g) IN
                  /\ appMap' = (p.image :> new) @@ appMap
                  /\ total' = [total EXCEPT ![g] = @ + r[2]]
        /\ pi' = pi + 1
        /\ UNCHANGED <<classes, pc, ci, apps, oi, out>>

\* Lines 160-171: one profile_set of class ci
AddProfile ==
    LET p == classes[ci][pi]
        g == ci - 1
        new == [image |-> p.image, counts |-> ZeroCounts, deps |-> << >>]
    IN  /\ pc = "collect" /\ ci <= NrGroups /\ pi <= Len(classes[ci])
        /\ LET r == add_profile(IF p.image \in DOMAIN appMap THEN appMap[p.image] ELSE new, p, g)
           IN  /\ appMap' = (p.image :> r[1]) @@ appMap
               /\ total' = [total EXCEPT ![g] = @ + r[2]]
        /\ pi' = pi + 1
        /\ UNCHANGED <<classes, pc, ci, apps, oi, out>>

\* Lines 154-158: the end of the profiles of class ci
EndClass ==
    /\ pc = "collect" /\ ci <= NrGroups /\ pi > Len(classes[ci])
    /\ ci' = ci + 1 /\ pi' = 1
    /\ UNCHANGED <<classes, pc, appMap, total, apps, oi, out>>

\* Lines 174-187: the map is copied in key order, then the applications
\* and the images of each are sorted by their count in group 0.
Collect ==
    LET inMap == SelectSeq(ImageOrder, LAMBDA i : i \in DOMAIN appMap)
        byName == [j \in 1..Len(inMap) |-> appMap[inMap[j]]]
        sorted == StableSort(byName)
    IN  /\ pc = "collect" /\ ci > NrGroups
        /\ apps' = [j \in 1..Len(sorted) |-> [sorted[j] EXCEPT !.deps = StableSort(@)]]
        /\ pc' = "output"
        /\ UNCHANGED <<classes, ci, pi, appMap, total, oi, out>>

\* Lines 307-323: one application, skipped below the threshold
OutputApp ==
    LET app == apps[oi] IN
    /\ pc = "output" /\ oi <= Len(apps)
    /\ out' = IF BelowThreshold(app.counts[0], total[0]) THEN out
              ELSE out \o <<AppLine(app)>> \o output_deps(app)
    /\ oi' = oi + 1
    /\ UNCHANGED <<classes, pc, ci, pi, appMap, total, apps>>

\* Lines 307 and 458-459: the loop ends and opreport returns
Finish ==
    /\ pc = "output" /\ oi > Len(apps)
    /\ pc' = "done"
    /\ UNCHANGED <<classes, ci, pi, appMap, total, apps, oi, out>>

Next == AddProfile \/ EndClass \/ Collect \/ OutputApp \/ Finish

Spec == Init /\ [][Next]_vars

-----------------------------------------------------------------------------
(* Properties                                                              *)

Summary == [counts : [Groups -> Nat], lib_image : Images \cup Libs]
AppSummary == [image : Images, counts : [Groups -> Nat], deps : Seq(Summary)]

TypeOK ==
    /\ pc \in {"collect", "output", "done"}
    /\ DOMAIN appMap \subseteq Images
    /\ \A i \in DOMAIN appMap : appMap[i] \in AppSummary /\ appMap[i].image = i
    /\ total \in [Groups -> Nat]
    /\ apps \in Seq(AppSummary)

\* The application summaries of the current step: the map while
\* summary_container fills it, the sorted vector afterwards.
AppsNow == IF pc = "collect" THEN {appMap[i] : i \in DOMAIN appMap} ELSE Range(apps)

SumDeps(deps, g) == FoldLeft(LAMBDA acc, s : acc + s.counts[g], 0, deps)

\* After every profile_set merged by summary_container, the total of each
\* group is the sum of the applications' counts, and an application's
\* count is the sum of its images' counts (add_profile, add_files and the
\* two branches of the map lookup must all add the same amounts).
SummaryTotalsConsistent ==
    \A g \in Groups :
        /\ total[g] = MapThenSumSet(LAMBDA a : a.counts[g], AppsNow)
        /\ \A a \in AppsNow : a.counts[g] = SumDeps(a.deps, g)

\* The samples of the files of image lib under application img in group g,
\* whatever profile_sets of the class they come from.
FileSamples(g, img, lib) ==
    LET ps == classes[g + 1]
        own(p) == IF lib = img THEN SumSeq(p.files) ELSE 0
        dep(p) == FoldLeft(LAMBDA acc, d : acc + IF d.lib_image = lib THEN SumSeq(d.files) ELSE 0,
                           0, p.deps)
    IN  FoldLeft(LAMBDA acc, p : acc + IF p.image = img THEN own(p) + dep(p) ELSE 0, 0, ps)

AllProfiles == UNION {Range(classes[c]) : c \in 1..NrGroups}

\* Once the summaries are built, there is one application per image of
\* the input, one summary per image of each application, and each
\* summary counts, in every group, exactly the samples of that image's
\* files for that application, merged across profile_sets and groups.
SummaryMatchesFiles ==
    pc # "collect" =>
        /\ {a.image : a \in Range(apps)} = {p.image : p \in AllProfiles}
        /\ Len(apps) = Cardinality({p.image : p \in AllProfiles})
        /\ \A a \in Range(apps) :
              /\ \A j, k \in DOMAIN a.deps : j # k => a.deps[j].lib_image # a.deps[k].lib_image
              /\ \A p \in AllProfiles : p.image = a.image =>
                    \A d \in Range(p.deps) : \E s \in Range(a.deps) : s.lib_image = d.lib_image
              /\ \A s \in Range(a.deps), g \in Groups :
                    s.counts[g] = FileSamples(g, a.image, s.lib_image)

\* The comment of lines 271-273: the application's own summary is always
\* in deps, so output_deps may skip an application with one summary.
\* When opreport is done, every dependent image with samples is printed
\* under its application, whenever the application itself is printed.
DepsListed ==
    pc = "done" =>
        \A a \in Range(apps) :
            AppLine(a) \in Range(out) =>
                \A s \in Range(a.deps) :
                    (s.lib_image # a.image /\ s.counts # ZeroCounts) =>
                        [kind |-> "dep", app |-> a.image, image |-> s.lib_image] \in Range(out)

====
