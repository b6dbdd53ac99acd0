# TLA+ models of the OProfile sample recording path

These modules model the part of OProfile that records samples: the on-disk
hash table that holds one sample file's counters (libdb), the daemon's table
of open sample files with its descriptor budget (daemon/opd_mangling.c and
the sfile list it calls into), and the naming of sample files ("mangling").
They also model the configuration dialog `oprof_start`, which chooses the
events and switches the daemon is started with, and two parts of the
post-profile tools: the reading of one image's per-counter sample files
(`pp/profile.cpp`), run against the daemon rewriting their headers, the
image summaries of `opreport`, and the annotated source files `opannotate`
writes with `--output-dir`.

Line numbers below refer to the files under `src/`.

## 1. Inventory

### Components

| Component | Source | State | Operations |
|---|---|---|---|
| Store engine (libdb hash table) | `src/libdb/db_insert.c` (db_travel, db_hash_add_node and do_hash are not in `src/`) | node array `node_base[]` of {key, value, next}; bucket heads `hash_base[]`; `descr->size`, `descr->current_size` | `db_insert` (walk, saturating update, allocate, publish, link); growth and rehash in `db_hash_add_node`; `db_travel` read by the post-profile tools |
| Open sample-file table | `src/daemon/opd_mangling.c` `opd_open_sample_file` (lines 109-175); sfile list functions of `opd_sfile.c` are not in `src/` | `sf->files[counter]` mapped or not; LRU list of unpinned sfiles; process descriptor budget; file headers on disk | sample arrives → find sfile → open file on first use; EMFILE → `sfile_lru_clear` and retry; other error → drop sample; header written after each open |
| Mangler | `src/daemon/opd_mangling.c` `get_dep_name`, `find_event`, `mangle_filename` (lines 34-106) | none (pure); reads the four `separate_*` switches | context + counter → `mangle_values` → path (`op_mangle_filename`, not in `src/`) |
| Header check (read side) | `src/pp/profile.cpp` | per-counter sample files of one image, the first header | `profile_t` constructor (open per counter mask, `check_headers`), `check_mtime`, `set_start_offset`, `accumulate_samples` |
| Report summaries | `src/pp/opreport.cpp` | `summary`, `app_summary`, `summary_container` counts per group | `add_files`, `add_profile`, `summary_container`, `output_summaries` (threshold), `populate_*` |
| Annotation | `src/pp/opannotate.cpp` | options `source_dir`, `output_dir`; the list of source files; the files on disk; for `--assembly`, the selected symbols, `do_output`, `last_symbol` and objdump's output | `annotate_source`, the loop of `output_source`, `output_one_file`; `output_asm`, `output_objdump_asm`, `do_one_output_objdump`, `output_objdump_asm_line`; `populate_samples` |
| Configuration GUI | `src/gui/oprof_start.cpp` | `current_ctr`, `current_event[]`, `ctr_enabled[]`, `event_cfgs[ctr][event]`, widget contents | `counter_selected`, `event_selected`, `enabled_toggled`, `record_selected_event_config`, `display_event`, `setup_unit_masks`/`get_unit_mask`, `on_start_profiler`, `save_config`, `accept` |
| Declarations | `src/libop/op_cpu_type.h`, `src/libpp/format_flags.h`, `src/libutil/op_file.h` | enums and prototypes | none |

### How they interact

For each sample the daemon finds the sfile of the sample's context, and, if
the counter's file is not open, `opd_open_sample_file` names it with
`mangle_filename`, pins the sfile (`sfile_get`), calls `odb_open`, writes the
header, and unpins it (`sfile_put`). The sample is then added with
`db_insert`. When `odb_open` fails with EMFILE, the daemon calls
`sfile_lru_clear`, which closes the files of unpinned sfiles, and jumps back
to `retry`. `opreport` and `opannotate` run as separate processes. They map
the same files and walk the node arrays with `db_travel` while the daemon may
still be inserting. No lock is shared between them: the comment at
`db_insert.c:39-42` relies on the order of the stores to a new node. The GUI
writes the configuration and runs `opcontrol`, which starts the daemon with
the `--separate` switches that the mangler reads.

### What is hard

* **Lock-free publication.** The daemon publishes a new node with two plain
  stores (`db_insert.c:46-47`), and a reader in another process may look at
  the node between them. The scheme is only correct if the stores become
  visible in program order. The C code has no barrier and no `volatile`.
  OProfile supports Alpha and IA-64 (`op_cpu_type.h`), which can reorder
  stores, and the compiler may reorder them too.
* **Growth inside an insert.** `db_hash_add_node` may double the table and
  rehash every chain in the middle of `db_insert`. The bucket must then be
  recomputed (`db_insert.c:49-50`).
* **Saturation.** The overflow test is `value + delta >= value`, computed
  in `db_value_t` arithmetic (`db_insert.c:27`).
* **Descriptor exhaustion.** The EMFILE retry (`opd_mangling.c:131-142`)
  evicts and retries with no bound on the number of retries. Pinning
  (`sfile_get`/`sfile_put`) and the error path through `out:` decide which
  descriptors can be reclaimed.
* **Headers of reopened files.** A file that was evicted keeps its samples
  on disk. When it is opened again, its header is cleared and rewritten
  (`opd_mangling.c:149-168`).
* **Headers read while written.** A tool reads the headers in place in
  the mapped files, while the daemon may clear a header and store its
  fields one by one (`opd_mangling.c:156-167`). The constructor takes
  `nr_counters` from the first header once (`profile.cpp:66`), and the
  checks that could warn read it again later.
* **Mangling.** Which context fields enter the path depends on four
  switches and on whether the image is the kernel (`opd_mangling.c:40`).
* **Annotated copies.** `opannotate --output-dir` derives each output name
  from the source name by string operations (`opannotate.cpp:528-540`), and
  writes the files one after the other. An output file may be another input,
  which is read later.

### Properties that make each component correct

* Store engine:
  * the table implements a saturating map from key to count (refinement);
  * chains stay well formed across growths;
  * what `db_travel` reports agrees with what `db_insert` finds;
  * a concurrent reader never reports a half-published node.
* Open-file table:
  * every descriptor not pinned can be reclaimed on EMFILE;
  * an abort happens only when nothing else can be freed;
  * the retry loop ends;
  * (design) at most one retry;
  * (design) stale samples are flagged by the mtime check.
* Mangler: two samples with the same StoreKey, as the design defines it,
  share a file. The converse does not hold: with `--separate=library`
  alone, `get_dep_name` (line 40) leaves the application out of a kernel
  sample's path, while section 4.2 of the design includes it. No run checks
  the converse (see the hazard at `opd_mangling.c:40`).
* Header check: no opened counter file is left out of the sums without a
  warning, and a file of another build of the binary always warns.
* Report: group totals equal the sum of the application totals, and each
  application total equals the sum of its images. Every image gets exactly
  the samples of its files. A printed application lists its dependent
  images that have samples.
* Annotation: no source file of the profile is replaced by an annotation,
  and only files under the source directory are annotated into files. In
  the assembly listing, each objdump line is classified by the form the
  comments of `output_objdump_asm_line` give it, and each selected symbol
  and instruction is listed once with its samples, whichever way objdump
  is run.
* GUI:
  * what is recorded for a counter and event is what the widgets showed for
    that counter and event;
  * the unit mask round-trips through the check boxes;
  * `save_config` passes every switch that is checked. It does not: with
    both separation boxes checked only `--separate=library` is passed
    (lines 887-892). `separate_arg` keeps this, but no run checks it,
    because the defect follows from the two flags alone;
  * what `opcontrol --setup` receives passes the checks of
    `on_start_profiler`. It does not: OK (`accept`, line 364) calls
    `save_config` without them. No run checks this any more (see the
    hazard at `oprof_start.cpp:364`);
  * widget updates are re-enabled after every callback. `display_event(0)`
    breaks this (line 469), which only delays repainting, so no run checks it.

## 2. Modules and plan

Order: the store engine first (every sample goes through it and it is the
only concurrent part), then the open-file table, then the mangler. Later
sittings add the read side and the GUI.

| # | Module | Models | Status |
|---|---|---|---|
| 1 | `DbCounts` | abstract store: saturating map key → count | done |
| 2 | `DbHash` | `db_insert`, growth, `db_travel` reader; refines `DbCounts` via `INSTANCE DbCounts WITH counts <- LookupView` | done |
| 3 | `SampleFiles` | `opd_open_sample_file`, EMFILE retry, LRU pinning, header write, binary rebuilds | done |
| 4 | `Mangling` | `get_dep_name`, `mangle_filename`, path layout, the StoreKey of the design | done |
| 5 | `ProfileHeaders` | `profile_t` constructor (counter mask, `can_fail`, first file), `check_headers`, `check_mtime`, `set_start_offset`, `accumulate_samples` over `nr_counters`, composed with the daemon's header write of `opd_open_sample_file` | done |
| 6 | `ReportSummary` | `summary_container` (`add_profile`, `find_summary`, `add_files`, the stable sorts), `output_summaries` with its threshold and `output_deps` | done |
| 7 | `OprofStart` | the dialog as one record; every callback an action composed of the methods it calls (`counter_selected`, `event_selected`, `enabled_toggled`, `display_event`, `setup_unit_masks`/`get_unit_mask`, `record_selected_event_config`); `on_start_profiler` checks and restart; `save_config` arguments; `accept` | done |
| 8 | `Annotate` | `annotate_source`, `output_source`, `output_one_file` over a file system of paths | done |
| 9 | `AnnotateAsm` | `output_asm`, `output_objdump_asm`, `do_one_output_objdump`, `output_objdump_asm_line`, `is_symbol_line`, over every listing objdump can print | done |
| 10 | `Recording` | composes `Mangling` and `SampleFiles` (paths as the file identity) and `DbHash` per file | planned |

The MC modules (`MCDbHash`, `MCSampleFiles`, `MCMangling`, `MCOprofStart`,
`MCProfileHeaders`, `MCReportSummary`, `MCAnnotate`, `MCAnnotateAsm`) give the
constants their values. Each `.cfg` names the module's `Spec` and the
properties it checks.

## 3. Runs

| Run | Cfg | Expect | What it shows |
|---|---|---|---|
| `dbhash` | `MCDbHash.cfg` | pass | with program-order stores, the table refines `DbCounts` across two growths and saturation. Chains stay well formed, travel agrees with lookup, and a concurrent reader only sees published nodes |
| `dbhash_reordered_stores` | `MCDbHash_reorder.cfg` | violation | if the build makes the key store visible before the value store, a reader reports a node with count 0 |
| `samplefiles` | `MCSampleFiles.cfg` | pass | descriptors stay reclaimable, the daemon aborts only when the sfile being opened holds the whole budget, and the retry loop ends |
| `samplefiles_retry_once` | `MCSampleFiles_retry.cfg` | violation | the design says one retry then abort; with single-entry eviction the code retries again |
| `samplefiles_stale_header` | `MCSampleFiles_stale.cfg` | violation | a file evicted, its binary rebuilt, then reopened gets the new mtime in its header, so `check_mtime` no longer warns about the old samples it holds |
| `mangling` | `MCMangling.cfg` | pass | for all 16 switch settings, two samples with the same StoreKey of the design share a file |
| `oprofstart` | `MCOprofStart.cfg` | pass | switching counters and events never changes a recorded setting, so the unit mask survives the trip through the check boxes; `--setup` gets, for the counter being edited, what its widgets show |
| `annotate_output_dir` | `MCAnnotate.cfg` | violation | with `--output-dir` and no `--source-dir` (or an output directory above the source directory), the annotation of one source file replaces another source file of the profile; `output_one_file` only checks a file against its own annotation (code bug, lines 540-549) |
| `annotate_asm` | `MCAnnotateAsm.cfg` | pass | every objdump line is handled by its form: a symbol line switches the output to whether its symbol is selected, an instruction line gets the samples at its address, anything else is copied while the output is on (`ListingFollowsGrammar`). With one objdump run per symbol or one over the whole image, no symbol or instruction is listed twice, none of an unselected symbol is listed, and without an objdump failure every selected one is (`InstructionsOnce`) |
| `profileheaders` | `MCProfileHeaders.cfg` | pass | with the daemon stopped, the tool adds every counter file it opened, and relocates it for a kernel image, or warns that the headers differ, and every file written for another build of the binary is warned about |
| `profileheaders_live` | `MCProfileHeaders_live.cfg` | violation | while the daemon clears and rewrites the first file's header, the constructor can read `cpu_type` 0 (`CPU_PPRO`, two counters), and counters 2 and 3 are dropped without a warning, because the later checks see the complete header. A cleared `is_kernel` likewise leaves a kernel image's files without their start offset |
| `reportsummary` | `MCReportSummary.cfg` | pass | after `summary_container` has merged two count groups, each group total is the sum of the applications, which is the sum of their images. Every application and library has the samples of its files, once. A printed application lists every dependent image with samples |

### Bounds

* `MCDbHash`:
  * keys {0,1,5,9}: 0 is the sentinel value, and 1, 5 and 9 share a
    bucket of four (1 and 9 also share a bucket of eight), so the walk
    goes past the head of a chain and growth rehashes chains of several
    nodes;
  * deltas {1,2} with a 2-bit counter, so saturation needs two inserts and
    overflow happens with both deltas;
  * `InitSize = 2`, `MaxSize = 8`: four distinct keys force growth at the
    second and the fourth new key, so both growths and the rehash happen;
  * one reader: readers do not interact with each other.
* `MCSampleFiles`:
  * three contexts, one with an unresolvable image;
  * two counters;
  * one descriptor, so every second open hits EMFILE;
  * one rebuild per binary;
  * the context being opened can hold the whole budget by itself, so the
    abort path is reached, and an LRU entry with no open file can be
    evicted first, so repeated retries are reached.
* `MCMangling`: every field of `struct sfile` takes two values (cookie also
  takes `NO_COOKIE`), and one cookie cannot be resolved. Thread ids, cpus
  and counters are model values that the properties only compare, so the
  run declares renaming each of them a symmetry (`MCSymmetry`); this cuts
  the run from about four minutes to under half a minute.
* `MCOprofStart`:
  * two counters;
  * two events: `evBits` has a bitmask unit `<<1, 3>>`, where 3 is the
    all-bits value, and runs on both counters; `evExcl` has an exclusive
    unit `<<1, 2>>` and runs on counter 1 only. So the two counters offer
    different lists, and one event has a setting on each counter. Both unit
    types and the last-box rule of `setup_unit_masks` are reached, and the
    check boxes of one event stay hidden, still checked, under the other;
  * counts 0..2 with minimum and maximum 1, so both range checks fail for
    some count;
  * at most two user changes to widgets (`MaxEdits`). Navigation between
    counters and events, the Start, Stop and OK buttons, and the results
    of the `opcontrol` runs are not bounded. Two changes are enough to edit
    one counter, switch, and edit the other;
  * `PageFields` names the configuration page boxes the user may change:
    the buffer size check in the pass run. Every daemonrc event assignment is an initial
    state, and so is either state of the "enabled" box.
  The event with no unit and the mandatory unit type are left out: they
  only return a constant from `get_unit_mask`, and adding them makes the
  run exceed five minutes.

* `MCProfileHeaders`:
  * four counters, and two cpu types: `cpuPPro` stands for `CPU_PPRO`, the
    value 0, with two counters, and `cpuAthlon` has four. A cleared
    `cpu_type` so reads as a cpu with fewer counters than the daemon's;
  * every file that exists initially is a complete header from an earlier
    session. It was written by a cpu that has its counter, for build 1 or 2
    of the binary, and 2 is the current build. Every counter mask, and a
    kernel or a user image, is an initial state;
  * one header write by the daemon (`MaxRewrites = 1`). In the pass run it
    happens before the tool starts, and in the live run at any time. One
    write is enough to tear the first file's header.
* `MCAnnotate`: paths of up to three components over `s`, `o` and `a`.
  Either option may be `/`, `/s`, `/o` or empty, and `/o` is the current
  directory. The source files are `/s/a`, `/a` and `/o/s/a`, each present or
  not, and the profile names up to two of them, or the empty name, in any
  order, each matched by the filter or not. So the output directory can be
  above, below, beside or equal to the source directory, and `/o/s/a`
  contains `/s` in the middle.
* `MCAnnotateAsm`: three functions at 1-2, 3-4 and 6, so the first two
  are adjacent and the third follows a gap. `MaxObjdumpExec = 2` stands for
  50, so the two-symbol selections take one objdump run each and the
  three-symbol selection takes the whole image: both branches of line 400.
  The selections are the ones a threshold can produce (none, the two
  with most samples, all three) in every order. With `-S` each instruction
  may follow one of three source lines: `add:`, which reads as an
  instruction at 0xadd; `1 <x`, which has the start of a symbol line
  without the final ':'; and `int`. objdump may fail to start for any run,
  and may report an error after any run.
* `MCReportSummary`:
  * two count groups (classes);
  * two applications `appA`, `appB` and one library `libL`;
  * each class has at most two profile sets, with different applications.
    Each set has at most one file of its own and at most one dependent
    image, with one file;
  * file counts {1, 2} and a threshold of 50%, so an application can be
    above, at or below the threshold;
  * one application in both classes, and one library under both
    applications, reach the reuse of a summary by `find_summary`.
    `ReverseSort` is FALSE: the reverse order only flips `less`.

### Fairness

`ProfileHeaders`, `ReportSummary`, `Annotate` and `AnnotateAsm` check only safety: the
tools are sequential runs that end.
`OprofStart` checks only safety: every step is a user action, and a user
need not act. `SampleFiles` assumes weak fairness of `OdbOpen` only. The daemon handles
one sample at a time to completion (design section 5): once
`opd_open_sample_file` is entered, its loop keeps running. New samples and
binary rebuilds are not assumed to happen. `DbHash` and `Mangling` check
only safety.

## 4. Correspondence with the code

`PROJECT.json` "map" gives, for every definition, the lines it models.

* **DbHash**:
  * `InsertExisting` is the walk and update of `db_insert` (lines 22-34).
  * `InsertNew` is the failed walk and `db_hash_add_node` (line 43).
  * `PublishStore` is one of the stores of lines 46-47.
  * `Link` is lines 50-52.
  * The walk, the overflow test (`AddSaturated`) and the recomputed bucket
    (`LinkBucket`) are separate operators.
  * `db_hash_add_node`, `do_hash` and `db_travel` are taken from the design
    (their files are not in `src/`). The hash is `key mod buckets`, and
    growth doubles the table.
* **SampleFiles**:
  * `Sample` is `sfile_find` plus the entry of `opd_open_sample_file` up
    to `sfile_get` (lines 120-129).
  * `OdbOpen` is one pass through the `retry:` label, with the EMFILE
    branch (`OnEmfile`), the header write (`WriteHeader`) and `out:`
    (`ReleaseSfile`).
  * The LRU list functions follow the design. `sfile_lru_clear` evicts the
    least recently used unpinned sfile and reports failure when there is
    none.
* **Mangling**: `get_dep_name` and `mangle_filename` translate lines 34-48
  and 66-106. `op_mangle_filename` is modelled as the tuple of the
  components its flags select, and escaping is assumed injective.
  `StoreKey` is the design's key (section 4.2), not a copy of the code: its
  application field follows the design's "separate_kernel or
  separate_lib", for kernel images as for libraries.

* **OprofStart**:
  * Each method is an operator from dialog record to dialog record. Each
    callback action applies them in the order the code calls them. For
    example, `CounterSelected` is `counter_selected`: record, change
    `current_ctr`, `display_event`, then `enabled->setChecked`. The
    `setChecked` call runs `enabled_toggled` only when the state changes
    (`set_enabled_box`).
  * `updates` is `setUpdatesEnabled`; `shown` is the number of visible
    check boxes; `checks` keeps the state of hidden boxes, as Qt does.
  * The user's changes to widgets (`EditCount`, `ToggleRing`,
    `ToggleCheck`, `EditConfigPage`) are inputs. In an exclusive group a
    click leaves only the clicked box checked.
  * `opcontrol` is outside the sources. Its runs are the boolean results
    `setupOk` and `startOk`, and `setup` holds the arguments of the last
    `--setup` that succeeded. `on_stop_profiler` is assumed to stop the
    daemon.

* **ProfileHeaders**:
  * The constructor's loops are steps with a loop index `ri`: `OpenSamplesFile`
    (lines 41-48, calling `open_samples_file`, lines 93-106), `FindFirstFile`
    (50-60), `ReadHeader` (62-67) and `CheckHeaders` (69-74).
    `CheckMtime` is `check_mtime`, `SetStartOffset` is `set_start_offset`
    and `AccumulateSamples` is both `accumulate_samples`. The callers are
    not in `src/`; the model runs them in this order once the object is
    built. `kernelImage` says whether the image is a kernel image.
  * Each header read is a read of the shared `hdr` at that step, as with
    the mapped file.
  * `counter_profile_t` and `check_headers` are not in `src/`. They follow
    the design: a bad magic or version skips the file, and a cpu type or
    mtime mismatch warns.
  * The daemon's side is `DaemonOpen` (the `odb_open` and `memset` of
    `opd_mangling.c:131-156`) and `DaemonStore`, one step per store to
    magic, `is_kernel`, `cpu_type` and mtime (lines 157-167). The other fields are not
    read by the tool.
* **ReportSummary**:
  * A file is abstracted to its sample count. `add_files`, `find_summary`
    and `add_profile` are operators that return the updated records.
  * `AddProfile` and `EndClass` are the two loops of the
    `summary_container` constructor (lines 154-171). `Collect` copies
    `app_map` in image order and makes both `stable_sort`s (lines 174-187).
    `StableSort` is an insertion sort that keeps equal elements in order.
  * `OutputApp` is one iteration of `output_summaries` (lines 303-324),
    including `output_deps`. The printed lines keep only which application
    or image they name.

* **Annotate**:
  * A path is the sequence of its components. The directory strings begin
    and end with '/', so `find` of the source directory can only match at
    component boundaries. On such paths the string operations of
    `output_one_file` are sequence operations: `FindSourceDir` is the
    `find`, and `OutFilename` is the `erase` followed by the
    concatenation with `output_dir`.
  * `relative_to_absolute_path` is not in `src/`. The options of the model
    are absolute, so it returns its argument, and the empty string gives
    the current directory `Cwd`.
  * `is_files_identical` compares two existing files. Without links, that
    is equality of the two paths when the file exists.
  * `create_path` and the opening of the output stream may fail (`createOk`,
    `openOk`). The content of an annotation is the file it annotates and
    the content read from it (`Annot`). `filenames` and `matched` are the
    result of `select_filename` and of the `--include-file` filter.

* **AnnotateAsm**:
  * A line is the sequence of its characters. `SkipSpace`, `SkipHex` and
    `ParseHex` are the scans of lines 276-288 and `strtoull`.
    `output_objdump_asm_line` returns the new `last_symbol`, `do_output`
    and the printed line. A printed line keeps its kind and the sample
    count its annotation shows, not the text.
  * `find_symbol`, `find_sample` and a symbol's sample count belong to
    `profile_container`, which is not in `src/`. They are the function
    containing an address, the samples at it, and their sum.
  * objdump is the environment. `Objdump(s, e)` is the set of listings it
    can print for the arguments of lines 328-349: the preamble, then, for
    each function starting in the range, a blank line, its symbol line
    and its instructions below the stop address, each after an optional
    source line with `-S`. A listing line carries the address it stands
    for, which the code never reads and the properties use.
  * `StartObjdump` is the start of `do_one_output_objdump`, including a
    failed start (lines 350-354). `ReadLine` is one iteration of the
    `getline` loop, and `EndObjdump` is the stderr and signal checks after
    it. All three report on cerr, which is counted in `errors`.
  * `ListingFollowsGrammar` compares each step with a declarative reading
    of the line forms of the comments (`SymbolForm`, `InstructionForm`),
    not with the scans.

## 5. Not modelled, and why

* Kernel buffer reading, cookie lookup, BFD symbol resolution, output
  formatting, option parsing: these are I/O or are outside the recording
  path. They appear only as inputs (`Named`, `Resolvable`) or not at all.
* The reader's own mapping size after the writer grows the file: `db_travel`
  and `odb_open` are not in `src/`, and the design gives no rule for it.
* `opcontrol --reset` deleting files under the daemon (comment at
  `opd_mangling.c:134`): the file removal is outside the sources.
* `populate_samples` and `save_sample_file_header` of opannotate go
  through `profile_container` and `op_bfd`, which are not in `src/`. In the
  assembly listing, an objdump run cut short by a signal (a truncated
  listing) is not among the outputs: only its error report is modelled.
  The text of the annotations is left out.
* `profile_t::output_header`: it only prints the header.
* In `opreport.cpp`, the `--symbols` path (`populate_for_image`,
  `profile_container`, symbol formatting), option handling and the
  formatting of counts and percentages. `arrange_profiles`, which builds
  the profile classes, is not in `src/`, so classes are inputs with
  distinct applications in each class.
* In `oprof_start.cpp`:
  * `timerEvent` only displays the daemon's status;
  * `on_flush_profiler_data` runs `--dump` and changes nothing in the
    dialog;
  * `set_counter_combo` only sets a label's text;
  * the RTC cpu branch is not modelled;
  * the parsing of daemonrc and of the oprof_start_event files:
    `read_set_events` is modelled by the in-range event assignments it can
    produce. An out-of-range counter index in the file, and `locate_event`
    of an unknown name, are undefined behaviour with no outcomes to choose
    from.
  * The signal connections live in the dialog's `.ui` file, which is not
    under `src/`. The model assumes that `events_list->setCurrentItem`
    inside `counter_selected` does not call `event_selected`. If it did,
    it would record and redisplay the same event, which changes
    nothing.
