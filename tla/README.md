# Miniascape in TLA+

Miniascape turns a site's YAML configuration into libvirt network definitions,
kickstart files and scripts, and brings scripts of its own that register
networks and guests at a libvirt host and set up a cluster of guests.  This
directory holds a model of it, the TLC runs that check the model on small
instances, and proofs that TLAPS checks of the properties that matter most.

There are hardly any threads in miniascape.  What is hard to get right is
**files that outlive a run**: the intermediate configuration and the results
stay, nothing ever removes them, a run may die anywhere and be repeated;
**scripts that run side by side** on a host, edit the same files without a lock,
take one file's content for a sign that all has been done, and fail half way;
and **state that outlives a call**: a memoized lookup, defaults that a command
line parser appends to.

## 1. The system's parts

| part | source | state it keeps | operations | model |
|---|---|---|---|---|
| commands | `cli.py`, `site.py`, `host.py`, `guest.py` | tree of intermediate files, result files | `build`/`configure`, host and guest generators | `Build` |
| configuration files | `config.py` | none (reads the tree) | list, find a guest's group, merge, complete, collect networks' hosts | `ConfFiles` |
| memoization | `memoize.py` | a cache for as long as the process lives | `find_group_of_guest` | `Build` (`cache`) |
| a guest's files | `guest.py`, `template.py` | `setup/`, its archive, result files | `arrange_setup_data`, `compile_conf_templates` | `GuestFiles` |
| rendering | `template.py`, `contrib/render.py`, `contrib/utils.py` | output files, directories, processes | `renderto`, `finish_renderto_procs`, the renderer as a command | `Renderto`, `RenderCmd` |
| bootstrap, command line options | `bootstrap.py`, `options.py` | a site's symlinks, rendered files, the lists in `M_DEFAULTS` | `bootstrap`, `tweak_options` | `Bootstrap` |
| registration of guests | `net_register.sh`, guest `Makefile`, `guest_network_register.sh` | network XML, dnsmasq's files, `netregist.stamp` | `make net_register` | `NetRegister`, `Registry` |
| registration of networks | `register_libvirt_network.sh` | libvirt's XML files and autostart links | one run of it per network | `LibvirtNetwork` |
| host package | `host/package.spec` | `/etc/fence_virt.conf` and a saved copy | installation, update, removal | `Overrides` |
| cluster and GFS | `data/rhel-6-cluster-gfs` | services, fstabs, a shared volume | `init_gfs.sh`, `check_cman.sh`, `start_cman.sh`, `start_clvmd.sh` | `GfsCluster` |
| default configurations, other templates and data, packaging, tests, tools | | | | not modelled |

How they interact.  `bootstrap` makes a site's context files.  `build` has
`configure` merge the context files into the tree (`common`, `host.d`,
`networks.d`, `guests.d/<group>/<guest>`), then has the host generator load the
networks with the guests' interfaces and write network XML, then has the guest
generator load guest after guest and write theirs, and last the guests' common
Makefile.  They talk through files only: each generator is also a program of its
own that reads whatever tree is there.  All of them render through
`template.renderto`.  The host's files are made into a package that replaces a
file of another one, and carried with the guests' to the libvirt host, where
`register_libvirt_network.sh` makes libvirtd know a network, and each guest's
Makefile runs `net_register.sh`, which runs `guest_network_register.sh` for
each of the guest's interfaces, until it succeeds once.  The setup data that a
kickstart file embeds are, for a cluster, the scripts that make its volume.

What makes each part correct, and what makes it hard:

* *configure*: what it leaves must be what the context says, over anything that
  an earlier, perhaps killed, run left.  Directories are never removed, so a
  later reader also finds what is no longer configured.
* *host generator*: a network's `.yml` is written and read back for its XML.
  Without force, a file that exists stops the loop over all networks.  The
  interfaces come from a pass over the guests of its own, which must agree with
  how the guest generator reads them.
* *guest generator*: a guest is looked up by name over all groups, once for each
  process; the Makefile must not name what has not been generated; a build whose
  configuration is wrong should fail before it has replaced half of the results
  (one whose templates or setup data are wrong does not, see section 4).
* *a guest's files*: a kickstart file embeds an archive that the same run made,
  from a directory that may hold older files; the results' directory is a
  template directory as well.
* *rendering*: a directory that was not there when it was looked for may be
  there when it is made; a process that renders may fail unseen; which of
  several contexts and templates of a name counts is a matter of order; what was
  in an output must not be lost when nothing can be rendered.
* *bootstrap*: symlinks are made with names that may exist; all template
  directories, and all sites, write into one directory; a second command line
  in one process is added to what the first one left.
* *registration*: a success that is remembered (a stamp, a line in a file, a
  listed network) must mean that all the rest was done too, under retries,
  kills, failing commands and other scripts in between.
* *host package*: the first installation, an update, another site's package and a
  repeated half-done installation all find something else in the file's place;
  only the first of them may save it.
* *cluster*: the scripts of other nodes report nothing back, any node may be
  rebooted, and the volume must come after all that the first node can see to.

`PROJECT.json` lists the hazards line by line with the properties about them.

## 2. The modules

**ConfFiles** translates `config.py` as pure operators of a tree, a function
from files to contents, a content being a function from keys to values.
`Merge` is anyconfig's: later files win.  `GuestAddMissings` fills in fqdn and
the interfaces' ip, mac and fqdn, `AddSpecialConfs` puts the build's own entry over
it; `LoadNetsConfs` groups all guests' interfaces by network.  Who built
something where and when, and all other timestamps, are the one value `Stamp`.

**Build** has the variables `tree` and `out` (files that outlive runs), and
for the current run its command line `cmd`, place `pc`, loaded configuration
`conf`, work list `todo`, item `cur`, `nets` and `cache` (what the memoized
`find_group_of_guest` has answered in this process).  Every file is opened (and
so emptied) in one step and written in another; a kill (`Interrupt`) may come
between any two.  A run can also end by itself in two bad ways: `raised` is over
the configuration that it loads, which the steps decide from the tree and the
context; `failed` (`RenderFails`) is over what is not looked into here, wherever
something is rendered or written: a missing template, setup data without a
source, a failing command or disk.  The question that `host.main` asks before an
unforced run (when a directory `host.d` is in the working directory) has two
answers, of which one is no run and the other the forced run.  A `Context` is what `load_site_ctxs` returns after merging: which files it
declares and what it says of each.  The files made from one configuration by
one loop over templates count as one result here; `GuestFiles` opens one up.

**GuestFiles** is `gen_guest_files` for one guest, file by file: setup data into
`setup/`, the archive (`tar | base64`, where the shell empties the target
first and only base64's status counts), then the templates; which templates are
still in the template directories changes between runs, and a missing one is
looked for among the results and then asked for.  An entry in `NoSource` lacks its
"src", and ends the run when its turn comes.

**Renderto** is several commands that render into one working directory at the
same time.  `at` is where a command is and `job` where each of its renderings
is: the same process for a command of kind "sync", a process of its own for
"async" (`template.renderto` with `async=True`), and `contrib/render.py` run by
itself for "direct".  `os.path.exists` and `os.makedirs` are two steps; `dirs`
remembers who made a directory and `files` whose content an output has.

**RenderCmd** is one run of `contrib/render.py`: `args` ranges over all command
lines within the bounds, then the contexts are parsed and loaded, the search
path is made, the template is looked up or asked for, and the output opened and
written.  `Fails` may end it anywhere: it is killed, or the write fails that has
already emptied the output.  The contexts still to be loaded are a set of files with their
arguments' positions (`left`, ordered by `Before`), and the search path is a
function of positions that keeps only the first of equal entries; so the module
needs no recursion and can be proved about.  Names of the whole specification
are prefixed (`CmdNext`), as one module of proofs extends this one and Renderto.

**Bootstrap** is the `bootstrap` command with `tweak_options`: links in the
site's directory (`os.symlink` raises if the name is there), then every file of
every template directory in the order of the list.  `tpaths` and `ctxs` are the
lists of `M_DEFAULTS` that a parser in the same process starts from: a command
either is a new process or follows another one in its own (`Start`'s `new`).

**Registry** is an abstract specification: entries come to be served and never
stop, and a guest is acknowledged only once all its entries are served.
**NetRegister** is the scripts, with `def` (the network's XML file), `cfg` (what
libvirt has taken over from it), `map` (dnsmasq's files), `served` (what dnsmasq
has loaded), `running` (whether the network runs and so
has a pidfile, without which nothing is reloaded) and a place, an interface, a sed output and tries for each guest.
`sed -i` is two steps, a read and a rename.  `Within` says which names grep
finds in which.  `AsRegistry` is the refinement mapping: `acked` is `stamp`.

**LibvirtNetwork** is `register_libvirt_network.sh` for several networks while
libvirtd is started and stopped at any moment; `before` is the networks that
libvirt had already, active and autostarted or not; `xml` tells an empty file from a
full one, since the script does not.

**Overrides** is the scriptlets `%post` and `%preun` of `package.spec`, for the
packages of several sites, an rpm that may be killed between any two steps, and
others who change the file while rpm does not run.  `first` and `found` remember
what the first `%post` found.

**GfsCluster** is the four scripts on N nodes: what is enabled and runs on each,
each one's fstab, and the shared volume (`made`).  `Goes` has what decides how
the first node's script goes on: its own scripts' status, but of another node's
only whether ssh could run it; `InitOther` may have come to its fstab or not.
`Reboot` starts what is enabled.

**MC...** modules hold small values of the constants.  **...Proofs** modules
hold the theorems of the modules they extend.  Operators named after another
with a suffix (`Keeps_Never`) are that one with a bug that a change to the code
might bring; `PROJECT.json` pairs each property with one that it detects.

## 3. The runs

| run | instance | what it shows |
|---|---|---|
| `build_good` | 2 groups, 2 guest names, 2 networks, 2 contexts between which a guest changes group, 3 commands | `TypeOK`, `ConfigWritten`, `DeclaredGuestsBuilt`, `XmlMatchesGuests`, `ForcedNetsCurrent`, `MakefileGuestsExist`, `RetryRepairs`, `MemoCurrent`, `KeepsWithoutForce`: what a finished run guarantees whatever earlier ones left |
| `build_bad` | contexts that are empty, without hostname, without any name | `LoadsBeforeResults`, `RunEnds`: what is wrong with a configuration is found before results are replaced, and every run ends |
| `guest_files` | 2 setup files or an entry without a source, ks.cfg and another, 2 revisions, 3 runs | `TypeOK`, `KsEmbedsSetup`, `FinishedCurrent`: what a kickstart file embeds and what a finished run leaves |
| `renderto` | 3 commands, one of each kind, 3 outputs in 2 directories, two of them shared | `CollidesWithOthers`, `DoneComplete`, `CommandsEnd` |
| `render_cmd` | up to 2 contexts and 2 directories out of 3 files, 2 patterns and 5 ways to write 3 directories | `LaterWins`, `FirstDirSearched`, `KeptUnlessWriting` |
| `bootstrap` | 2 sites, 2 site templates with a file in common, up to 2 template directories, 3 commands in one process or several | `DoneIsComplete`, `LinksStay` |
| `net_native` | 2 guests, 3 interfaces, 2 tries each, the network runs and `net-update` works | `TypeOK`, `StampedServed`, `StampedDefined`, `RegistryKept` |
| `net_fallback` | 2 guests, 2 tries, the network runs or not, every virsh command may fail | `StampedListed`, `FirstTryServed`, `AttemptEnds` |
| `net_retry` | 1 guest, 2 tries, `net-define` may fail | counterexample to `StampedServed` |
| `libvirt_network` | 3 networks, one without an XML file, any of them known before, 2 tries, virsh may fail | `TypeOK`, `FirstTryRegisters`, `FirstTrySurvives`, `FilesStay` |
| `overrides` | 2 packages, 5 runs of rpm, 2 changes by others | `FirstKept`, `EraseRestores` |
| `gfs_cluster` | 3 nodes, one without its fencing key, 3 runs of `init_gfs.sh` | `ClvmdNeedsCman`, `VolumeAfterOwn`, `DoneIsFormatted` |

*Bounds.*  `MaxRuns`, `MaxTries`, `MaxEdits`, `MaxArgs` and `MaxDirs` cap how
often a command is run, a registration tried, a file changed by others, and how
long a command line is; everything else is finite.  Three commands are a first one that
leaves something (or is killed), a second that changes or repairs it, and a third
that reads what both left; no property relates more than two earlier runs to
the present.  Five runs of rpm are enough to install, update and erase one
site's package with another's in between.  Two guests or networks are enough for one to
interleave with another; the scripts for a third would do to the shared files
what the second one's do.  Three nodes are a first one, one that fails and
one that does not.  Two groups let a guest move from one that sorts later to an
earlier one and back.  The proofs of section 5 hold for any value of these bounds.

*Deadlock* is not checked: all of these systems may stop, when the bound is
reached and when no user starts another command.

*Fairness* is weak fairness of the steps of a process that has been started
(`WF_vars(Step)`: of the one command of Build, of each guest's script in
NetRegister, of each command with its processes in Renderto): an operating system
goes on with a process that can go on.  Nothing obliges a user to start a
command or to repeat one, or anything to be killed.  A virsh command answers, well
or badly, and so does a user who is asked for a template.  So the liveness
properties `RunEnds`, `AttemptEnds` and `CommandsEnd` say only that what was
started ends; the other modules state no fairness and no liveness.

## 4. Where the code departs from its documents

Shown by a run:

* A registration that failed half way is reported as done, and stamped, when it
  is tried again (`guest_network_register.sh:76`, 105; run `net_retry`).

Met while reading and modelling, without a run of their own:

* Two registrations at the same time may lose one's entry from the XML file and
  so from libvirt's definition, where the script falls back to sed
  (`guest_network_register.sh:83`).
* A guest that moves to a group that sorts later is built from the old group's
  files (`config.py:50`; README.rst:93-94 and 113-114).
* Setup data that is no longer listed is archived and embedded (`guest.py:80`;
  `data/README.embed:1`).
* bootstrap prefers the last template directory, so the system's to the user's
  (`bootstrap.py:52`), although `options.py:78-79` appends the system's directory
  as the one of the lowest priority; and a second command line in one process
  starts with the first one's directories and contexts (`options.py:24`).
* A missing template (`contrib/render.py:118-130`) or an entry of setup data
  without `src` (`guest.py:68`) ends a build in the middle of its guests, after
  the networks' and other guests' results have been replaced.
* `contrib/render.py:178` empties the output before it encodes and writes: a write
  that fails leaves nothing of what was there.
* `build --no-genconf` raises `UnboundLocalError` (`cli.py:71`, help at 51).
* A guest with a name but no hostname is accepted by configure and fails an
  assertion in build (`config.py:83-84`, `site.py:133-134`).
* Without force, the host generator stops at the first network whose file
  exists (`host.py:109`, docstring at 93).
* `contrib/render.py` with `-o` and a bare file name raises, as the empty name of
  its directory cannot be made; the directory of a user's answer is searched
  last, so that a template of that name elsewhere is taken; an answer to the
  question for a template that ks.cfg includes is rendered in place of ks.cfg
  (line 130).
* An interface without a mac is registered as `RANDOM` (`config.py:105`), where
  the script expects `random` (`guest_network_register.sh:169`).
* `grep -q ${fqdn}` and `grep -q ${net}` find a name inside of another one
  (`guest_network_register.sh:76`, `register_libvirt_network.sh:50`).
* Without a pidfile `reload_dnsmasq` returns 0 (`guest_network_register.sh:61-63`),
  so that a guest of a network that does not run is stamped and served by nobody
  until the network is started.
* The status of `net_register.sh` is that of its last interface's registration
  (line 13).
* A network whose `net-start` or `net-autostart` failed is taken for registered
  by the next run (`register_libvirt_network.sh:50`); with a relative data
  directory (line 14) and libvirtd stopped, an empty XML file is left, and taken
  for the network's (lines 57-65).
* A remote `init_gfs.sh` that fails (no second disk, line 9; mkdir; sed) is hidden by
  `tee`'s status (line 26): the volume is made without that node's fstab entry.
* `init_gfs.sh` runs itself on the other nodes without its arguments, so that
  their fstab names the default volume; `A || B && C` formats a volume that is
  there already (lines 32-34, against the comment at 28).
* The saved copy of `fence_virt.conf` is never removed (`package.spec:54`): a later
  installation keeps it and the next removal restores that one.  Removing one
  of two sites' packages restores the file although the other is installed.  Where
  there was no file, a later `%post` saves the override itself.
* README.rst:63 puts `-C` in front of the command, where `cli.main` does not
  look for it; `bootstrap -C` without `-s` raises (`bootstrap.py:42`).

## 5. What is proved

All theorems are of the specifications above for every value of their constants
that the modules' assumptions allow: any numbers of groups, names, networks,
guests, commands and nodes, any contexts, and any bound on runs and tries.
Every property that a run checks is a theorem too, except those listed at the
end of this section.

**BuildProofs.**  `TypeCorrect` and `ConfigIsWritten` rest on
`ConfigInv`: while configure works, all files of its context that are not in
`todo` are in the tree as the context says.  This is inductive although
`ConfigWritten` alone is not, which says nothing while the loop is still running.
`MemoIsCurrent` adds `MemoInv` (nothing has been memoized before the tree stops
changing).  `ForcedNetsAreCurrent` adds `NetsInv` (the same as `ConfigInv` for
the loop over the networks, and that the yml just written is that of the tree,
which the XML is made from).  `UnforcedAlwaysKeeps` adds `WritingInv`: a
network's file that is about to be written has been emptied by this run.
`MakefileGuestsAlwaysExist` and `DeclaredGuestsAreBuilt` add `GuestsInv`
(every listed guest not in `todo` is current).  `RetryAlwaysRepairs` and
`BuildLoadsBeforeResults` add `LoadedInv`: once the networks have been loaded
every guest can be loaded until the run ends, as the tree does not change.  (A
build that fails over templates, setup data or the disk is `failed`, and the
theorem says nothing of it: such a build does leave half of its results new.)
`XmlAlwaysMatchesGuests` compares the two passes over the guests: by
`BothPassesAgree` a guest of one group is the same for both of them,
`NetHostsOnly` says that a network's file brings no hosts of its own, and by
`FiltersCommute` dropping repeated addresses and selecting a network's interfaces may change places.
It needs the two exceptions that the property names: a guest of two groups, and
a common configuration with hosts at its top, are merged into one pass's
result and not into the other's.
`OwnBeforeGroup` and `InterfacesKeepTheirData` are about the
operators of ConfFiles, for any tree and any configuration: what prevails in a
merged configuration, and that completing it adds a full name and the build's own
entry, which overrides, and replaces nothing else; with
`DeclaredGuestsAreBuilt` they give `OwnEntryAlwaysPrevails`, about the results.
`StepsGoForward` (with `ListInv`) and `LoopsAlwaysGoOn` are what `RunEnds` rests
on besides fairness: each step lowers the part of the run, the list, or the place in
an iteration, in this order, and a loop that is not over has a next item.

**GuestFilesProofs.**  `KsAlwaysEmbedsSetup` and `FinishedIsCurrent`.  The invariant
follows a run's data through its stages: `SetupInv` (setup data that is not in
`todo` is the configuration's), `ArchiveInv` (once templates are rendered, the
archive has all of it, or tar failed), `KsInv` (so has every kickstart file, the
one about to be written included) and `OutInv` (what was rendered from a template
in its place is current); `CurInv` and `TodoInv` say what is in hand.

**RenderProofs.**  Of Renderto, `OnlyOthersCollide` and `DoneIsComplete`, from
`PlaceInv` (a command waits for its own jobs), `DirInv` (a job of
`template.renderto` starts only when its directory is there; a directory that
one is about to make was made by another if it exists) and `FileInv`.  Of RenderCmd,
`LaterAlwaysWins` from `LoadInv`: every key of a file that is not in `left` has
the value of that file or of a later one that is not in `left` either, and files
leave in their order.  `FirstDirAlwaysSearched` from `TextInv` (what has been
rendered or asked for is what a lookup in this command line's path gives) with
lemmas about `Uniq` and `Lookup`: dropping an entry that was there before
changes no lookup, and the least position exists.  `AlwaysKeptUnlessWriting` from
`OutInv`: the output is not touched before the text is there, so that only a
failure while it is being written can lose it.
`NobodyIsStuck` (with `StartedInv`: what has left a command's list has been
started) and `StepsGoOnward` say of Renderto that no command waits for a job that
cannot end, or for another command, and that each step lowers what its own command
has to go.

**BootstrapProofs.**  `DoneIsAlwaysComplete` and `LinksAlwaysStay`.
`ListsInv` ties the work list to the place in the list of directories, whatever
earlier command lines left in that list, `LinkInv` that what is not to be linked any more is linked, and `FileInv` that
each file of the directories walked so far is there, made for this command's
site.

**NetRegisterProofs.**  `TypeCorrect`; `StampedAreListed`, for any outcome of
any command and any `Within` (`ListedInv`: whoever is past the line for its DNS
entry is listed).  With two assumptions, `NativeUpdates` (the network runs, net-update works and
the network has a domain) and `DistinctNics` (two interfaces that grep confuses
have the same entries), `NativeInv` holds: the four copies of the registry agree,
no script ever edits a file, and each has done all that comes before its place.
From it `NativeStampsServed`, `NativeStampsDefined` and the refinement `NativeKeepsRegistry`; `net_retry` shows that `NativeUpdates`
cannot be dropped.  `FirstTriesServe` is for any outcome of any command and a network that runs or
not (`Known` is what dnsmasq serves or will read when it starts), if no
other interface's entry is taken for that of a guest's last one
(`LastNicsApart`): `FirstInv` says that until its first try gets there nothing
that its script looks for is in dnsmasq's files, so that it can succeed only by
having registered it; and that what dnsmasq serves is in its files, so that
another guest's reload takes nothing away.  `AttemptsAreShort` counts the steps an
attempt has still to go.

**LibvirtNetworkProofs.**  `TypeCorrect`; `CompleteFilesStay` from `FileInv` (who is
about to write a file found none); `FirstTriesRegister` and `FirstTriesSurvive`
from `FirstTryInv` (what a first run for a network that libvirt did not have
before has seen so far is still so, since only the network's own script changes
its files), under `DistinctNames`.

**OverridesProofs.**  `FirstIsKept` and `EraseAlwaysRestores`, from `SaveInv` (a
file that was found has been saved, or is being copied and is still what was
found) and `RestoreInv` (a last version goes only after the copy).

**GfsClusterProofs.**  `ClvmdHasCman`, `VolumeComesLast` and `DoneMeansFormatted`,
from `ServicesInv`, `PlaceInv` (what the script has seen to on its own node when
it is at a place, loop by loop) and `MadeInv`.  Of the other nodes' entries
nothing but that there are not two can be proved, as nothing of them is seen.

*Only model-checked.*  `RunEnds`, `AttemptEnds` and `CommandsEnd`: liveness under
fairness, and `ENABLED`, are out of the prover's reach.  What is proved towards
them are measures that the steps lower (`StepsGoForward`, `AttemptsAreShort`,
`StepsGoOnward`), and that loops and commands can go on (`LoopsAlwaysGoOn`,
`NobodyIsStuck`); that a process that can go on does is the assumption of
fairness, and the step from these to the liveness properties is TLC's.

## 6. What is not modelled

* Addresses of guests that change between registrations: no entry could be
  attributed to its guest any more, on which every property of NetRegister
  rests.  What the script does then is nothing, as it finds the mac.
* Two runs of `build` in one working directory at the same time are modelled
  only as far as rendering goes (Renderto); Build's runs follow one another.
  Several sites with one output directory.
* In `guest_network_register.sh`: the moment in which `sed -i.save` has renamed the
  file away (another script would then find no network, line 177), a missing
  network file, `-m random` (169-171), and networks that are started or stopped
  during a registration.  A stamp that is older than a net_register.sh that was
  rendered again (guest `Makefile`:6): a guest's data are constants.
* A `tar` that fails half way counts as one that wrote nothing: neither can be
  unpacked.
* Networks are keyed by their directory's name, which is what the code's key,
  `name`, comes to: a network's own file has it, and nothing that is merged into
  it (`ContextsAssumption`).
* Trees edited by hand between configure and build (README.rst:110-111 allows
  it): the contexts stand for what they might come to.
* Keys of a configuration that no property tells apart (device names, bridge,
  netmask), lists with repeated entries, warnings about duplicates
  (`find_dups`), the DNS check of `guest_network_register.sh` (switched off).
* jinja2's language and the texts: the kickstart, XML and script templates,
  except for what they include and which hosts they list.
* `vmbuild.sh` and the host's storage scripts, each a straight sequence of calls
  of other programs; `init_qdisk.sh`, one call of `mkqdisk`; the other
  installers' scripts and data in `autoinstall.d/data`.
* Changes of `fence_virt.conf` while rpm itself runs; GFS nodes that join later.
* Default configurations, packaging, tests and tools.

## 7. Plan

1. *GuestFiles*: an abstract specification (each result is a function of one
   configuration) that it implements, composed with `Build`'s step
   `WriteGuestFiles`.
2. *Build*: runs of two commands side by side.
3. *NetsConf*: the network configuration's addresses (`templates/config/network.j2`)
   against a reference definition over bounded inputs.
