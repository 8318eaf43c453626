------------------------------ MODULE PetLibrary ------------------------------
(***************************************************************************)
(* The pets: discovery of the packages under pets_root, their validation   *)
(* (lili-pet/src/discovery.rs, validation.rs, selection.rs), the catalog   *)
(* and the assets that the application serves, and the selection of        *)
(* another pet in its awaited steps (lili-app-state/src/lib.rs), while the *)
(* user edits the directories.                                             *)
(*                                                                         *)
(* A package is its identifier and whether its manifest and atlas pass.    *)
(* The approved assets get fresh identifiers with every catalog: here the  *)
(* generation and the pet.                                                 *)
(***************************************************************************)
EXTENDS Integers, FiniteSets

CONSTANTS
    Dir,            \* the directories of pets_root in the order of discovery; 1 is pets_root/lili
    Pet,            \* pet identifiers; 1 is the default one, "lili"
    MaxPackageEdits, MaxSelections, MaxAppStarts  \* bounds

VARIABLES
    disk,       \* the package in each directory, or Nothing
    library,    \* PetRuntimeState: the catalog's active pet and packages, the assets, the loaded asset
    view,       \* the pet and asset of the ViewSnapshot
    storedPet,  \* selected_pet_id in the database, 0 for none
    selection,  \* the select_pet that holds the selection lock
    fellBack,   \* history: the stored pet could not be loaded at the last start
    library_use \* the bounded inputs so far

libraryVars == <<disk, library, view, storedPet, selection, fellBack, library_use>>

DefaultPet == 1
Nothing == [pet |-> 0, atlas |-> "none"]
Package == [pet : Pet, atlas : {"valid", "invalid"}]

-------------------------------------------------------------------------------
\* A pet and the directory of its atlas; 0 is the embedded one.
Source(pet, dir) == [pet |-> pet, dir |-> dir]
Fallback == Source(DefaultPet, 0)

\* discover_pet_packages: of two packages with one identifier the first counts,
\* whether its atlas is valid or not.
Discovered == {d \in Dir : disk[d] # Nothing /\ \A e \in Dir : e < d => disk[e].pet # disk[d].pet}

\* read_validated_atlas, validate_atlas.
Readable(source) == source.dir = 0 \/ disk[source.dir].atlas = "valid"

Packages == {Source(disk[d].pet, d) : d \in {e \in Discovered : disk[e].atlas = "valid"}}
PetsOf(sources) == {s.pet : s \in sources}

\* PetCatalog::load_requested
Catalog(requested) ==
    [packages |-> Packages,
     active |-> IF requested \in PetsOf(Packages)
                  THEN CHOOSE s \in Packages : s.pet = requested ELSE Fallback]
DefaultCatalog == [packages |-> {}, active |-> Fallback]

\* Mutant of WithActive: the refreshed catalog as it was loaded.
Unchanged(catalog, active) == catalog

\* PetCatalog::with_active
WithActive(catalog, active) ==
    [packages |-> IF active.pet \in PetsOf(catalog.packages) THEN catalog.packages
                    ELSE catalog.packages \cup {active},
     active |-> active]

\* ApprovedPetAssetCatalog::from_catalog: one asset per pet, later sources win.
Approved(catalog, generation) ==
    [generation |-> generation,
     by_pet |-> [p \in PetsOf(catalog.packages \cup {Fallback, catalog.active}) |->
        IF p = catalog.active.pet THEN catalog.active
        ELSE IF p \in PetsOf(catalog.packages)
          THEN CHOOSE s \in catalog.packages : s.pet = p ELSE Fallback]]

AssetId(generation, pet) == <<generation, pet>>
Runtime(catalog, assets) ==
    [catalog |-> catalog, assets |-> assets,
     active_asset |-> AssetId(assets.generation, catalog.active.pet)]

\* load_active_asset: a pet whose atlas does not load takes the whole catalog with it.
Loaded(catalog, generation) ==
    LET assets == Approved(catalog, generation)
    IN IF Readable(assets.by_pet[catalog.active.pet]) THEN Runtime(catalog, assets)
       ELSE Runtime(DefaultCatalog, Approved(DefaultCatalog, generation))

ViewOf(runtime) == [pet |-> runtime.catalog.active.pet, asset |-> runtime.active_asset]

\* appearance_view: the pets of the catalog that have an asset.
Listed ==
    LET catalog == library.catalog
    IN {p \in PetsOf(catalog.packages) \cup {DefaultPet, catalog.active.pet} :
            p \in DOMAIN library.assets.by_pet}

\* approved_pet_asset: the loaded one, or one that is approved and can be read now.
Served(asset) ==
    \/ asset = library.active_asset
    \/ /\ asset[1] = library.assets.generation /\ asset[2] \in DOMAIN library.assets.by_pet
       /\ Readable(library.assets.by_pet[asset[2]])

-------------------------------------------------------------------------------
NoSelection == [step |-> "none", pet |-> 0, current |-> Fallback, catalog |-> DefaultCatalog]

\* load_app_state and AppState::with_reducer
Start(generation) ==
    LET wanted == IF storedPet = 0 THEN DefaultPet ELSE storedPet
        runtime == Loaded(Catalog(wanted), generation)
    IN /\ library' = runtime /\ view' = ViewOf(runtime)
       /\ fellBack' = (runtime.catalog.active.pet # wanted)
       /\ selection' = NoSelection

LibraryInit ==
    /\ disk \in [Dir -> Package \cup {Nothing}]
    /\ storedPet = 0 /\ selection = NoSelection
    /\ library = Loaded(Catalog(DefaultPet), 1) /\ view = ViewOf(library)
    /\ fellBack = FALSE
    /\ library_use = [edits |-> 0, selections |-> 0, starts |-> 1]

EditPackage(d, package) ==
    /\ library_use.edits < MaxPackageEdits /\ disk[d] # package
    /\ disk' = [disk EXCEPT ![d] = package]
    /\ library_use' = [library_use EXCEPT !.edits = @ + 1]
    /\ UNCHANGED <<library, view, storedPet, selection, fellBack>>

\* The application stops, in whatever step of a selection, and starts again.
Restart ==
    /\ library_use.starts < MaxAppStarts
    /\ library_use' = [library_use EXCEPT !.starts = @ + 1]
    /\ Start(library.assets.generation + 1)
    /\ UNCHANGED <<disk, storedPet>>

-------------------------------------------------------------------------------
\* select_pet, from the appearance page or the tray, under the selection lock.
SelectFrom(pet) ==
    /\ selection = NoSelection /\ library_use.selections < MaxSelections
    /\ selection' = [NoSelection EXCEPT
            !.step = "load", !.pet = pet, !.current = library.catalog.active]
    /\ library_use' = [library_use EXCEPT !.selections = @ + 1]
    /\ UNCHANGED <<disk, library, view, storedPet, fellBack>>

Ends == selection' = NoSelection

\* The catalog of now: either it has the pet or select_pet keeps the active one.
LoadCatalog ==
    /\ selection.step = "load"
    /\ LET catalog == Catalog(selection.pet) IN
       selection' = IF catalog.active.pet = selection.pet
            THEN [selection EXCEPT !.step = "asset", !.catalog = catalog]
            ELSE [selection EXCEPT !.step = "unavailable",
                                   !.catalog = WithActive(catalog, selection.current)]
    /\ UNCHANGED <<disk, library, view, storedPet, fellBack, library_use>>

\* The active asset is read again after the validation.
LoadAsset ==
    /\ selection.step = "asset"
    /\ IF Readable(selection.catalog.active)
         THEN selection' = [selection EXCEPT !.step = "save"] ELSE Ends
    /\ UNCHANGED <<disk, library, view, storedPet, fellBack, library_use>>

SavePet(saved) ==
    /\ selection.step = "save"
    /\ IF saved
         THEN /\ storedPet' = selection.pet /\ fellBack' = FALSE
              /\ selection' = [selection EXCEPT !.step = "replace"]
         ELSE Ends /\ UNCHANGED <<storedPet, fellBack>>
    /\ UNCHANGED <<disk, library, view, library_use>>

\* Unavailable: the new catalog beside the old assets; nothing is published.
KeepActive ==
    /\ selection.step = "unavailable"
    /\ library' = [library EXCEPT !.catalog = selection.catalog]
    /\ Ends
    /\ UNCHANGED <<disk, view, storedPet, fellBack, library_use>>

\* replace_pet_catalog_with_assets: the pet state, then the snapshot.
ReplaceLibrary ==
    /\ selection.step = "replace"
    /\ library' = Runtime(selection.catalog,
                          Approved(selection.catalog, library.assets.generation + 1))
    /\ selection' = [selection EXCEPT !.step = "show"]
    /\ UNCHANGED <<disk, view, storedPet, fellBack, library_use>>

ShowSelected ==
    /\ selection.step = "show"
    /\ view' = ViewOf(library)
    /\ Ends
    /\ UNCHANGED <<disk, library, storedPet, fellBack, library_use>>

SelectionProgress ==
    \/ LoadCatalog \/ LoadAsset \/ KeepActive \/ ReplaceLibrary \/ ShowSelected
    \/ \E saved \in BOOLEAN : SavePet(saved)

LibraryNext ==
    \/ SelectionProgress \/ Restart
    \/ \E pet \in Pet : SelectFrom(pet)
    \/ \E d \in Dir, package \in Package \cup {Nothing} : EditPackage(d, package)

LibrarySpec == LibraryInit /\ [][LibraryNext]_libraryVars

-------------------------------------------------------------------------------
\* Whatever the user does to the directories while pets are selected, the selected pet
\* stays listed with the asset that is held in memory (the debug assertion of
\* appearance_view); outside the two writes of a selection that pet and that asset are
\* the ones on screen; and the pet on screen is the stored one, unless the last start
\* could not load it.
PetIsServed ==
    LET active == library.catalog.active.pet IN
    /\ active \in Listed
    /\ AssetId(library.assets.generation, active) = library.active_asset
    /\ selection.step # "show" => view = ViewOf(library) /\ Served(view.asset)
    /\ selection.step \notin {"replace", "show"} =>
            fellBack \/ storedPet \in {0, view.pet}

===============================================================================
