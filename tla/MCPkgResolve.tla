---------------------------- MODULE MCPkgResolve ----------------------------
\* A small world of packages: 1 needs 2 and, with its feature "tls", the
\* optional 3; 3 needs 1 back with "tls" on and an older 2; 4 is a git package
\* that needs 2, 5 a directory that needs 1.
EXTENDS PkgResolve, TLC

Caret(v) == [lo |-> v, hi |-> 10 * (v \div 10) + 10, star |-> FALSE]
Below(v, w) == [lo |-> v, hi |-> w, star |-> FALSE]
Star == [lo |-> 0, hi |-> 0, star |-> TRUE]

OnReg(n, reg, req, opt, feats) ==
    [name |-> n, kind |-> "registry", reg |-> reg, req |-> req, dir |-> 0,
     optional |-> opt, dflt |-> TRUE, feats |-> feats]
OnPath(n, dir) == [name |-> n, kind |-> "path", reg |-> 0, req |-> Star, dir |-> dir,
                   optional |-> FALSE, dflt |-> TRUE, feats |-> {}]
OnGit(n, feats) == [name |-> n, kind |-> "git", reg |-> 0, req |-> Star, dir |-> 0,
                    optional |-> FALSE, dflt |-> FALSE, feats |-> feats]
NoFeatures == [f \in {} |-> {}]
Man(deps, features) == [ver |-> 10, deps |-> deps, features |-> features]

DepItem(n) == [dep |-> n, feat |-> ""]
FeatItem(f) == [dep |-> 0, feat |-> f]
DepFeat(n, f) == [dep |-> n, feat |-> f]

MCManifests ==
    { \* a registry package and a path package that turns on a feature of it
      Man(<<OnReg(1, 1, Caret(10), FALSE, {}), OnPath(5, 1)>>, NoFeatures),
      \* a git package, and a requirement without a version
      Man(<<OnReg(2, 1, Star, FALSE, {}), OnGit(4, {})>>, NoFeatures),
      \* an optional dependency nobody enables, one that a feature enables, and
      \* a registry nobody declared
      Man(<<OnReg(1, 1, Caret(10), TRUE, {}), OnReg(2, 1, Caret(10), TRUE, {}),
            OnReg(3, 2, Caret(10), FALSE, {})>>,
          [f \in {"default"} |-> {DepItem(2)}]),
      \* a directory that is not there
      Man(<<OnPath(6, 2)>>, NoFeatures),
      \* a path package reached twice
      Man(<<OnPath(5, 1), OnPath(7, 3)>>, NoFeatures) }

MCPathManifest ==
    (1 :> Man(<<OnReg(1, 1, Caret(10), FALSE, {"tls"})>>, NoFeatures)) @@
    (3 :> Man(<<OnPath(5, 1)>>, NoFeatures))

MCGitManifest ==
    (1 :> Man(<<OnReg(2, 1, Caret(10), FALSE, {})>>, NoFeatures)) @@
    (2 :> Man(<<OnReg(2, 1, Caret(20), FALSE, {})>>, NoFeatures))

Pkg(n, v, deps, features, sum) ==
    [name |-> n, ver |-> v, deps |-> deps, features |-> features, sum |-> sum]

Features1 == [f \in {"tls", "ring"} |->
                IF f = "tls" THEN {DepFeat(3, "tls"), FeatItem("ring")} ELSE {FeatItem("tls")}]
Deps1 == <<OnReg(2, 0, Caret(10), FALSE, {}), OnReg(3, 0, Caret(10), TRUE, {})>>
Deps3 == <<OnReg(1, 1, Caret(10), FALSE, {"ring"}), OnReg(2, 1, Below(10, 11), FALSE, {})>>

MCPublished ==
    { Pkg(1, 10, Deps1, Features1, 1),
      Pkg(2, 10, <<>>, NoFeatures, 2),
      Pkg(3, 10, Deps3, [f \in {"tls"} |-> {}], 3) }

MCUploads ==
    { Pkg(2, 11, <<>>, NoFeatures, 4),                      \* a newer 2
      Pkg(2, 10, <<>>, NoFeatures, 5),                      \* 2 published again
      Pkg(1, 11, Deps1, [f \in {"tls"} |-> {FeatItem("gone")}], 6) }  \* a broken feature

\* A second world, for the locks that are not kept.  The root needs two majors
\* of 2, one through a directory; or it needs 1, and the 2 it picks first needs
\* a 4 that the 2 it settles on does not.
SplitManifests  == {Man(<<OnReg(2, 1, Caret(20), FALSE, {}), OnPath(5, 1)>>, NoFeatures)}
SplitPath       == 1 :> Man(<<OnReg(2, 1, Caret(10), FALSE, {})>>, NoFeatures)
RepickManifests == {Man(<<OnReg(1, 1, Caret(10), FALSE, {})>>, NoFeatures)}

SecondPublished ==
    { Pkg(1, 10, <<OnReg(2, 0, Caret(10), FALSE, {}), OnReg(3, 0, Caret(10), FALSE, {})>>,
          NoFeatures, 1),
      Pkg(2, 10, <<>>, [f \in {"tls"} |-> {}], 2),
      Pkg(2, 11, <<OnReg(4, 0, Caret(10), FALSE, {})>>, [f \in {"tls"} |-> {}], 3),
      Pkg(2, 20, <<>>, NoFeatures, 4),
      Pkg(3, 10, <<OnReg(2, 0, Below(10, 11), FALSE, {"tls"})>>, NoFeatures, 5),
      Pkg(4, 10, <<>>, NoFeatures, 6) }

SecondUploads == {Pkg(2, 21, <<>>, NoFeatures, 7)}
=============================================================================
